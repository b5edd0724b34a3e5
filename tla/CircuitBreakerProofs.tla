------------------------- MODULE CircuitBreakerProofs -------------------------
(***************************************************************************)
(* Proofs about the circuit breaker, for every set of threads, every       *)
(* configuration and every interleaving of their accesses: its type        *)
(* invariant, the lock-free mirror, the clean entry into HalfOpen and the  *)
(* bound on probes.  The inductive invariant says what a thread that is    *)
(* not stale may still rely on: nobody else is in a transition, so the     *)
(* state it saw or stored stands, and so does what hangs on the state.     *)
(***************************************************************************)
EXTENDS CircuitBreaker, FiniteSetTheorems, TLAPS

----------------------------------------------------------------------------
\* The inductive invariant

Tripping == {"trip_clock", "trip_stamp", "trip_probes", "trip_mirror"}
Closing  == {"close_window", "close_probes", "close_mirror"}
Zeroing  == {"trip_clock", "trip_stamp", "trip_probes"}   \* trip() has yet to zero the count

\* The state a thread relies on and has not missed a change of is still the state,
\* and the thread is the only one that may be in a transition.
Current ==
    \A t \in Threads \ stale :
        /\ pc[t] \in {"opened", "elapsed"} \cup Zeroing => state = "Open"
        /\ pc[t] \in {"mirror", "probe", "claim", "release"} => state = "HalfOpen"
        /\ pc[t] \in {"close_window", "close_probes"} => state = "Closed"
        /\ pc[t] \in Relying => \A u \in Threads : pc[u] \in Moving => u = t
        /\ pc[t] = "elapsed" => seen[t] <= opened_at

\* A transition that began alone is alone, the state is the one it stored, and
\* once it has stored the mirror the mirror is exact.
Mirrored ==
    ~torn =>
        /\ \A t, u \in Threads : pc[t] \in Moving /\ pc[u] \in Moving => t = u
        /\ \A t \in Threads : /\ pc[t] \in Tripping => state = "Open"
                              /\ pc[t] \in Closing => state = "Closed"
                              /\ pc[t] = "mirror" => state = "HalfOpen"
        /\ (\A t \in Threads : pc[t] \notin Moving) => (is_open_fast <=> state = "Open")

\* No probe is counted while Open, but for what trip() has yet to zero and what
\* outdated threads have added since.
Zeroed ==
    state = "Open" =>
        (\E t \in Threads : pc[t] \in Zeroing) \/ half_open_probes = 0 \/ raced

\* The threads that will give back what they counted.
Releasing == {t \in Threads \ stale : pc[t] = "release"}

\* Without a race the count is the probes it let through and the threads that
\* have yet to give theirs back.
Counted ==
    state = "HalfOpen" /\ ~raced =>
        claims <= Probes /\ half_open_probes = claims + Cardinality(Releasing)

\* The stamp is never much older than the latest admission.
Stamped == admitted_at < Lease => probe_claimed_at <= admitted_at + MaxDelay

IInv == TypeOK /\ Current /\ Mirrored /\ Zeroed /\ Counted /\ Stamped

----------------------------------------------------------------------------
\* Lemmas about the operators

\* The numbers of the configuration.
LEMMA Constants ==
    /\ AgeCap \in Nat /\ OpenDuration \in Nat /\ MaxDelay \in Nat /\ AgeCap >= MaxDelay
    /\ Lease \in Nat /\ Probes \in Nat /\ Cardinality(Threads) \in Nat
    /\ Lease > 0 => Lease + MaxDelay = OpenDuration
    /\ Lease = 0 => OpenDuration <= MaxDelay
    /\ MaxWindow \in Nat \ {0} /\ Words \in Nat \ {0} /\ MaxLost \in Nat
    /\ Words > Probes + Cardinality(Threads)
  <1>1. Cardinality(Threads) \in Nat
    BY BreakerAssumption, FS_CardinalityType
  <1> QED
    BY <1>1, BreakerAssumption DEF AgeCap, Lease, Probes

\* A count that is below the modulus is not wrapped.
LEMMA SmallMod == ASSUME NEW w \in Nat \ {0}, NEW n \in 0..(w - 1) PROVE n % w = n
  OBVIOUS

\* The threads that will give back are finitely many.
LEMMA ReleasingFinite == IsFiniteSet(Releasing) /\ Cardinality(Releasing) \in Nat
                         /\ Cardinality(Releasing) <= Cardinality(Threads)
  <1>1. Releasing \subseteq Threads
    BY DEF Releasing
  <1> QED
    BY <1>1, BreakerAssumption, FS_Subset, FS_CardinalityType

\* What push and evict leave is a window within MAX_WINDOW_ENTRIES.
LEMMA EvictedWindow ==
    ASSUME NEW w \in Seq(BOOLEAN), Len(w) <= MaxWindow, NEW n \in 0..Len(w),
           NEW v \in Evicted(w, n)
    PROVE  v \in Seq(BOOLEAN) /\ Len(v) <= MaxWindow
  <1>1. PICK k \in 0..n : v = SubSeq(w, k + 1, Len(w))
    BY DEF Evicted
  <1> QED
    BY <1>1, Constants

\* What record() makes of the window is one too.
LEMMA SampledWindow ==
    ASSUME window \in Seq(BOOLEAN), Len(window) <= MaxWindow, NEW is_failure \in BOOLEAN,
           NEW v \in Sampled(is_failure)
    PROVE  v \in Seq(BOOLEAN) /\ Len(v) <= MaxWindow
  <1> DEFINE kept == IF Len(window) >= MaxWindow THEN Tail(window) ELSE window
             w    == Pushed(window, is_failure)
  <1>1. kept \in Seq(BOOLEAN) /\ Len(kept) \in Nat /\ Len(kept) < MaxWindow
    <2>1. CASE Len(window) >= MaxWindow
      <3>1. window # <<>>
        BY <2>1, Constants
      <3> QED
        BY <2>1, <3>1, Constants
    <2>2. CASE ~(Len(window) >= MaxWindow)
      BY <2>2, Constants
    <2> QED
      BY <2>1, <2>2
  <1>2. w = Append(kept, is_failure)
    BY DEF Pushed
  <1> HIDE DEF kept
  <1>3. w \in Seq(BOOLEAN) /\ Len(w) = Len(kept) + 1
    BY <1>1, <1>2
  <1>4. v \in Evicted(w, Len(w) - 1)
    BY DEF Sampled
  <1> HIDE DEF w
  <1> QED
    <2>1. Len(w) <= MaxWindow /\ Len(w) - 1 \in 0..Len(w)
      BY <1>1, <1>3, Constants
    <2> QED
      BY <1>3, <1>4, <2>1, EvictedWindow

\* A move keeps the types of what a thread holds.
LEMMA MovesType ==
    ASSUME TypeOK, NEW t \in Threads, NEW q \in Points, Moves(t, q)
    PROVE  /\ lost' \in 0..MaxLost
           /\ pc' \in [Threads -> Points]
           /\ seen' \in [Threads -> 0..AgeCap]
           /\ now' \in [Threads -> 0..MaxDelay]
           /\ pc'[t] = q /\ \A u \in Threads \ {t} : pc'[u] = pc[u] /\ seen'[u] = seen[u]
  BY Constants DEF TypeOK, Moves

\* One tick later an age is within its cap, and ages keep their order.
LEMMA OlderFacts ==
    ASSUME NEW cap \in Nat, NEW a \in 0..cap, NEW b \in 0..cap
    PROVE  Older(a, cap) \in 0..cap /\ (a <= b => Older(a, cap) <= Older(b, cap))
  BY DEF Older

----------------------------------------------------------------------------
\* Every action preserves the invariant

\* A thread that loads the state is up to date unless a transition is under way.
LEMMA LoadsIInv ==
    ASSUME IInv, NEW t \in Threads, NEW q \in Points, Loads(t, q), UNCHANGED shared,
           pc[t] \in {"idle", "reload", "granted"},
           q \in {"opened", "probe"} \/ q \notin Moving \cup Relying,
           q = "opened" => state = "Open", q = "probe" => state = "HalfOpen"
    PROVE  IInv'
  <1> USE DEF IInv, Loads, shared
  <1>1. TypeOK'
    BY MovesType DEF TypeOK
  <1>2. pc'[t] = q /\ \A u \in Threads \ {t} : pc'[u] = pc[u] /\ seen'[u] = seen[u]
    BY MovesType
  <1>3. Current'
    <2>1. ASSUME NEW u \in Threads, pc'[u] \in Moving PROVE pc[u] \in Moving /\ u # t
      BY <1>2, <2>1 DEF Moving
    <2>2. ASSUME q \in Relying, t \notin stale' PROVE \A u \in Threads : pc'[u] \notin Moving
      BY <1>2, <2>1, <2>2 DEF Busy
    <2>3. \A u \in Threads \ {t} : u \in stale' <=> u \in stale
      OBVIOUS
    <2>4. ASSUME NEW u \in Threads, u \notin stale', u # t
          PROVE  /\ pc'[u] \in {"opened", "elapsed"} \cup Zeroing => state' = "Open"
                 /\ pc'[u] \in {"mirror", "probe", "claim", "release"} => state' = "HalfOpen"
                 /\ pc'[u] \in {"close_window", "close_probes"} => state' = "Closed"
                 /\ pc'[u] \in Relying => \A v \in Threads : pc'[v] \in Moving => v = u
                 /\ pc'[u] = "elapsed" => seen'[u] <= opened_at'
      BY <1>2, <2>1, <2>3, <2>4 DEF Current
    <2>5. ASSUME t \notin stale'
          PROVE  /\ pc'[t] \in {"opened", "elapsed"} \cup Zeroing => state' = "Open"
                 /\ pc'[t] \in {"mirror", "probe", "claim", "release"} => state' = "HalfOpen"
                 /\ pc'[t] \in {"close_window", "close_probes"} => state' = "Closed"
                 /\ pc'[t] \in Relying => \A v \in Threads : pc'[v] \in Moving => v = t
                 /\ pc'[t] # "elapsed"
      BY <1>2, <2>2, <2>5 DEF Relying, Moving, Zeroing
    <2> QED
      BY <2>4, <2>5 DEF Current
  <1>4. Mirrored'
    BY <1>2 DEF Mirrored, Moving, Tripping, Closing
  <1>5. Zeroed'
    BY <1>2 DEF Zeroed, Zeroing
  <1>6. Counted'
    <2>1. Releasing' = Releasing
      BY <1>2 DEF Releasing, Relying
    <2> QED
      BY <2>1 DEF Counted
  <1>7. Stamped'
    BY DEF Stamped
  <1> QED
    BY <1>1, <1>3, <1>4, <1>5, <1>6, <1>7

\* check() branches on the state it loads.
LEMMA CheckIInv == ASSUME IInv, NEW t \in Threads, Check(t) PROVE IInv'
  <1>1. PICK q \in {"granted", "opened", "probe"} :
          Loads(t, q) /\ (q = "opened" => state = "Open") /\ (q = "probe" => state = "HalfOpen")
    BY DEF Check, IInv, TypeOK
  <1> QED
    BY <1>1, LoadsIInv DEF Check, At, Points, Outside, Moving, Relying

\* The CAS was lost: the state is loaded again.
LEMMA ReloadIInv == ASSUME IInv, NEW t \in Threads, Reload(t) PROVE IInv'
  <1>1. PICK q \in {"granted", "idle", "probe"} :
          Loads(t, q) /\ (q = "opened" => state = "Open") /\ (q = "probe" => state = "HalfOpen")
    BY DEF Reload, IInv, TypeOK
  <1> QED
    BY <1>1, LoadsIInv DEF Reload, At, Points, Outside, Moving, Relying

\* record() branches on the state it loads.
LEMMA RecordIInv ==
    ASSUME IInv, NEW t \in Threads, NEW is_failure \in BOOLEAN, Record(t, is_failure) PROVE IInv'
  <1>1. PICK q \in {"count", "count_ok", "late", "late_ok", "trip", "close"} : Loads(t, q)
    BY DEF Record, IInv, TypeOK
  <1> QED
    BY <1>1, LoadsIInv DEF Record, At, Points, Outside, Moving, Relying

\* check_open loads opened_at_millis: nobody who is not in a transition stores it.
LEMMA LoadOpenedIInv ==
    ASSUME IInv, NEW t \in Threads, LoadOpened(t) PROVE IInv'
  <1> USE DEF IInv, LoadOpened, At, shared, history
  <1>1. TypeOK'
    BY Constants DEF TypeOK, Points, Outside, Timed, Moving, Relying
  <1>2. Current'
    BY <1>1, Constants DEF Current, TypeOK, Points, Outside, Timed, Moving, Relying, Zeroing, Busy
  <1>3. Mirrored'
    BY <1>1 DEF Mirrored, TypeOK, Points, Outside, Timed, Moving, Relying, Tripping, Closing, Busy
  <1>4. Zeroed'
    BY <1>1 DEF Zeroed, TypeOK, Points, Outside, Timed, Moving, Relying, Zeroing, Current
  <1>5. Counted'
    <2>1. Releasing' = Releasing
      BY <1>1 DEF Releasing, TypeOK, Relying
    <2> QED
      BY <2>1 DEF Counted
  <1>6. Stamped'
    BY DEF Stamped
  <1> QED
    BY <1>1, <1>2, <1>3, <1>4, <1>5, <1>6

\* The call is shed.
LEMMA ShedIInv ==
    ASSUME IInv, NEW t \in Threads, Shed(t) PROVE IInv'
  <1> USE DEF IInv, Shed, At, Moves, Keeps, Goto, shared
  <1>1. TypeOK'
    BY Constants DEF TypeOK, Points, Outside, Timed, Moving, Relying
  <1>2. Current'
    BY <1>1, Constants DEF Current, TypeOK, Points, Outside, Timed, Moving, Relying, Zeroing, Busy
  <1>3. Mirrored'
    BY <1>1 DEF Mirrored, TypeOK, Points, Outside, Timed, Moving, Relying, Tripping, Closing, Busy
  <1>4. Zeroed'
    BY <1>1 DEF Zeroed, TypeOK, Points, Outside, Timed, Moving, Relying, Zeroing, Current
  <1>5. Counted'
    <2>1. Releasing' = Releasing
      BY <1>1 DEF Releasing, TypeOK, Relying
    <2> QED
      BY <2>1 DEF Counted
  <1>6. Stamped'
    BY DEF Stamped
  <1> QED
    BY <1>1, <1>2, <1>3, <1>4, <1>5, <1>6

\* A store to the state: every other thread that relies on it is stale from here, and
\* the mirror lags.
LEMMA StoresIInv ==
    ASSUME IInv, NEW t \in Threads, NEW q \in {"mirror", "trip_clock", "close_window"}, Stores(t, q),
           pc[t] \in {"elapsed", "trip", "close"}, raced' \in BOOLEAN,
           q = "trip_clock" => state' = "Open", q = "close_window" => state' = "Closed",
           q = "mirror" => /\ pc[t] = "elapsed" /\ state = "Open" /\ state' = "HalfOpen"
                           /\ ~raced' => ~raced /\ t \notin stale,
           UNCHANGED <<opened_at, half_open_probes, probe_claimed_at, is_open_fast, window>>
    PROVE  IInv'
  <1> USE DEF IInv, Stores
  <1>1. TypeOK'
    <2>1. torn' \in BOOLEAN
      BY DEF Busy
    <2>2. state' \in {"Closed", "Open", "HalfOpen"} /\ q \in Points
      BY DEF Points, Relying
    <2> QED
      BY <2>1, <2>2, MovesType DEF TypeOK
  <1>2. /\ pc'[t] = q /\ \A u \in Threads \ {t} : pc'[u] = pc[u] /\ seen'[u] = seen[u]
        /\ q \in Relying /\ q \in Moving
    BY MovesType DEF Points, Relying, Moving
  <1>3. Current'
    <2>1. \A u \in Threads \ {t} : u \notin stale' => pc'[u] \notin Relying
      BY <1>2
    <2>2. t \notin stale' => \A u \in Threads \ {t} : pc'[u] \notin Moving
      BY <1>2 DEF Busy
    <2> QED
      BY <1>2, <2>1, <2>2 DEF Current, Relying, Zeroing
  <1>4. Mirrored'
    <2>1. ~torn' => \A u \in Threads \ {t} : pc'[u] \notin Moving
      BY <1>2 DEF Busy
    <2> QED
      BY <1>2, <2>1 DEF Mirrored, Moving, Tripping, Closing
  <1>5. Zeroed'
    BY <1>2 DEF Zeroed, Zeroing
  <1>6. Counted'
    <2>1. ASSUME q = "mirror", ~raced' PROVE half_open_probes = 0
      <3>1. \A u \in Threads : pc[u] \notin Zeroing
        BY <2>1 DEF Current, Relying, Moving, Zeroing
      <3> QED
        BY <2>1, <3>1 DEF Zeroed
    <2>2. Releasing' = {}
      BY <1>2 DEF Releasing, Relying
    <2>3. Cardinality(Releasing') = 0
      BY <2>2, FS_EmptySet
    <2> QED
      BY <2>1, <2>3, Constants DEF Counted
  <1>7. Stamped'
    BY DEF Stamped
  <1> QED
    BY <1>1, <1>3, <1>4, <1>5, <1>6, <1>7

\* The CAS of check_open, won.
LEMMA CasWonIInv ==
    ASSUME IInv, NEW t \in Threads, CasHalfOpen(t), state = "Open" PROVE IInv'
  <1>1. raced' \in BOOLEAN /\ (~raced' => ~raced /\ t \notin stale)
    BY DEF CasHalfOpen
  <1> QED
    BY <1>1, StoresIInv DEF CasHalfOpen, At

\* trip() stores the state: its other stores are outstanding.
LEMMA TripStateIInv == ASSUME IInv, NEW t \in Threads, TripState(t) PROVE IInv'
  <1>1. raced' \in BOOLEAN
    BY DEF TripState, IInv, TypeOK
  <1> QED
    BY <1>1, StoresIInv DEF TripState, At

\* close() stores the state.
LEMMA CloseStateIInv == ASSUME IInv, NEW t \in Threads, CloseState(t) PROVE IInv'
  <1>1. raced' \in BOOLEAN
    BY DEF CloseState, IInv, TypeOK
  <1> QED
    BY <1>1, StoresIInv DEF CloseState, At

\* The CAS of check_open, lost: nothing is stored.
LEMMA CasLostIInv ==
    ASSUME IInv, NEW t \in Threads, At(t, "elapsed"), Goto(t, "reload"), UNCHANGED shared PROVE IInv'
  <1> USE DEF IInv, At, Moves, Keeps, Goto, shared
  <1>1. TypeOK'
    BY Constants DEF TypeOK, Points, Outside, Timed, Moving, Relying
  <1>2. Current'
    BY <1>1, Constants DEF Current, TypeOK, Points, Outside, Timed, Moving, Relying, Zeroing, Busy
  <1>3. Mirrored'
    BY <1>1 DEF Mirrored, TypeOK, Points, Outside, Timed, Moving, Relying, Tripping, Closing, Busy
  <1>4. Zeroed'
    BY <1>1 DEF Zeroed, TypeOK, Points, Outside, Timed, Moving, Relying, Zeroing, Current
  <1>5. Counted'
    <2>1. Releasing' = Releasing
      BY <1>1 DEF Releasing, TypeOK, Relying
    <2> QED
      BY <2>1 DEF Counted
  <1>6. Stamped'
    BY DEF Stamped
  <1> QED
    BY <1>1, <1>2, <1>3, <1>4, <1>5, <1>6

\* The CAS of check_open.
LEMMA CasHalfOpenIInv == ASSUME IInv, NEW t \in Threads, CasHalfOpen(t) PROVE IInv'
  BY CasWonIInv, CasLostIInv DEF CasHalfOpen, shared

\* The mirror catches up with HalfOpen.
LEMMA MirrorHalfOpenIInv ==
    ASSUME IInv, NEW t \in Threads, MirrorHalfOpen(t) PROVE IInv'
  <1> USE DEF IInv, MirrorHalfOpen, At, Moves, Keeps, Goto, shared
  <1>1. TypeOK'
    <2>1. is_open_fast' \in BOOLEAN
      OBVIOUS
    <2> QED
      BY <2>1, MovesType DEF TypeOK, Points, Outside, Relying
  <1>2. Current'
    BY <1>1, Constants DEF Current, TypeOK, Points, Outside, Timed, Moving, Relying, Zeroing, Busy
  <1>3. Mirrored'
    BY <1>1 DEF Mirrored, TypeOK, Points, Outside, Timed, Moving, Relying, Tripping, Closing, Busy
  <1>4. Zeroed'
    BY <1>1 DEF Zeroed, TypeOK, Points, Outside, Timed, Moving, Relying, Zeroing, Current
  <1>5. Counted'
    <2>1. Releasing' = Releasing
      BY <1>1 DEF Releasing, TypeOK, Relying
    <2> QED
      BY <2>1 DEF Counted
  <1>6. Stamped'
    BY DEF Stamped
  <1> QED
    BY <1>1, <1>2, <1>3, <1>4, <1>5, <1>6

\* try_half_open_probe reads the clock.
LEMMA ReadClockIInv ==
    ASSUME IInv, NEW t \in Threads, ReadClock(t) PROVE IInv'
  <1> USE DEF IInv, ReadClock, At, Moves, Keeps, Goto, shared
  <1>1. TypeOK'
    BY Constants DEF TypeOK, Points, Outside, Timed, Moving, Relying
  <1>2. Current'
    BY <1>1, Constants DEF Current, TypeOK, Points, Outside, Timed, Moving, Relying, Zeroing, Busy
  <1>3. Mirrored'
    BY <1>1 DEF Mirrored, TypeOK, Points, Outside, Timed, Moving, Relying, Tripping, Closing, Busy
  <1>4. Zeroed'
    BY <1>1 DEF Zeroed, TypeOK, Points, Outside, Timed, Moving, Relying, Zeroing, Current
  <1>5. Counted'
    <2>1. Releasing' = Releasing
      BY <1>1 DEF Releasing, TypeOK, Relying
    <2> QED
      BY <2>1 DEF Counted
  <1>6. Stamped'
    BY DEF Stamped
  <1> QED
    BY <1>1, <1>2, <1>3, <1>4, <1>5, <1>6

\* fetch_add counts a probe; without a race the count cannot wrap.
LEMMA ClaimIInv ==
    ASSUME IInv, NEW t \in Threads, Claim(t) PROVE IInv'
  <1> USE DEF IInv, Claim, At, Moves, Keeps
  <1>1. TypeOK'
    BY Constants DEF TypeOK, Points, Outside, Timed, Moving, Relying
  <1>2. Current'
    BY <1>1, Constants DEF Current, TypeOK, Points, Outside, Timed, Moving, Relying, Zeroing, Busy
  <1>3. Mirrored'
    BY <1>1 DEF Mirrored, TypeOK, Points, Outside, Timed, Moving, Relying, Tripping, Closing, Busy
  <1>4. Zeroed'
    BY <1>1 DEF Zeroed, TypeOK, Points, Outside, Timed, Moving, Relying, Zeroing, Current
  <1>5. Counted'
    <2> SUFFICES ASSUME state = "HalfOpen", ~raced'
                 PROVE  claims' <= Probes /\ half_open_probes' = claims' + Cardinality(Releasing')
      BY DEF Counted
    <2>0. t \notin stale /\ ~raced
      OBVIOUS
    <2>1. t \notin stale /\ claims <= Probes /\ half_open_probes = claims + Cardinality(Releasing)
          /\ claims \in Nat /\ half_open_probes \in Nat /\ t \notin Releasing
      BY <2>0 DEF Counted, TypeOK, Releasing
    <2>2. CASE half_open_probes < Probes
      <3>1. Releasing' = Releasing
        BY <1>1, <2>1, <2>2 DEF Releasing, TypeOK, Relying
      <3>2. claims' = claims + 1 /\ half_open_probes' = half_open_probes + 1
        BY <2>1, <2>2, Constants
      <3> QED
        BY <2>1, <2>2, <3>1, <3>2, ReleasingFinite, Constants
    <2>3. CASE ~(half_open_probes < Probes)
      <3>1. Releasing' = Releasing \cup {t}
        BY <1>1, <2>1, <2>3 DEF Releasing, TypeOK, Relying
      <3>2. Cardinality(Releasing') = Cardinality(Releasing) + 1
        BY <2>1, <3>1, ReleasingFinite, FS_AddElement
      <3>3. Cardinality(Releasing') <= Cardinality(Threads)
        <4>1. Releasing' \subseteq Threads
          BY <3>1 DEF Releasing
        <4> QED
          BY <4>1, BreakerAssumption, FS_Subset
      <3>4. half_open_probes + 1 < Words
        BY <2>1, <3>2, <3>3, ReleasingFinite, Constants
      <3>5. half_open_probes' = half_open_probes + 1 /\ claims' = claims
        BY <2>1, <2>3, <3>4, Constants
      <3> QED
        BY <2>1, <3>2, <3>5, ReleasingFinite
    <2> QED
      BY <2>2, <2>3
  <1>6. Stamped'
    BY DEF Stamped
  <1> QED
    BY <1>1, <1>2, <1>3, <1>4, <1>5, <1>6

\* The claim is stamped with a reading that is at most MaxDelay old.
LEMMA StampIInv ==
    ASSUME IInv, NEW t \in Threads, Stamp(t) PROVE IInv'
  <1> USE DEF IInv, Stamp, Admits, At, Moves, Keeps
  <1>1. TypeOK'
    BY Constants DEF TypeOK, Points, Outside, Timed, Moving, Relying
  <1>2. Current'
    BY <1>1, Constants DEF Current, TypeOK, Points, Outside, Timed, Moving, Relying, Zeroing, Busy
  <1>3. Mirrored'
    BY <1>1 DEF Mirrored, TypeOK, Points, Outside, Timed, Moving, Relying, Tripping, Closing, Busy
  <1>4. Zeroed'
    BY <1>1 DEF Zeroed, TypeOK, Points, Outside, Timed, Moving, Relying, Zeroing, Current
  <1>5. Counted'
    <2>1. Releasing' = Releasing
      BY <1>1 DEF Releasing, TypeOK, Relying
    <2> QED
      BY <2>1 DEF Counted
  <1>6. Stamped'
    BY <1>1, Constants DEF Stamped, TypeOK
  <1> QED
    BY <1>1, <1>2, <1>3, <1>4, <1>5, <1>6

\* fetch_sub takes the count back and may wrap, but not without a race.
LEMMA ReleaseIInv ==
    ASSUME IInv, NEW t \in Threads, Release(t) PROVE IInv'
  <1> USE DEF IInv, Release, At, Moves, Keeps
  <1>1. TypeOK'
    BY Constants DEF TypeOK, Points, Outside, Timed, Moving, Relying
  <1>2. Current'
    BY <1>1, Constants DEF Current, TypeOK, Points, Outside, Timed, Moving, Relying, Zeroing, Busy
  <1>3. Mirrored'
    BY <1>1 DEF Mirrored, TypeOK, Points, Outside, Timed, Moving, Relying, Tripping, Closing, Busy
  <1>4. Zeroed'
    BY <1>1 DEF Zeroed, TypeOK, Points, Outside, Timed, Moving, Relying, Zeroing, Current
  <1>5. Counted'
    <2> SUFFICES ASSUME state = "HalfOpen", ~raced'
                 PROVE  claims' <= Probes /\ half_open_probes' = claims' + Cardinality(Releasing')
      BY DEF Counted
    <2>1. t \notin stale /\ claims <= Probes /\ half_open_probes = claims + Cardinality(Releasing)
          /\ claims \in Nat /\ half_open_probes \in 0..(Words - 1) /\ t \in Releasing
      BY DEF Counted, TypeOK, Releasing
    <2>2. Releasing' = Releasing \ {t}
      BY <1>1, <2>1 DEF Releasing, TypeOK, Relying
    <2>3. Cardinality(Releasing') = Cardinality(Releasing) - 1
      BY <2>1, <2>2, ReleasingFinite, FS_RemoveElement
    <2>4. Cardinality(Releasing) > 0
      BY <2>1, ReleasingFinite, FS_EmptySet
    <2>5. half_open_probes' = half_open_probes - 1
      <3>1. half_open_probes - 1 \in 0..(Words - 1)
        BY <2>1, <2>4, ReleasingFinite, Constants
      <3>2. half_open_probes' = (half_open_probes - 1) % Words /\ Words \in Nat \ {0}
        BY Constants
      <3> QED
        BY ONLY <3>1, <3>2, SmallMod
    <2> QED
      BY <2>1, <2>3, <2>5, ReleasingFinite
  <1>6. Stamped'
    BY DEF Stamped
  <1> QED
    BY <1>1, <1>2, <1>3, <1>4, <1>5, <1>6

\* The claim of the probe is loaded.
LEMMA LoadClaimedIInv ==
    ASSUME IInv, NEW t \in Threads, LoadClaimed(t) PROVE IInv'
  <1> USE DEF IInv, LoadClaimed, At, shared, history
  <1>1. TypeOK'
    BY Constants DEF TypeOK, Points, Outside, Timed, Moving, Relying
  <1>2. Current'
    BY <1>1, Constants DEF Current, TypeOK, Points, Outside, Timed, Moving, Relying, Zeroing, Busy
  <1>3. Mirrored'
    BY <1>1 DEF Mirrored, TypeOK, Points, Outside, Timed, Moving, Relying, Tripping, Closing, Busy
  <1>4. Zeroed'
    BY <1>1 DEF Zeroed, TypeOK, Points, Outside, Timed, Moving, Relying, Zeroing, Current
  <1>5. Counted'
    <2>1. Releasing' = Releasing
      BY <1>1 DEF Releasing, TypeOK, Relying
    <2> QED
      BY <2>1 DEF Counted
  <1>6. Stamped'
    BY DEF Stamped
  <1> QED
    BY <1>1, <1>2, <1>3, <1>4, <1>5, <1>6

\* The compare_exchange on the claim, won.
LEMMA TakenOverIInv ==
    ASSUME IInv, NEW t \in Threads, At(t, "takeover"), Admits(t), probe_claimed_at' = now[t],
           UNCHANGED <<state, opened_at, half_open_probes, is_open_fast, window>> PROVE IInv'
  <1> USE DEF IInv, Admits, At, Moves, Keeps
  <1>1. TypeOK'
    BY Constants DEF TypeOK, Points, Outside, Timed, Moving, Relying
  <1>2. Current'
    BY <1>1, Constants DEF Current, TypeOK, Points, Outside, Timed, Moving, Relying, Zeroing, Busy
  <1>3. Mirrored'
    BY <1>1 DEF Mirrored, TypeOK, Points, Outside, Timed, Moving, Relying, Tripping, Closing, Busy
  <1>4. Zeroed'
    BY <1>1 DEF Zeroed, TypeOK, Points, Outside, Timed, Moving, Relying, Zeroing, Current
  <1>5. Counted'
    <2>1. Releasing' = Releasing
      BY <1>1 DEF Releasing, TypeOK, Relying
    <2> QED
      BY <2>1 DEF Counted
  <1>6. Stamped'
    BY <1>1, Constants DEF Stamped, TypeOK
  <1> QED
    BY <1>1, <1>2, <1>3, <1>4, <1>5, <1>6

\* The compare_exchange on the claim, lost or not tried.
LEMMA NotTakenIInv ==
    ASSUME IInv, NEW t \in Threads, At(t, "takeover"), Goto(t, "idle"), UNCHANGED shared PROVE IInv'
  <1> USE DEF IInv, At, Moves, Keeps, Goto, shared
  <1>1. TypeOK'
    BY Constants DEF TypeOK, Points, Outside, Timed, Moving, Relying
  <1>2. Current'
    BY <1>1, Constants DEF Current, TypeOK, Points, Outside, Timed, Moving, Relying, Zeroing, Busy
  <1>3. Mirrored'
    BY <1>1 DEF Mirrored, TypeOK, Points, Outside, Timed, Moving, Relying, Tripping, Closing, Busy
  <1>4. Zeroed'
    BY <1>1 DEF Zeroed, TypeOK, Points, Outside, Timed, Moving, Relying, Zeroing, Current
  <1>5. Counted'
    <2>1. Releasing' = Releasing
      BY <1>1 DEF Releasing, TypeOK, Relying
    <2> QED
      BY <2>1 DEF Counted
  <1>6. Stamped'
    BY DEF Stamped
  <1> QED
    BY <1>1, <1>2, <1>3, <1>4, <1>5, <1>6

\* The compare_exchange on the claim.
LEMMA TakeoverIInv == ASSUME IInv, NEW t \in Threads, Takeover(t) PROVE IInv'
  BY TakenOverIInv, NotTakenIInv DEF Takeover, shared

\* A request is dropped.
LEMMA ForgetIInv ==
    ASSUME IInv, NEW t \in Threads, Forget(t) PROVE IInv'
  <1> USE DEF IInv, Forget, At, shared, history
  <1>1. TypeOK'
    BY Constants DEF TypeOK, Points, Outside, Timed, Moving, Relying
  <1>2. Current'
    BY <1>1, Constants DEF Current, TypeOK, Points, Outside, Timed, Moving, Relying, Zeroing, Busy
  <1>3. Mirrored'
    BY <1>1 DEF Mirrored, TypeOK, Points, Outside, Timed, Moving, Relying, Tripping, Closing, Busy
  <1>4. Zeroed'
    BY <1>1 DEF Zeroed, TypeOK, Points, Outside, Timed, Moving, Relying, Zeroing, Current
  <1>5. Counted'
    <2>1. Releasing' = Releasing
      BY <1>1 DEF Releasing, TypeOK, Relying
    <2> QED
      BY <2>1 DEF Counted
  <1>6. Stamped'
    BY DEF Stamped
  <1> QED
    BY <1>1, <1>2, <1>3, <1>4, <1>5, <1>6

\* trip() reads the clock.
LEMMA TripClockIInv ==
    ASSUME IInv, NEW t \in Threads, TripClock(t) PROVE IInv'
  <1> USE DEF IInv, TripClock, At, Moves, Keeps, Goto, shared
  <1>1. TypeOK'
    BY Constants DEF TypeOK, Points, Outside, Timed, Moving, Relying
  <1>2. Current'
    BY <1>1, Constants DEF Current, TypeOK, Points, Outside, Timed, Moving, Relying, Zeroing, Busy
  <1>3. Mirrored'
    BY <1>1 DEF Mirrored, TypeOK, Points, Outside, Timed, Moving, Relying, Tripping, Closing, Busy
  <1>4. Zeroed'
    BY <1>1 DEF Zeroed, TypeOK, Points, Outside, Timed, Moving, Relying, Zeroing, Current
  <1>5. Counted'
    <2>1. Releasing' = Releasing
      BY <1>1 DEF Releasing, TypeOK, Relying
    <2> QED
      BY <2>1 DEF Counted
  <1>6. Stamped'
    BY DEF Stamped
  <1> QED
    BY <1>1, <1>2, <1>3, <1>4, <1>5, <1>6

\* trip() stamps opened_at: no thread that is up to date is comparing it.
LEMMA TripStampIInv ==
    ASSUME IInv, NEW t \in Threads, TripStamp(t) PROVE IInv'
  <1> USE DEF IInv, TripStamp, At, Moves, Keeps, Goto, shared
  <1>1. TypeOK'
    BY Constants DEF TypeOK, Points, Outside, Timed, Moving, Relying
  <1>2. Current'
    BY <1>1, Constants DEF Current, TypeOK, Points, Outside, Timed, Moving, Relying, Zeroing, Busy
  <1>3. Mirrored'
    BY <1>1 DEF Mirrored, TypeOK, Points, Outside, Timed, Moving, Relying, Tripping, Closing, Busy
  <1>4. Zeroed'
    BY <1>1 DEF Zeroed, TypeOK, Points, Outside, Timed, Moving, Relying, Zeroing, Current
  <1>5. Counted'
    <2>1. Releasing' = Releasing
      BY <1>1 DEF Releasing, TypeOK, Relying
    <2> QED
      BY <2>1 DEF Counted
  <1>6. Stamped'
    BY DEF Stamped
  <1> QED
    BY <1>1, <1>2, <1>3, <1>4, <1>5, <1>6

\* trip() zeroes the probes; in HalfOpen it does so too late.
LEMMA TripProbesIInv ==
    ASSUME IInv, NEW t \in Threads, TripProbes(t) PROVE IInv'
  <1> USE DEF IInv, TripProbes, At, Moves, Keeps, Zeroes
  <1>1. TypeOK'
    BY Constants DEF TypeOK, Points, Outside, Timed, Moving, Relying
  <1>2. Current'
    BY <1>1, Constants DEF Current, TypeOK, Points, Outside, Timed, Moving, Relying, Zeroing, Busy
  <1>3. Mirrored'
    BY <1>1 DEF Mirrored, TypeOK, Points, Outside, Timed, Moving, Relying, Tripping, Closing, Busy
  <1>4. Zeroed'
    BY <1>1 DEF Zeroed, TypeOK, Points, Outside, Timed, Moving, Relying, Zeroing, Current
  <1>5. Counted'
    BY DEF Counted, Current, Zeroing
  <1>6. Stamped'
    BY DEF Stamped
  <1> QED
    BY <1>1, <1>2, <1>3, <1>4, <1>5, <1>6

\* trip() stores the mirror last.
LEMMA TripMirrorIInv ==
    ASSUME IInv, NEW t \in Threads, TripMirror(t) PROVE IInv'
  <1> USE DEF IInv, TripMirror, At, Moves, Keeps, Goto, shared
  <1>1. TypeOK'
    BY Constants DEF TypeOK, Points, Outside, Timed, Moving, Relying
  <1>2. Current'
    BY <1>1, Constants DEF Current, TypeOK, Points, Outside, Timed, Moving, Relying, Zeroing, Busy
  <1>3. Mirrored'
    BY <1>1 DEF Mirrored, TypeOK, Points, Outside, Timed, Moving, Relying, Tripping, Closing, Busy
  <1>4. Zeroed'
    BY <1>1 DEF Zeroed, TypeOK, Points, Outside, Timed, Moving, Relying, Zeroing, Current
  <1>5. Counted'
    <2>1. Releasing' = Releasing
      BY <1>1 DEF Releasing, TypeOK, Relying
    <2> QED
      BY <2>1 DEF Counted
  <1>6. Stamped'
    BY DEF Stamped
  <1> QED
    BY <1>1, <1>2, <1>3, <1>4, <1>5, <1>6

\* close() clears the window.
LEMMA CloseWindowIInv ==
    ASSUME IInv, NEW t \in Threads, CloseWindow(t) PROVE IInv'
  <1> USE DEF IInv, CloseWindow, At, Moves, Keeps, Goto, shared
  <1>1. TypeOK'
    BY Constants DEF TypeOK, Points, Outside, Timed, Moving, Relying
  <1>2. Current'
    BY <1>1, Constants DEF Current, TypeOK, Points, Outside, Timed, Moving, Relying, Zeroing, Busy
  <1>3. Mirrored'
    BY <1>1 DEF Mirrored, TypeOK, Points, Outside, Timed, Moving, Relying, Tripping, Closing, Busy
  <1>4. Zeroed'
    BY <1>1 DEF Zeroed, TypeOK, Points, Outside, Timed, Moving, Relying, Zeroing, Current
  <1>5. Counted'
    <2>1. Releasing' = Releasing
      BY <1>1 DEF Releasing, TypeOK, Relying
    <2> QED
      BY <2>1 DEF Counted
  <1>6. Stamped'
    BY DEF Stamped
  <1> QED
    BY <1>1, <1>2, <1>3, <1>4, <1>5, <1>6

\* close() zeroes the probes; in HalfOpen it does so too late.
LEMMA CloseProbesIInv ==
    ASSUME IInv, NEW t \in Threads, CloseProbes(t) PROVE IInv'
  <1> USE DEF IInv, CloseProbes, At, Moves, Keeps, Zeroes
  <1>1. TypeOK'
    BY Constants DEF TypeOK, Points, Outside, Timed, Moving, Relying
  <1>2. Current'
    BY <1>1, Constants DEF Current, TypeOK, Points, Outside, Timed, Moving, Relying, Zeroing, Busy
  <1>3. Mirrored'
    BY <1>1 DEF Mirrored, TypeOK, Points, Outside, Timed, Moving, Relying, Tripping, Closing, Busy
  <1>4. Zeroed'
    BY <1>1 DEF Zeroed, TypeOK, Points, Outside, Timed, Moving, Relying, Zeroing, Current
  <1>5. Counted'
    BY DEF Counted, Current, Zeroing
  <1>6. Stamped'
    BY DEF Stamped
  <1> QED
    BY <1>1, <1>2, <1>3, <1>4, <1>5, <1>6

\* close() stores the mirror last.
LEMMA CloseMirrorIInv ==
    ASSUME IInv, NEW t \in Threads, CloseMirror(t) PROVE IInv'
  <1> USE DEF IInv, CloseMirror, At, Moves, Keeps, Goto, shared
  <1>1. TypeOK'
    <2>1. is_open_fast' \in BOOLEAN
      OBVIOUS
    <2> QED
      BY <2>1, MovesType DEF TypeOK, Points, Outside, Relying
  <1>2. Current'
    BY <1>1, Constants DEF Current, TypeOK, Points, Outside, Timed, Moving, Relying, Zeroing, Busy
  <1>3. Mirrored'
    BY <1>1 DEF Mirrored, TypeOK, Points, Outside, Timed, Moving, Relying, Tripping, Closing, Busy
  <1>4. Zeroed'
    BY <1>1 DEF Zeroed, TypeOK, Points, Outside, Timed, Moving, Relying, Zeroing, Current
  <1>5. Counted'
    <2>1. Releasing' = Releasing
      BY <1>1 DEF Releasing, TypeOK, Relying
    <2> QED
      BY <2>1 DEF Counted
  <1>6. Stamped'
    BY DEF Stamped
  <1> QED
    BY <1>1, <1>2, <1>3, <1>4, <1>5, <1>6

\* A sample counted in Closed: the window keeps its bound.
LEMMA CountIInv ==
    ASSUME IInv, NEW t \in Threads, NEW is_failure \in BOOLEAN, Count(t, is_failure) PROVE IInv'
  <1> USE DEF IInv, Count, At, Moves, Keeps, Goto, shared
  <1>1. TypeOK'
    <2>1. PICK w \in Sampled(is_failure) :
            window' = w /\ Goto(t, IF ShouldTrip(w) THEN "trip" ELSE "idle")
      OBVIOUS
    <2>2. window' \in Seq(BOOLEAN) /\ Len(window') <= MaxWindow
      BY <2>1, SampledWindow DEF TypeOK
    <2>3. lost' \in 0..MaxLost /\ pc' \in [Threads -> Points]
          /\ seen' \in [Threads -> 0..AgeCap] /\ now' \in [Threads -> 0..MaxDelay]
          /\ stale' \subseteq Threads /\ UNCHANGED <<torn, raced, claims, admitted_at>>
      <3>1. (IF ShouldTrip(w) THEN "trip" ELSE "idle") \in Points
        BY DEF Points, Outside
      <3> QED
        BY <2>1, <3>1, MovesType DEF TypeOK
    <2> QED
      BY <2>2, <2>3 DEF TypeOK
  <1>2. Current'
    BY <1>1, Constants DEF Current, TypeOK, Points, Outside, Timed, Moving, Relying, Zeroing, Busy
  <1>3. Mirrored'
    BY <1>1 DEF Mirrored, TypeOK, Points, Outside, Timed, Moving, Relying, Tripping, Closing, Busy
  <1>4. Zeroed'
    BY <1>1 DEF Zeroed, TypeOK, Points, Outside, Timed, Moving, Relying, Zeroing, Current
  <1>5. Counted'
    <2>1. Releasing' = Releasing
      BY <1>1 DEF Releasing, TypeOK, Relying
    <2> QED
      BY <2>1 DEF Counted
  <1>6. Stamped'
    BY DEF Stamped
  <1> QED
    BY <1>1, <1>2, <1>3, <1>4, <1>5, <1>6

\* A sample that arrives in Open.
LEMMA LateIInv ==
    ASSUME IInv, NEW t \in Threads, NEW is_failure \in BOOLEAN, Late(t, is_failure) PROVE IInv'
  <1> USE DEF IInv, Late, At, Moves, Keeps, Goto, shared
  <1>1. TypeOK'
    <2>1. window' \in Seq(BOOLEAN) /\ Len(window') <= MaxWindow
      BY SampledWindow DEF TypeOK
    <2> QED
      BY <2>1, Constants DEF TypeOK, Points, Outside, Timed, Moving, Relying
  <1>2. Current'
    BY <1>1, Constants DEF Current, TypeOK, Points, Outside, Timed, Moving, Relying, Zeroing, Busy
  <1>3. Mirrored'
    BY <1>1 DEF Mirrored, TypeOK, Points, Outside, Timed, Moving, Relying, Tripping, Closing, Busy
  <1>4. Zeroed'
    BY <1>1 DEF Zeroed, TypeOK, Points, Outside, Timed, Moving, Relying, Zeroing, Current
  <1>5. Counted'
    <2>1. Releasing' = Releasing
      BY <1>1 DEF Releasing, TypeOK, Relying
    <2> QED
      BY <2>1 DEF Counted
  <1>6. Stamped'
    BY DEF Stamped
  <1> QED
    BY <1>1, <1>2, <1>3, <1>4, <1>5, <1>6

\* error_rate() only evicts.
LEMMA ErrorRateIInv ==
    ASSUME IInv, ErrorRate PROVE IInv'
  <1> USE DEF IInv, ErrorRate, locals, history
  <1>1. TypeOK'
    <2>1. /\ window \in Seq(BOOLEAN) /\ Len(window) <= MaxWindow
          /\ Len(window) \in 0..Len(window) /\ window' \in Evicted(window, Len(window))
      BY DEF TypeOK
    <2>2. window' \in Seq(BOOLEAN) /\ Len(window') <= MaxWindow
      BY <2>1, EvictedWindow
    <2> QED
      BY <2>2 DEF TypeOK
  <1>2. Current'
    BY <1>1, Constants DEF Current, TypeOK, Points, Outside, Timed, Moving, Relying, Zeroing, Busy
  <1>3. Mirrored'
    BY <1>1 DEF Mirrored, TypeOK, Points, Outside, Timed, Moving, Relying, Tripping, Closing, Busy
  <1>4. Zeroed'
    BY <1>1 DEF Zeroed, TypeOK, Points, Outside, Timed, Moving, Relying, Zeroing, Current
  <1>5. Counted'
    <2>1. Releasing' = Releasing
      BY <1>1 DEF Releasing, TypeOK, Relying
    <2> QED
      BY <2>1 DEF Counted
  <1>6. Stamped'
    BY DEF Stamped
  <1> QED
    BY <1>1, <1>2, <1>3, <1>4, <1>5, <1>6

\* The clock: every age grows alike, so a reading never overtakes its source.
LEMMA TickIInv ==
    ASSUME IInv, Tick PROVE IInv'
  <1> USE DEF IInv, Tick
  <1>1. TypeOK'
    <2>1. opened_at' \in 0..AgeCap /\ probe_claimed_at' \in 0..AgeCap
      BY Constants, OlderFacts DEF TypeOK
    <2>2. seen' \in [Threads -> 0..AgeCap]
      <3>1. ASSUME NEW t \in Threads PROVE Older(seen[t], AgeCap) \in 0..AgeCap
        <4>1. seen[t] \in 0..AgeCap
          BY DEF TypeOK
        <4> QED
          BY <4>1, Constants DEF Older
      <3> QED
        BY <3>1, Constants
    <2>3. now' \in [Threads -> 0..MaxDelay]
      <3>1. ASSUME NEW t \in Threads PROVE Older(now[t], MaxDelay) \in 0..MaxDelay
        <4>1. now[t] \in 0..MaxDelay
          BY DEF TypeOK
        <4> QED
          BY <4>1, Constants DEF Older
      <3> QED
        BY <3>1, Constants
    <2>4. admitted_at' \in 0..Lease
      BY Constants, OlderFacts DEF TypeOK
    <2> QED
      BY <2>1, <2>2, <2>3, <2>4 DEF TypeOK
  <1>2. Current'
    <2>1. ASSUME NEW t \in Threads, t \notin stale, pc[t] = "elapsed" PROVE seen'[t] <= opened_at'
      <3>1. seen[t] \in 0..AgeCap /\ opened_at \in 0..AgeCap /\ seen[t] <= opened_at
        BY <2>1 DEF TypeOK, Current
      <3>2. seen'[t] = Older(seen[t], AgeCap)
        BY <2>1
      <3> QED
        BY <3>1, <3>2, OlderFacts, Constants
    <2> QED
      BY <2>1 DEF Current
  <1>3. Mirrored'
    BY <1>1 DEF Mirrored, TypeOK, Points, Outside, Timed, Moving, Relying, Tripping, Closing, Busy
  <1>4. Zeroed'
    BY <1>1 DEF Zeroed, TypeOK, Points, Outside, Timed, Moving, Relying, Zeroing, Current
  <1>5. Counted'
    <2>1. Releasing' = Releasing
      BY <1>1 DEF Releasing, TypeOK, Relying
    <2> QED
      BY <2>1 DEF Counted
  <1>6. Stamped'
    BY <1>1, Constants DEF Stamped, TypeOK, Older
  <1> QED
    BY <1>1, <1>2, <1>3, <1>4, <1>5, <1>6

\* The breaker starts closed, with an empty window and no call in progress.
LEMMA InitIInv == Init => IInv
  <1> SUFFICES ASSUME Init PROVE IInv
    OBVIOUS
  <1>1. TypeOK
    <2>1. window \in Seq(BOOLEAN) /\ Len(window) <= MaxWindow
      BY Constants DEF Init
    <2>2. is_open_fast \in BOOLEAN /\ torn \in BOOLEAN /\ raced \in BOOLEAN
      BY DEF Init
    <2>3. half_open_probes \in 0..(Words - 1) /\ lost \in 0..MaxLost /\ admitted_at \in 0..Lease
      BY Constants DEF Init
    <2>4. pc \in [Threads -> Points] /\ seen \in [Threads -> 0..AgeCap]
          /\ now \in [Threads -> 0..MaxDelay]
      BY Constants DEF Init, Points, Outside
    <2> QED
      BY <2>1, <2>2, <2>3, <2>4, Constants DEF Init, TypeOK
  <1>2. Current /\ Mirrored /\ Zeroed /\ Counted /\ Stamped
    BY Constants DEF Init, Current, Mirrored, Zeroed, Counted, Stamped, Relying, Moving, Zeroing,
       Tripping, Closing
  <1> QED
    BY <1>1, <1>2 DEF IInv

\* Nothing changes.
LEMMA StutterIInv == IInv /\ UNCHANGED vars => IInv'
  BY DEF vars, IInv, TypeOK, Current, Mirrored, Zeroed, Counted, Releasing, Stamped

\* Every step preserves the invariant.
LEMMA NextIInv == IInv /\ [Next]_vars => IInv'
  <1> SUFFICES ASSUME IInv, [Next]_vars PROVE IInv'
    OBVIOUS
  <1>1. ASSUME NEW t \in Threads, Step(t) PROVE IInv'
    <2>1. CASE Continue(t)
      BY <1>1, <2>1, LoadOpenedIInv, ShedIInv, CasHalfOpenIInv, MirrorHalfOpenIInv, ReloadIInv,
         ReadClockIInv, ClaimIInv, StampIInv, ReleaseIInv, LoadClaimedIInv, TakeoverIInv,
         CountIInv, LateIInv, TripStateIInv, TripClockIInv, TripStampIInv, TripProbesIInv,
         TripMirrorIInv, CloseStateIInv, CloseWindowIInv, CloseProbesIInv, CloseMirrorIInv
         DEF Continue
    <2> QED
      BY <1>1, <2>1, CheckIInv, RecordIInv, ForgetIInv DEF Step, Completes
  <1> QED
    BY <1>1, ErrorRateIInv, TickIInv, StutterIInv DEF Next

\* The inductive invariant holds of the breaker, for every number of threads,
\* every configuration and every interleaving.
THEOREM Invariance == Spec => []IInv
  BY InitIInv, NextIInv, PTL DEF Spec

\* Type correctness of the breaker: the window keeps within MAX_WINDOW_ENTRIES and
\* the probe counter within usize.
THEOREM TypeCorrect == Spec => []TypeOK
  <1>1. IInv => TypeOK
    BY DEF IInv
  <1> QED
    BY <1>1, Invariance, PTL

\* With any number of threads racing, is_open() answers what the authoritative state
\* says once the transitions are through, unless the last one began inside another.
THEOREM MirrorCorrect == Spec => []MirrorExact
  <1>1. IInv => MirrorExact
    BY DEF IInv, Mirrored, MirrorExact
  <1> QED
    BY <1>1, Invariance, PTL

\* Which step takes a thread from one access to another.
LEMMA WhoSteps ==
    ASSUME IInv, Next, NEW t \in Threads, pc'[t] # pc[t]
    PROVE  Step(t)
  <1>1. PICK u \in Threads : Step(u)
    BY DEF Next, ErrorRate, Tick, locals
  <1>2. \A v \in Threads \ {u} : pc'[v] = pc[v]
    BY <1>1 DEF Step, Continue, Check, Completes, Record, Forget, LoadOpened, Shed, CasHalfOpen,
       MirrorHalfOpen, Reload, ReadClock, Claim, Stamp, Release, LoadClaimed, Takeover, Count,
       Late, TripState, TripClock, TripStamp, TripProbes, TripMirror, CloseState, CloseWindow,
       CloseProbes, CloseMirror, Moves, Goto, Loads, Stores, Zeroes, Admits, IInv, TypeOK
  <1> QED
    BY <1>1, <1>2

\* With any number of threads racing, whoever half-opens the breaker on a state that
\* has stood since it saw it does so open_duration after the trip and finds the
\* count at zero, unless an outdated thread moved it.
THEOREM HalfOpenCorrect == Spec => HalfOpensCleanly
  <1>1. ASSUME IInv, Next, NEW t \in Threads, pc[t] = "elapsed", pc'[t] = "mirror", t \notin stale
        PROVE  opened_at >= OpenDuration /\ (half_open_probes = 0 \/ raced)
    <2>1. Step(t)
      BY <1>1, WhoSteps
    <2>2. CasHalfOpen(t) /\ state = "Open"
      BY <1>1, <2>1 DEF Step, Continue, Check, Completes, Record, Forget, LoadOpened, Shed,
         CasHalfOpen, MirrorHalfOpen, Reload, ReadClock, Claim, Stamp, Release, LoadClaimed,
         Takeover, Count, Late, TripState, TripClock, TripStamp, TripProbes, TripMirror,
         CloseState, CloseWindow, CloseProbes, CloseMirror, At, Goto, Moves, IInv, TypeOK
    <2>3. seen[t] >= OpenDuration /\ seen[t] <= opened_at
      BY <1>1, <2>2 DEF CasHalfOpen, Elapsed, IInv, Current
    <2>4. opened_at >= OpenDuration
      BY <1>1, <2>3, Constants DEF IInv, TypeOK
    <2>5. \A u \in Threads : pc[u] \notin Zeroing
      BY <1>1 DEF IInv, Current, Relying, Moving, Zeroing
    <2> QED
      BY <1>1, <2>2, <2>4, <2>5 DEF IInv, Zeroed
  <1>2. IInv /\ [Next]_vars =>
          [\A t \in Threads : pc[t] = "elapsed" /\ pc'[t] = "mirror" /\ t \notin stale =>
             opened_at >= OpenDuration /\ (half_open_probes = 0 \/ raced)]_vars
    BY <1>1
  <1> QED
    BY <1>2, Invariance, PTL DEF Spec, HalfOpensCleanly

\* With any number of threads racing, a half-open period no outdated thread has
\* touched lets no more probes through the count than there are slots, and a slot
\* is taken over only a lease after the latest probe was admitted.
THEOREM ProbesCorrect == Spec => OneExtraProbe
  <1>1. ASSUME IInv, Next, NEW t \in Threads, pc[t] = "takeover", pc'[t] = "granted"
        PROVE  admitted_at >= Lease
    <2>1. Step(t)
      BY <1>1, WhoSteps
    <2>2. Takeover(t)
      BY <1>1, <2>1 DEF Step, Continue, Check, Completes, Record, Forget, LoadOpened, Shed,
         CasHalfOpen, MirrorHalfOpen, Reload, ReadClock, Claim, Stamp, Release, LoadClaimed,
         Count, Late, TripState, TripClock, TripStamp, TripProbes, TripMirror, CloseState,
         CloseWindow, CloseProbes, CloseMirror, At
    <2>3. Reclaims(t)
      BY <1>1, <2>2 DEF Takeover, Goto, Moves, IInv, TypeOK
    <2>4. probe_claimed_at >= OpenDuration
      BY <1>1, <2>3, Constants DEF Reclaims, IInv, TypeOK
    <2> QED
      BY <1>1, <2>4, Constants DEF IInv, Stamped, TypeOK
  <1>2. IInv' => (state' = "HalfOpen" /\ ~raced' => claims' <= Probes)
    BY DEF IInv, Counted
  <1>3. IInv /\ IInv' /\ [Next]_vars =>
          [/\ state' = "HalfOpen" /\ ~raced' => claims' <= Probes
           /\ \A t \in Threads : pc[t] = "takeover" /\ pc'[t] = "granted" =>
                 admitted_at >= Lease]_vars
    BY <1>1, <1>2
  <1> QED
    BY <1>3, Invariance, PTL DEF Spec, OneExtraProbe
===============================================================================
