---------------------------- MODULE CircuitBreaker ----------------------------
(***************************************************************************)
(* The shared circuit breaker: check() and record() called from several    *)
(* threads, one action per atomic access (a load, a store, a fetch_add, a  *)
(* compare_exchange) or per critical section of the window's mutex.        *)
(*                                                                         *)
(* A timestamp is represented by its age in ticks.  Ages saturate at       *)
(* AgeCap, which no comparison can tell from a larger one because a clock  *)
(* reading a thread still holds is at most MaxDelay old.  The age of a     *)
(* window sample is not kept: any of the oldest samples may have expired.  *)
(* Observers, the disabled breaker (check and record return at once) and   *)
(* the test hook force_half_open are left out.                             *)
(***************************************************************************)
EXTENDS Integers, Sequences, FiniteSets

CONSTANTS
    Threads,
    MinSamples,     \* config.min_samples
    RatePercent,    \* config.error_rate_threshold, in percent
    MaxWindow,      \* MAX_WINDOW_ENTRIES
    MaxProbes,      \* config.half_open_max_probes
    OpenDuration,   \* config.open_duration, in ticks
    MaxDelay,       \* bound: ticks a thread may take from a clock reading to its use
    MaxLost,        \* bound: requests that are dropped and never recorded
    Words           \* number of values of usize

ASSUME BreakerAssumption ==
    /\ IsFiniteSet(Threads)
    /\ MinSamples \in Nat /\ RatePercent \in Nat /\ MaxWindow \in Nat \ {0}
    /\ MaxProbes \in Nat /\ OpenDuration \in Nat \ {0} /\ MaxDelay \in Nat /\ MaxLost \in Nat
    /\ Words \in Nat /\ Words > MaxProbes + 1 + Cardinality(Threads)

VARIABLES
    state,              \* AtomicU8
    opened_at,          \* age of opened_at_millis
    half_open_probes,   \* AtomicUsize
    probe_claimed_at,   \* age of probe_claimed_at_millis
    is_open_fast,       \* AtomicBool
    window,             \* is_failure of the samples, oldest first
    pc, seen, now,      \* per thread: next access, timestamp loaded, clock reading
    lost,               \* requests dropped so far
    \* History: what the threads' interleaving has done so far.
    stale,              \* threads since whose last load or store of the state it moved, or was moving
    torn,               \* the last store to state fell into another thread's transition
    raced,              \* since the count was last zeroed a stale thread moved it or half-opened
    claims,             \* probes the count has let through since state was last stored
    admitted_at         \* age of the latest probe's admission

shared == <<state, opened_at, half_open_probes, probe_claimed_at, is_open_fast, window>>
locals == <<pc, seen, now, lost>>
history == <<stale, torn, raced, claims, admitted_at>>
vars   == <<state, opened_at, half_open_probes, probe_claimed_at, is_open_fast, window,
            pc, seen, now, lost, stale, torn, raced, claims, admitted_at>>

AgeCap == OpenDuration + MaxDelay
\* The age below which no thread can take a probe's claim for expired.
Lease  == IF OpenDuration > MaxDelay THEN OpenDuration - MaxDelay ELSE 0

\* Between calls a thread has no request ("idle") or one that was let through.
Outside == {"idle", "granted"}
Timed   == {"claim", "stamp", "release", "lease", "takeover", "trip_stamp"}   \* holds a clock reading
\* A transition: state is stored, the mirror is not yet.
Moving  == {"mirror", "trip_clock", "trip_stamp", "trip_probes", "trip_mirror",
            "close_window", "close_probes", "close_mirror"}
\* What the thread does next rests on the state it last loaded or stored.
Relying == {"opened", "elapsed", "mirror", "probe", "claim", "release", "trip_clock", "trip_stamp",
            "trip_probes", "close_window", "close_probes"}
Points  == Outside \cup Timed \cup Moving \cup Relying \cup
           {"reload", "count", "count_ok", "late", "late_ok", "trip", "close"}

TypeOK ==
    /\ state \in {"Closed", "Open", "HalfOpen"}
    /\ opened_at \in 0..AgeCap /\ probe_claimed_at \in 0..AgeCap
    /\ half_open_probes \in 0..(Words - 1)
    /\ is_open_fast \in BOOLEAN
    /\ window \in Seq(BOOLEAN) /\ Len(window) <= MaxWindow
    /\ pc \in [Threads -> Points]
    /\ seen \in [Threads -> 0..AgeCap]
    /\ now \in [Threads -> 0..MaxDelay]
    /\ lost \in 0..MaxLost
    /\ stale \subseteq Threads /\ torn \in BOOLEAN /\ raced \in BOOLEAN
    /\ claims \in Nat /\ admitted_at \in 0..Lease

Init ==
    /\ state = "Closed"
    /\ opened_at = 0 /\ probe_claimed_at = 0
    /\ half_open_probes = 0
    /\ is_open_fast = FALSE
    /\ window = <<>>
    /\ pc = [t \in Threads |-> "idle"]
    /\ seen = [t \in Threads |-> 0]
    /\ now = [t \in Threads |-> 0]
    /\ lost = 0
    /\ stale = {} /\ torn = FALSE /\ raced = FALSE
    /\ claims = 0 /\ admitted_at = Lease

\* with_clock clamps half_open_max_probes to at least one.
Probes == IF MaxProbes = 0 THEN 1 ELSE MaxProbes

\* Another thread is in the middle of a transition.
Busy(t) == \E u \in Threads \ {t} : pc[u] \in Moving

\* A thread is at p and goes to q; the timestamps it is done with are forgotten.
At(t, p)   == pc[t] = p
Moves(t, q) ==
    /\ pc' = [pc EXCEPT ![t] = q]
    /\ seen' = [seen EXCEPT ![t] = IF q \in {"elapsed", "takeover"} THEN @ ELSE 0]
    /\ now' = [now EXCEPT ![t] = IF q \in Timed THEN @ ELSE 0]
    /\ UNCHANGED lost
Keeps(t, q) == stale' = IF q \in Relying THEN stale ELSE stale \ {t}
Goto(t, q) == Moves(t, q) /\ Keeps(t, q) /\ UNCHANGED <<torn, raced, claims, admitted_at>>
\* A load of the state, and a store to it.
Loads(t, q) ==
    /\ Moves(t, q)
    /\ stale' = IF q \in Relying /\ Busy(t) THEN stale \cup {t} ELSE stale \ {t}
    /\ UNCHANGED <<torn, raced, claims, admitted_at>>
Stores(t, q) ==
    /\ Moves(t, q)
    /\ stale' = {u \in Threads : IF u = t THEN Busy(t) ELSE pc[u] \in Relying}
    /\ torn' = Busy(t)
    /\ claims' = 0
    /\ UNCHANGED admitted_at
\* A store of zero to the probe count, and the admission of a probe.
Zeroes(t, q) ==
    /\ Moves(t, q) /\ Keeps(t, q)
    /\ half_open_probes' = 0
    /\ raced' = (t \in stale)
    /\ UNCHANGED <<torn, claims, admitted_at>>
Admits(t) ==
    /\ Moves(t, "granted") /\ Keeps(t, "granted")
    /\ admitted_at' = 0
    /\ UNCHANGED <<torn, raced, claims>>

----------------------------------------------------------------------------
\* check()

Check(t) ==
    /\ At(t, "idle")
    /\ Loads(t, CASE state = "Closed"   -> "granted"
                 [] state = "Open"     -> "opened"
                 [] state = "HalfOpen" -> "probe")
    /\ UNCHANGED shared

\* check_open: load of opened_at_millis
LoadOpened(t) ==
    /\ At(t, "opened")
    /\ pc' = [pc EXCEPT ![t] = "elapsed"]
    /\ seen' = [seen EXCEPT ![t] = opened_at]
    /\ UNCHANGED <<shared, now, lost, history>>

\* elapsed >= open_duration, by the clock at this point
Elapsed(t) == seen[t] >= OpenDuration

Shed(t) ==
    /\ At(t, "elapsed")
    /\ ~Elapsed(t)
    /\ Goto(t, "idle")
    /\ UNCHANGED shared

\* cas_state(Open, HalfOpen)
CasHalfOpen(t) ==
    /\ At(t, "elapsed")
    /\ Elapsed(t)
    /\ IF state = "Open"
       THEN state' = "HalfOpen" /\ Stores(t, "mirror") /\ raced' = (raced \/ t \in stale)
       ELSE state' = state /\ Goto(t, "reload")
    /\ UNCHANGED <<opened_at, half_open_probes, probe_claimed_at, is_open_fast, window>>

MutMirrorHalfOpen(t) ==
    /\ At(t, "mirror")
    /\ Goto(t, "probe")
    /\ UNCHANGED shared
MirrorHalfOpen(t) ==
    /\ At(t, "mirror")
    /\ is_open_fast' = FALSE
    /\ Goto(t, "probe")
    /\ UNCHANGED <<state, opened_at, half_open_probes, probe_claimed_at, window>>

\* Lost CAS race
Reload(t) ==
    /\ At(t, "reload")
    /\ Loads(t, CASE state = "Closed"   -> "granted"
                 [] state = "Open"     -> "idle"
                 [] state = "HalfOpen" -> "probe")
    /\ UNCHANGED shared

----------------------------------------------------------------------------
\* try_half_open_probe

ReadClock(t) ==
    /\ At(t, "probe")
    /\ Goto(t, "claim")
    /\ UNCHANGED shared

\* fetch_add(1)
Claim(t) ==
    /\ At(t, "claim")
    /\ half_open_probes' = (half_open_probes + 1) % Words
    /\ LET admitted == half_open_probes < Probes
           q == IF admitted THEN "stamp" ELSE "release" IN
       /\ Moves(t, q) /\ Keeps(t, q)
       /\ claims' = IF admitted /\ t \notin stale THEN claims + 1 ELSE claims
    /\ raced' = (raced \/ t \in stale)
    /\ UNCHANGED <<state, opened_at, probe_claimed_at, is_open_fast, window, torn, admitted_at>>

Stamp(t) ==
    /\ At(t, "stamp")
    /\ probe_claimed_at' = now[t]
    /\ Admits(t)
    /\ UNCHANGED <<state, opened_at, half_open_probes, is_open_fast, window>>

MutRelease(t) ==
    /\ At(t, "release")
    /\ half_open_probes' = half_open_probes - 1
    /\ Moves(t, "lease") /\ Keeps(t, "lease")
    /\ raced' = (raced \/ t \in stale)
    /\ UNCHANGED <<state, opened_at, probe_claimed_at, is_open_fast, window, torn, claims, admitted_at>>
\* fetch_sub(1), which wraps
Release(t) ==
    /\ At(t, "release")
    /\ half_open_probes' = (half_open_probes - 1) % Words
    /\ Moves(t, "lease") /\ Keeps(t, "lease")
    /\ raced' = (raced \/ t \in stale)
    /\ UNCHANGED <<state, opened_at, probe_claimed_at, is_open_fast, window, torn, claims, admitted_at>>

LoadClaimed(t) ==
    /\ At(t, "lease")
    /\ pc' = [pc EXCEPT ![t] = "takeover"]
    /\ seen' = [seen EXCEPT ![t] = probe_claimed_at]
    /\ UNCHANGED <<shared, now, lost, history>>

MutReclaims(t) == seen[t] - now[t] >= OpenDuration
MutNeverReclaims(t) == FALSE
\* The lease has expired and compare_exchange(claimed, now) succeeds.
Reclaims(t) == seen[t] - now[t] >= OpenDuration /\ probe_claimed_at = seen[t]

Takeover(t) ==
    /\ At(t, "takeover")
    /\ IF Reclaims(t)
       THEN probe_claimed_at' = now[t] /\ Admits(t)
       ELSE probe_claimed_at' = probe_claimed_at /\ Goto(t, "idle")
    /\ UNCHANGED <<state, opened_at, half_open_probes, is_open_fast, window>>

----------------------------------------------------------------------------
\* record()

\* The load of the state decides what the outcome does.
Record(t, is_failure) ==
    /\ At(t, "granted")
    /\ Loads(t, CASE state = "Closed"   -> IF is_failure THEN "count" ELSE "count_ok"
                  [] state = "Open"     -> IF is_failure THEN "late" ELSE "late_ok"
                  [] state = "HalfOpen" -> IF is_failure THEN "trip" ELSE "close")
    /\ UNCHANGED shared

\* The request's future is dropped before it records.
Forget(t) ==
    /\ At(t, "granted")
    /\ lost < MaxLost
    /\ lost' = lost + 1
    /\ pc' = [pc EXCEPT ![t] = "idle"]
    /\ UNCHANGED <<shared, seen, now, history>>

\* SlidingWindow::push at the cap drops the oldest sample.
Pushed(w, is_failure) ==
    Append(IF Len(w) >= MaxWindow THEN Tail(w) ELSE w, is_failure)

\* SlidingWindow::evict: some of the oldest samples have expired, at most n.
Evicted(w, n) == {SubSeq(w, k + 1, Len(w)) : k \in 0..n}

Failures(w) == Cardinality({k \in 1..Len(w) : w[k]})

\* error_rate() >= error_rate_threshold over at least min_samples samples
ShouldTrip(w) == Len(w) >= MinSamples /\ 100 * Failures(w) >= RatePercent * Len(w)

\* The sample pushed last never expires in the same call.
Sampled(is_failure) ==
    LET w == Pushed(window, is_failure) IN Evicted(w, Len(w) - 1)

Count(t, is_failure) ==
    /\ At(t, IF is_failure THEN "count" ELSE "count_ok")
    /\ \E w \in Sampled(is_failure) :
          /\ window' = w
          /\ Goto(t, IF ShouldTrip(w) THEN "trip" ELSE "idle")
    /\ UNCHANGED <<state, opened_at, half_open_probes, probe_claimed_at, is_open_fast>>

Late(t, is_failure) ==
    /\ At(t, IF is_failure THEN "late" ELSE "late_ok")
    /\ window' \in Sampled(is_failure)
    /\ Goto(t, "idle")
    /\ UNCHANGED <<state, opened_at, half_open_probes, probe_claimed_at, is_open_fast>>

\* error_rate() evicts too.
ErrorRate ==
    /\ window' \in Evicted(window, Len(window)) \ {window}
    /\ UNCHANGED <<state, opened_at, half_open_probes, probe_claimed_at, is_open_fast,
                   locals, history>>

\* trip(): four stores, the clock read after the first
TripState(t) ==
    /\ At(t, "trip")
    /\ state' = "Open"
    /\ Stores(t, "trip_clock")
    /\ UNCHANGED <<opened_at, half_open_probes, probe_claimed_at, is_open_fast, window, raced>>

TripClock(t) ==
    /\ At(t, "trip_clock")
    /\ Goto(t, "trip_stamp")
    /\ UNCHANGED shared

TripStamp(t) ==
    /\ At(t, "trip_stamp")
    /\ opened_at' = now[t]
    /\ Goto(t, "trip_probes")
    /\ UNCHANGED <<state, half_open_probes, probe_claimed_at, is_open_fast, window>>

MutTripProbes(t) == At(t, "trip_probes") /\ Goto(t, "trip_mirror") /\ UNCHANGED shared
TripProbes(t) ==
    /\ At(t, "trip_probes")
    /\ Zeroes(t, "trip_mirror")
    /\ UNCHANGED <<state, opened_at, probe_claimed_at, is_open_fast, window>>

TripMirror(t) ==
    /\ At(t, "trip_mirror")
    /\ is_open_fast' = TRUE
    /\ Goto(t, "idle")
    /\ UNCHANGED <<state, opened_at, half_open_probes, probe_claimed_at, window>>

\* close(): three stores around the clearing of the window
CloseState(t) ==
    /\ At(t, "close")
    /\ state' = "Closed"
    /\ Stores(t, "close_window")
    /\ UNCHANGED <<opened_at, half_open_probes, probe_claimed_at, is_open_fast, window, raced>>

CloseWindow(t) ==
    /\ At(t, "close_window")
    /\ window' = <<>>
    /\ Goto(t, "close_probes")
    /\ UNCHANGED <<state, opened_at, half_open_probes, probe_claimed_at, is_open_fast>>

CloseProbes(t) ==
    /\ At(t, "close_probes")
    /\ Zeroes(t, "close_mirror")
    /\ UNCHANGED <<state, opened_at, probe_claimed_at, is_open_fast, window>>

CloseMirror(t) ==
    /\ At(t, "close_mirror")
    /\ is_open_fast' = FALSE
    /\ Goto(t, "idle")
    /\ UNCHANGED <<state, opened_at, half_open_probes, probe_claimed_at, window>>

----------------------------------------------------------------------------
Older(age, cap) == IF age < cap THEN age + 1 ELSE cap

\* The clock advances; no thread sits on a clock reading for ever.
Tick ==
    /\ \A t \in Threads : pc[t] \in Timed => now[t] < MaxDelay
    /\ opened_at' = Older(opened_at, AgeCap)
    /\ probe_claimed_at' = Older(probe_claimed_at, AgeCap)
    /\ seen' = [t \in Threads |-> IF pc[t] \in {"elapsed", "takeover"}
                                  THEN Older(seen[t], AgeCap) ELSE 0]
    /\ now' = [t \in Threads |-> IF pc[t] \in Timed THEN Older(now[t], MaxDelay) ELSE 0]
    /\ admitted_at' = Older(admitted_at, Lease)
    /\ UNCHANGED <<state, half_open_probes, is_open_fast, window, pc, lost,
                   stale, torn, raced, claims>>

\* The rest of a call.
Continue(t) ==
    \/ LoadOpened(t) \/ Shed(t) \/ CasHalfOpen(t) \/ MirrorHalfOpen(t) \/ Reload(t)
    \/ ReadClock(t) \/ Claim(t) \/ Stamp(t) \/ Release(t) \/ LoadClaimed(t) \/ Takeover(t)
    \/ \E is_failure \in BOOLEAN : Count(t, is_failure) \/ Late(t, is_failure)
    \/ TripState(t) \/ TripClock(t) \/ TripStamp(t) \/ TripProbes(t) \/ TripMirror(t)
    \/ CloseState(t) \/ CloseWindow(t) \/ CloseProbes(t) \/ CloseMirror(t)

Completes(t) == \E is_failure \in BOOLEAN : Record(t, is_failure)

Step(t) == Continue(t) \/ Check(t) \/ Completes(t) \/ Forget(t)

Next ==
    \/ \E t \in Threads : Step(t)
    \/ ErrorRate
    \/ Tick

Spec == Init /\ [][Next]_vars

\* Calls run to their end, requests keep coming and, the bounded number of
\* dropped ones apart, are recorded; the clock advances.
FairSpec ==
    /\ Spec
    /\ \A t \in Threads : WF_vars(Continue(t) \/ Check(t) \/ Completes(t))
    /\ SF_vars(Tick)

----------------------------------------------------------------------------
\* Properties

\* "Lock-free mirror of state == Open": however calls interleave, once every
\* transition has reached its mirror store is_open() answers what the authoritative
\* state says, unless the last one began inside another; the next transition that
\* has the breaker to itself repairs the mirror.
MirrorExact ==
    ~torn /\ (\A t \in Threads : pc[t] \notin Moving) => (is_open_fast <=> state = "Open")

\* The thread that half-opens the breaker, when no transition was under way or
\* made since it saw Open, does so a full open_duration after the trip and finds
\* the probe count at zero, as check_open relies on ("trip() zeroes it on entry to
\* Open and nothing increments it while Open"), unless a thread that acted on an
\* outdated state has moved the count since trip() zeroed it.
HalfOpensCleanly ==
    [][\A t \in Threads :
         pc[t] = "elapsed" /\ pc'[t] = "mirror" /\ t \notin stale =>
           opened_at >= OpenDuration /\ (half_open_probes = 0 \/ raced)]_vars

\* "Same as running with an extra probe slot": a half-open period that no outdated
\* thread has touched lets no more probes through the count than it has slots, and
\* one more takes a slot over only a lease after the latest probe was admitted,
\* however late the threads act on what they loaded.  A probe is admitted when its
\* claim is stamped: until then a thread that finds the slots full takes one over
\* on the previous stamp, so that one slot may really run two probes.
OneExtraProbe ==
    [][/\ state' = "HalfOpen" /\ ~raced' => claims' <= Probes
       /\ \A t \in Threads : pc[t] = "takeover" /\ pc'[t] = "granted" =>
             admitted_at >= Lease]_vars

\* A probe whose owner never records does not strand the breaker in HalfOpen, even
\* when racing threads miscounted the probes.
HalfOpenLeaves == state = "HalfOpen" ~> state # "HalfOpen"
==============================================================================
