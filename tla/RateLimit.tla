------------------------------ MODULE RateLimit ------------------------------
(***************************************************************************)
(* The sliding window of RateLimitMiddleware: a bounded dict of buckets,   *)
(* one for each caller, with the times at which requests were let through. *)
(* A verdict is one step, for there is no await before it.  A restart of   *)
(* the process forgets all buckets.                                        *)
(***************************************************************************)
EXTENDS Integers, Sequences, SequencesExt

CONSTANTS
    Callers,       \* values of the Authorization header, addresses without one
    Limit,         \* requests_per_minute
    Window,        \* 60 s in ticks of the clock
    MaxBuckets,    \* _MAX_BUCKETS
    MaxTime,       \* bound of the clock
    MaxAccepted,   \* bound: requests of one caller that are let through
    None

ASSUME LimitAssumption ==
    /\ Limit \in Nat
    /\ Window \in Nat \ {0}
    /\ MaxBuckets \in Nat \ {0}
    /\ MaxTime \in Nat /\ MaxAccepted \in Nat
    /\ None \notin [caller : Callers, at : Nat, admitted : BOOLEAN]

VARIABLES
    now,         \* time.monotonic()
    order,       \* keys of _buckets, oldest first
    bucket,      \* the deque of a caller, empty if it has none
    accepted,    \* all times at which a caller was let through
    forgotten,   \* how many of them were in buckets that are gone
    verdict      \* of the last request

vars == << now, order, bucket, accepted, forgotten, verdict >>

-----------------------------------------------------------------------------
(* dispatch *)

\* Mutant: the cutoff is one tick late.
ExpiredEarly(b, n) ==
    /\ \A i \in 1 .. n : b[i] <= now - Window + 1
    /\ n < Len(b) => b[n + 1] > now - Window + 1

\* Mutant: the window is closed.
ExpiredLate(b, n) ==
    /\ \A i \in 1 .. n : b[i] < now - Window
    /\ n < Len(b) => b[n + 1] >= now - Window

\* The first n times have left the window, and no more.
Expired(b, n) ==
    /\ \A i \in 1 .. n : b[i] <= now - Window
    /\ n < Len(b) => b[n + 1] > now - Window

Kept(b, n) == SubSeq(b, n + 1, Len(b))

\* A caller without times in the window gets a new bucket, if need be in place of
\* the oldest one, however full that is.
Others(c) == IF \E i \in DOMAIN order : order[i] = c
             THEN RemoveAt(order, CHOOSE i \in DOMAIN order : order[i] = c)
             ELSE order

\* Mutant: the capacity is checked one entry too late.
FullLate(c) == Len(Others(c)) > MaxBuckets

Full(c) == Len(Others(c)) >= MaxBuckets
Evicted(c, kept) == IF kept = <<>> /\ Full(c) THEN {Head(Others(c))} \ {c} ELSE {}

Entered(c, kept) ==
    IF kept # <<>> THEN order
    ELSE Append(IF Full(c) THEN Tail(Others(c)) ELSE Others(c), c)

Buckets(c, times, gone) ==
    [d \in Callers |-> IF d = c THEN times ELSE IF d \in gone THEN <<>> ELSE bucket[d]]

Forgotten(gone) ==
    [d \in Callers |-> IF d \in gone THEN Len(accepted[d]) ELSE forgotten[d]]

Admit(c) ==
    /\ Len(accepted[c]) < MaxAccepted
    /\ \E n \in 0 .. Len(bucket[c]) :
          LET kept == Kept(bucket[c], n)
          IN /\ Expired(bucket[c], n)
             /\ Len(kept) < Limit
             /\ order' = Entered(c, kept)
             /\ bucket' = Buckets(c, Append(kept, now), Evicted(c, kept))
             /\ forgotten' = Forgotten(Evicted(c, kept))
    /\ accepted' = [accepted EXCEPT ![c] = Append(@, now)]
    /\ verdict' = [caller |-> c, at |-> now, admitted |-> TRUE]
    /\ UNCHANGED now

\* 429.  A limit of zero leaves an empty bucket behind.
Reject(c) ==
    /\ \E n \in 0 .. Len(bucket[c]) :
          LET kept == Kept(bucket[c], n)
          IN /\ Expired(bucket[c], n)
             /\ Len(kept) >= Limit
             /\ order' = Entered(c, kept)
             /\ bucket' = Buckets(c, kept, Evicted(c, kept))
             /\ forgotten' = Forgotten(Evicted(c, kept))
    /\ verdict' = [caller |-> c, at |-> now, admitted |-> FALSE]
    /\ UNCHANGED << now, accepted >>

\* __init__
Restart ==
    /\ order' = <<>>
    /\ bucket' = [c \in Callers |-> <<>>]
    /\ forgotten' = [c \in Callers |-> Len(accepted[c])]
    /\ UNCHANGED << now, accepted, verdict >>

Tick ==
    /\ now < MaxTime
    /\ now' = now + 1
    /\ UNCHANGED << order, bucket, accepted, forgotten, verdict >>

-----------------------------------------------------------------------------

Init ==
    /\ now = 0
    /\ order = <<>>
    /\ bucket = [c \in Callers |-> <<>>]
    /\ accepted = [c \in Callers |-> <<>>]
    /\ forgotten = [c \in Callers |-> 0]
    /\ verdict = None

Next ==
    \/ \E c \in Callers : Admit(c)
    \/ \E c \in Callers : Reject(c)
    \/ Restart
    \/ Tick

Spec == Init /\ [][Next]_vars

-----------------------------------------------------------------------------
(* Type invariant *)

\* The dict never grows beyond _MAX_BUCKETS and has exactly the callers with times,
\* each once: no caller is limited by times that no entry would ever free.
BucketsBounded ==
    /\ Len(order) <= MaxBuckets
    /\ \A i, j \in DOMAIN order : order[i] = order[j] => i = j
    /\ \A c \in Callers : bucket[c] # <<>> => \E i \in DOMAIN order : order[i] = c
    /\ Limit > 0 => \A i \in DOMAIN order : bucket[order[i]] # <<>>

Verdict == [caller : Callers, at : Nat, admitted : BOOLEAN]

TypeOK ==
    /\ now \in Nat
    /\ order \in Seq(Callers)
    /\ bucket \in [Callers -> Seq(Nat)]
    /\ accepted \in [Callers -> Seq(Nat)]
    /\ forgotten \in [Callers -> Nat]
    /\ verdict \in Verdict \cup {None}
    /\ BucketsBounded

-----------------------------------------------------------------------------
(* Safety *)

\* No Window holds more than Limit requests that were let through, but for what is
\* forgotten with a bucket; the window is half open: the request after Limit others
\* is let through one Window after the first of them at the earliest.
WindowRespected ==
    \A c \in Callers : \A i, j \in DOMAIN accepted[c] :
        i > forgotten[c] /\ j - i >= Limit => accepted[c][j] - accepted[c][i] >= Window

\* Whoever is rejected was let through Limit times within the last Window, however
\* often his bucket was trimmed, dropped and evicted before.
RejectedAtLimit ==
    verdict # None /\ Limit > 0 =>
        \/ verdict.admitted
        \/ LET times == accepted[verdict.caller]
           IN /\ Len(times) >= Limit
              /\ times[Len(times) - Limit + 1] > verdict.at - Window
=============================================================================
