--------------------------- MODULE RateLimit_proofs ---------------------------
(***************************************************************************)
(* Proofs about RateLimit, for any number of callers, any limit and any    *)
(* bound of the dict.  A bucket is what is left of the times at which its  *)
(* caller was let through: a suffix of them, and what is before it has     *)
(* left the window or is forgotten.                                        *)
(***************************************************************************)
EXTENDS RateLimit, SequenceTheorems, TLAPS

\* b is what a bucket holds of all times a, of which f are forgotten, at time t.
Ledger(t, b, a, f) ==
    /\ f + Len(b) <= Len(a)
    /\ \A i \in 1 .. Len(b) : b[i] = a[Len(a) - Len(b) + i]
    /\ \A i \in 1 .. Len(a) - Len(b) : i > f => a[i] <= t - Window
    /\ \A i \in 1 .. Len(a) : a[i] <= t
    /\ \A i, j \in 1 .. Len(a) : i <= j => a[i] <= a[j]

Spaced(a, f) ==
    \A i, j \in 1 .. Len(a) : i > f /\ j - i >= Limit => a[j] - a[i] >= Window

Ledgers == \A c \in Callers : Ledger(now, bucket[c], accepted[c], forgotten[c])
AllSpaced == \A c \in Callers : Spaced(accepted[c], forgotten[c])

Typed ==
    /\ now \in Nat
    /\ order \in Seq(Callers)
    /\ bucket \in [Callers -> Seq(Nat)]
    /\ accepted \in [Callers -> Seq(Nat)]
    /\ forgotten \in [Callers -> Nat]
    /\ verdict \in Verdict \cup {None}

Inv == Typed /\ BucketsBounded /\ Ledgers /\ AllSpaced /\ RejectedAtLimit

-----------------------------------------------------------------------------
(* Trimming and appending. *)

\* What is left of a bucket after n times were dropped.
LEMMA KeptTimes ==
    ASSUME NEW b \in Seq(Nat), NEW n \in 0 .. Len(b)
    PROVE  /\ Kept(b, n) \in Seq(Nat)
           /\ Len(Kept(b, n)) = Len(b) - n
           /\ \A i \in 1 .. Len(b) - n : Kept(b, n)[i] = b[n + i]
  <1>1. n + 1 \in 1 .. Len(b) + 1 /\ Len(b) \in n .. Len(b)
    OBVIOUS
  <1> QED
    BY <1>1, SubSeqProperties DEF Kept

\* A trimmed bucket still holds what is left of its caller's times, and if it
\* is not empty it begins within the window.
LEMMA Trimmed ==
    ASSUME NEW t \in Nat, t = now, NEW b \in Seq(Nat), NEW a \in Seq(Nat), NEW f \in Nat,
           Ledger(t, b, a, f), NEW n \in 0 .. Len(b), Expired(b, n)
    PROVE  /\ Ledger(t, Kept(b, n), a, f)
           /\ \A i \in 1 .. Len(Kept(b, n)) : Kept(b, n)[i] > t - Window
  <1> DEFINE k == Kept(b, n)
  <1>1. k \in Seq(Nat) /\ Len(k) = Len(b) - n /\ \A i \in 1 .. Len(b) - n : k[i] = b[n + i]
    BY KeptTimes
  <1>2. Len(a) \in Nat /\ Len(b) \in Nat /\ \A i \in 1 .. Len(a) : a[i] \in Nat
    BY ElementOfSeq, LenProperties
  <1>3. \A i \in 1 .. Len(b) : b[i] = a[Len(a) - Len(b) + i]
    BY DEF Ledger
  <1> HIDE DEF k
  <1>4. \A i \in 1 .. Len(k) : k[i] = a[Len(a) - Len(k) + i]
    <2> TAKE i \in 1 .. Len(k)
    <2>0. Len(k) = Len(b) - n /\ Len(a) \in Nat /\ Len(b) \in Nat /\ n \in Nat /\ i \in Nat
      BY <1>1, <1>2
    <2>1. n + i \in 1 .. Len(b) /\ Len(a) - Len(b) + (n + i) = Len(a) - Len(k) + i
      BY <2>0
    <2> QED
      BY <1>1, <1>2, <1>3, <2>1
  <1>5. \A i \in 1 .. Len(a) - Len(k) : i > f => a[i] <= t - Window
    <2> SUFFICES ASSUME NEW i \in 1 .. Len(a) - Len(k), i > f
                 PROVE  a[i] <= t - Window
      OBVIOUS
    <2>1. CASE i <= Len(a) - Len(b)
      BY <2>1, <1>1, <1>2 DEF Ledger
    <2>2. CASE i > Len(a) - Len(b)
      <3>1. i - (Len(a) - Len(b)) \in 1 .. n
        BY <2>2, <1>1, <1>2
      <3>2. b[i - (Len(a) - Len(b))] <= t - Window
        BY <3>1 DEF Expired
      <3>3. b[i - (Len(a) - Len(b))] = a[Len(a) - Len(b) + (i - (Len(a) - Len(b)))]
        BY <3>1, <1>2, <1>3
      <3> QED
        BY <3>1, <3>2, <3>3, <1>2
    <2> QED
      BY <2>1, <2>2, <1>1, <1>2
  <1>6. Ledger(t, k, a, f)
    BY <1>1, <1>2, <1>4, <1>5 DEF Ledger
  <1>7. \A i \in 1 .. Len(k) : k[i] > t - Window
    <2> TAKE i \in 1 .. Len(k)
    <2>1. b[n + 1] > t - Window
      BY <1>1, <1>2 DEF Expired
    <2>2. k[1] = b[n + 1] /\ 1 \in 1 .. Len(k)
      BY <1>1, <1>2
    <2>3. k[1] <= k[i]
      <3>1. k[1] = a[Len(a) - Len(k) + 1] /\ k[i] = a[Len(a) - Len(k) + i]
        BY <1>4, <2>2
      <3>2. /\ Len(a) - Len(k) + 1 \in 1 .. Len(a) /\ Len(a) - Len(k) + i \in 1 .. Len(a)
            /\ Len(a) - Len(k) + 1 <= Len(a) - Len(k) + i
        BY <1>1, <1>2, <1>6 DEF Ledger
      <3> QED
        BY <3>1, <3>2 DEF Ledger
    <2>4. k[1] \in Nat /\ k[i] \in Nat
      BY <1>1, <2>2, ElementOfSeq
    <2>5. t - Window \in Int
      BY LimitAssumption
    <2> QED
      BY <2>1, <2>2, <2>3, <2>4, <2>5
  <1> QED
    BY <1>6, <1>7 DEF k

\* Letting a request through keeps the ledger, and the spacing if there is room.
LEMMA Appended ==
    ASSUME NEW t \in Nat, NEW k \in Seq(Nat), NEW a \in Seq(Nat), NEW f \in Nat,
           Ledger(t, k, a, f)
    PROVE  /\ Ledger(t, Append(k, t), Append(a, t), f)
           /\ Len(k) < Limit /\ Spaced(a, f) => Spaced(Append(a, t), f)
  <1> DEFINE b == Append(k, t)
             c == Append(a, t)
  <1>1. /\ Len(b) = Len(k) + 1 /\ b[Len(k) + 1] = t
        /\ \A i \in 1 .. Len(k) : b[i] = k[i]
    BY AppendProperties
  <1>2. /\ Len(c) = Len(a) + 1 /\ c[Len(a) + 1] = t
        /\ \A i \in 1 .. Len(a) : c[i] = a[i]
    BY AppendProperties
  <1>3. Len(a) \in Nat /\ Len(k) \in Nat /\ \A i \in 1 .. Len(a) : a[i] \in Nat
    BY ElementOfSeq, LenProperties
  <1> HIDE DEF b, c
  <1>4. Ledger(t, b, c, f)
    <2>1. f + Len(b) <= Len(c)
      BY <1>1, <1>2, <1>3 DEF Ledger
    <2>2. \A i \in 1 .. Len(b) : b[i] = c[Len(c) - Len(b) + i]
      <3> TAKE i \in 1 .. Len(b)
      <3>1. CASE i = Len(k) + 1
        BY <3>1, <1>1, <1>2, <1>3
      <3>2. CASE i \in 1 .. Len(k)
        <4>1. Len(a) - Len(k) + i \in 1 .. Len(a) /\ Len(c) - Len(b) + i = Len(a) - Len(k) + i
          BY <3>2, <1>1, <1>2, <1>3 DEF Ledger
        <4>2. k[i] = a[Len(a) - Len(k) + i]
          BY <3>2 DEF Ledger
        <4> QED
          BY <4>1, <4>2, <3>2, <1>1, <1>2
      <3> QED
        BY <3>1, <3>2, <1>1, <1>3
    <2>3. \A i \in 1 .. Len(c) - Len(b) : i > f => c[i] <= t - Window
      <3> TAKE i \in 1 .. Len(c) - Len(b)
      <3>1. i \in 1 .. Len(a) - Len(k) /\ i \in 1 .. Len(a)
        BY <1>1, <1>2, <1>3 DEF Ledger
      <3> QED
        BY <3>1, <1>2 DEF Ledger
    <2>4. \A i \in 1 .. Len(c) : c[i] <= t
      <3> TAKE i \in 1 .. Len(c)
      <3>1. CASE i = Len(a) + 1
        BY <3>1, <1>2
      <3>2. CASE i \in 1 .. Len(a)
        <4>1. a[i] <= t
          BY <3>2 DEF Ledger
        <4> QED
          BY <4>1, <3>2, <1>2
      <3>3. i = Len(a) + 1 \/ i \in 1 .. Len(a)
        BY <1>2, <1>3
      <3> QED
        BY <3>1, <3>2, <3>3
    <2>5. \A i, j \in 1 .. Len(c) : i <= j => c[i] <= c[j]
      <3> TAKE i, j \in 1 .. Len(c)
      <3> HAVE i <= j
      <3>1. CASE j = Len(a) + 1
        BY <3>1, <2>4, <1>2
      <3>2. CASE j # Len(a) + 1
        <4>1. i \in 1 .. Len(a) /\ j \in 1 .. Len(a)
          BY <3>2, <1>2, <1>3
        <4>2. a[i] <= a[j]
          BY <4>1 DEF Ledger
        <4> QED
          BY <4>1, <4>2, <1>2
      <3> QED
        BY <3>1, <3>2
    <2> QED
      BY <2>1, <2>2, <2>3, <2>4, <2>5 DEF Ledger
  <1>5. ASSUME Len(k) < Limit, Spaced(a, f)
        PROVE  Spaced(c, f)
    <2> SUFFICES ASSUME NEW i \in 1 .. Len(c), NEW j \in 1 .. Len(c), i > f, j - i >= Limit
                 PROVE  c[j] - c[i] >= Window
      BY DEF Spaced
    <2>1. CASE j <= Len(a)
      <3>1. i \in 1 .. Len(a) /\ j \in 1 .. Len(a)
        BY <2>1, <1>2, <1>3, LimitAssumption
      <3>2. a[j] - a[i] >= Window
        BY <3>1, <1>5 DEF Spaced
      <3> QED
        BY <3>1, <3>2, <1>2
    <2>2. CASE j = Len(a) + 1
      <3>1. i \in 1 .. Len(a) - Len(k) /\ i \in 1 .. Len(a)
        BY <2>2, <1>2, <1>3, <1>5, LimitAssumption
      <3>2. a[i] <= t - Window
        BY <3>1 DEF Ledger
      <3> QED
        BY <3>1, <3>2, <2>2, <1>2, <1>3, LimitAssumption
    <2> QED
      BY <2>1, <2>2, <1>2, <1>3
  <1> QED
    BY <1>4, <1>5 DEF b, c

-----------------------------------------------------------------------------
(* Verdicts. *)

\* What every verdict leaves of the buckets: trimmed times k of caller c, to which
\* nothing or the time of the request was added, and the evicted ones forgotten.
LEMMA VerdictKeepsLedgers ==
    ASSUME Inv, NEW c \in Callers, NEW n \in 0 .. Len(bucket[c]), Expired(bucket[c], n),
           NEW gone \in SUBSET Callers, c \notin gone,
           now' = now, forgotten' = Forgotten(gone),
           \/ /\ bucket' = Buckets(c, Kept(bucket[c], n), gone)
              /\ accepted' = accepted
           \/ /\ Len(Kept(bucket[c], n)) < Limit
              /\ bucket' = Buckets(c, Append(Kept(bucket[c], n), now), gone)
              /\ accepted' = [accepted EXCEPT ![c] = Append(@, now)]
    PROVE  /\ bucket' \in [Callers -> Seq(Nat)]
           /\ accepted' \in [Callers -> Seq(Nat)]
           /\ forgotten' \in [Callers -> Nat]
           /\ Ledgers' /\ AllSpaced'
  <1> DEFINE k == Kept(bucket[c], n)
  <1>1. /\ now \in Nat
        /\ bucket \in [Callers -> Seq(Nat)] /\ accepted \in [Callers -> Seq(Nat)]
        /\ forgotten \in [Callers -> Nat]
        /\ \A d \in Callers : Ledger(now, bucket[d], accepted[d], forgotten[d])
        /\ \A d \in Callers : Spaced(accepted[d], forgotten[d])
    BY DEF Inv, Typed, Ledgers, AllSpaced
  <1>2. k \in Seq(Nat) /\ Ledger(now, k, accepted[c], forgotten[c])
    BY <1>1, KeptTimes, Trimmed
  <1>3. Append(k, now) \in Seq(Nat) /\ Append(accepted[c], now) \in Seq(Nat)
    BY <1>1, <1>2, AppendProperties
  <1>4. /\ Ledger(now, Append(k, now), Append(accepted[c], now), forgotten[c])
        /\ Len(k) < Limit => Spaced(Append(accepted[c], now), forgotten[c])
    BY <1>1, <1>2, Appended
  <1> HIDE DEF k
  <1>5. /\ bucket' \in [Callers -> Seq(Nat)] /\ accepted' \in [Callers -> Seq(Nat)]
        /\ forgotten' \in [Callers -> Nat]
    <2>1. \A d \in Callers : Len(accepted[d]) \in Nat /\ <<>> \in Seq(Nat)
      BY <1>1, LenProperties
    <2>2. forgotten' \in [Callers -> Nat]
      BY <1>1, <2>1 DEF Forgotten
    <2>3. bucket' \in [Callers -> Seq(Nat)]
      BY <1>1, <1>2, <1>3, <2>1 DEF Buckets, k
    <2>4. accepted' \in [Callers -> Seq(Nat)]
      BY <1>1, <1>3
    <2> QED
      BY <2>2, <2>3, <2>4
  <1>6. ASSUME NEW d \in Callers
        PROVE  /\ Ledger(now, bucket'[d], accepted'[d], forgotten'[d])
               /\ Spaced(accepted'[d], forgotten'[d])
    <2>1. CASE d = c
      <3>1. forgotten'[c] = forgotten[c]
        BY DEF Forgotten
      <3>2. CASE bucket' = Buckets(c, k, gone) /\ accepted' = accepted
        BY <2>1, <3>1, <3>2, <1>1, <1>2 DEF Buckets
      <3>3. CASE /\ Len(k) < Limit
                 /\ bucket' = Buckets(c, Append(k, now), gone)
                 /\ accepted' = [accepted EXCEPT ![c] = Append(@, now)]
        <4>1. bucket'[c] = Append(k, now) /\ accepted'[c] = Append(accepted[c], now)
          BY <3>3, <1>1 DEF Buckets
        <4> QED
          BY <4>1, <2>1, <3>1, <3>3, <1>4
      <3> QED
        BY <3>2, <3>3 DEF k
    <2>2. CASE d # c
      <3>1. accepted'[d] = accepted[d]
        BY <2>2, <1>1
      <3>2. CASE d \notin gone
        <4>1. bucket'[d] = bucket[d] /\ forgotten'[d] = forgotten[d]
          BY <2>2, <3>2 DEF Buckets, Forgotten
        <4> QED
          BY <3>1, <4>1, <1>1
      <3>3. CASE d \in gone
        <4>1. bucket'[d] = <<>> /\ forgotten'[d] = Len(accepted[d])
          BY <2>2, <3>3 DEF Buckets, Forgotten
        <4>2. Len(accepted[d]) \in Nat /\ Len(<<>>) = 0
          BY <1>1, LenProperties, EmptySeq
        <4> QED
          BY <3>1, <4>1, <4>2, <1>1 DEF Ledger, Spaced
      <3> QED
        BY <3>2, <3>3
    <2> QED
      BY <2>1, <2>2
  <1> QED
    BY <1>5, <1>6 DEF Ledgers, AllSpaced

-----------------------------------------------------------------------------
(* The dict. *)

Distinct(o) == \A i, j \in DOMAIN o : o[i] = o[j] => i = j
In(o, d) == \E i \in DOMAIN o : o[i] = d

\* Deleting a key keeps the order of the others.
LEMMA OthersProperties ==
    ASSUME order \in Seq(Callers), Distinct(order), NEW c \in Callers
    PROVE  /\ Others(c) \in Seq(Callers)
           /\ Len(Others(c)) <= Len(order)
           /\ Distinct(Others(c))
           /\ \A d \in Callers : In(Others(c), d) <=> d # c /\ In(order, d)
  <1>0. Len(order) \in Nat /\ DOMAIN order = 1 .. Len(order)
    BY LenProperties
  <1>1. CASE ~ In(order, c)
    <2>1. Others(c) = order
      BY <1>1 DEF Others, In
    <2> QED
      BY <2>1, <1>0, <1>1 DEF In
  <1>2. CASE In(order, c)
    <2> DEFINE p == CHOOSE i \in DOMAIN order : order[i] = c
    <2>1. p \in 1 .. Len(order) /\ order[p] = c
      BY <1>0, <1>2 DEF In
    <2> HIDE DEF p
    <2> DEFINE l == SubSeq(order, 1, p - 1)
               r == SubSeq(order, p + 1, Len(order))
               o == Others(c)
    <2>2. o = l \o r
      BY <1>2 DEF Others, In, RemoveAt, p
    <2>3. l \in Seq(Callers) /\ Len(l) = p - 1 /\ \A i \in 1 .. p - 1 : l[i] = order[i]
      <3>1. \A i \in 1 .. p - 1 : order[i] \in Callers
        BY <1>0, <2>1, ElementOfSeq
      <3> QED
        BY <1>0, <2>1, <3>1, SubSeqProperties
    <2>4. /\ r \in Seq(Callers) /\ Len(r) = Len(order) - p
          /\ \A i \in 1 .. Len(order) - p : r[i] = order[p + i]
      <3>1. \A i \in p + 1 .. Len(order) : order[i] \in Callers
        BY <1>0, <2>1, ElementOfSeq
      <3>2. /\ r \in Seq(Callers)
            /\ Len(r) = IF p + 1 <= Len(order) THEN Len(order) - (p + 1) + 1 ELSE 0
            /\ \A i \in 1 .. Len(order) - (p + 1) + 1 : r[i] = order[p + 1 + i - 1]
        <4>1. p + 1 \in Int /\ Len(order) \in Int
          BY <1>0, <2>1
        <4> QED
          BY <3>1, <4>1, SubSeqProperties
      <3> HIDE DEF r
      <3>3. Len(order) - (p + 1) + 1 = Len(order) - p
        BY <1>0, <2>1
      <3>4. Len(r) = Len(order) - p
        <4>1. CASE p = Len(order)
          <5>1. ~ (p + 1 <= Len(order)) /\ Len(order) - p = 0
            BY <1>0, <4>1
          <5> QED
            BY <5>1, <3>2
        <4>2. CASE p # Len(order)
          <5>1. p + 1 <= Len(order)
            <6>1. Len(order) \in Nat /\ p \in Nat /\ p <= Len(order)
              BY <1>0, <2>1
            <6> QED
              BY <6>1, <4>2
          <5> QED
            BY <5>1, <3>2, <3>3
        <4> QED
          BY <4>1, <4>2
      <3>5. \A i \in 1 .. Len(order) - p : r[i] = order[p + i]
        <4> TAKE i \in 1 .. Len(order) - p
        <4>1. p + 1 + i - 1 = p + i
          BY <2>1
        <4> QED
          BY <3>2, <3>3, <4>1
      <3> QED
        BY <3>2, <3>4, <3>5
    <2> HIDE DEF l, r, o
    <2>5. /\ o \in Seq(Callers) /\ Len(o) = Len(order) - 1
          /\ \A i \in 1 .. Len(order) - 1 : o[i] = IF i < p THEN order[i] ELSE order[i + 1]
      <3>1. /\ o \in Seq(Callers) /\ Len(o) = Len(l) + Len(r)
            /\ \A i \in 1 .. Len(l) + Len(r) : o[i] = IF i <= Len(l) THEN l[i] ELSE r[i - Len(l)]
        BY <2>2, <2>3, <2>4, ConcatProperties
      <3>2. ASSUME NEW i \in 1 .. Len(order) - 1
            PROVE  o[i] = IF i < p THEN order[i] ELSE order[i + 1]
        <4>0. i \in 1 .. Len(l) + Len(r)
          BY <1>0, <2>1, <2>3, <2>4
        <4>2. CASE i < p
          <5>1. i \in 1 .. p - 1 /\ i <= Len(l)
            BY <4>2, <1>0, <2>1, <2>3
          <5> QED
            BY <4>0, <5>1, <3>1, <4>2, <2>3
        <4>3. CASE ~ (i < p)
          <5>1. i - Len(l) \in 1 .. Len(order) - p /\ p + (i - Len(l)) = i + 1 /\ ~ (i <= Len(l))
            BY <4>3, <1>0, <2>1, <2>3
          <5>2. o[i] = r[i - Len(l)]
            BY <4>0, <5>1, <3>1
          <5> QED
            BY <5>1, <5>2, <4>3, <2>4
        <4> QED
          BY <4>2, <4>3
      <3> QED
        BY <3>1, <3>2, <1>0, <2>1, <2>3, <2>4
    <2>6. DOMAIN o = 1 .. Len(order) - 1
      BY <2>5, LenProperties
    <2>7. Distinct(o)
      <3> SUFFICES ASSUME NEW i \in 1 .. Len(order) - 1, NEW j \in 1 .. Len(order) - 1, o[i] = o[j]
                   PROVE  i = j
        BY <2>6 DEF Distinct
      <3>1. \A m, q \in 1 .. Len(order) : order[m] = order[q] => m = q
        BY <1>0 DEF Distinct
      <3> DEFINE At(m) == IF m < p THEN m ELSE m + 1
      <3>2. /\ At(i) \in 1 .. Len(order) /\ At(j) \in 1 .. Len(order)
            /\ (At(i) = At(j) => i = j)
        BY <2>1, <1>0
      <3>3. o[i] = order[At(i)] /\ o[j] = order[At(j)]
        BY <2>5
      <3> HIDE DEF At
      <3> QED
        BY <3>1, <3>2, <3>3
    <2>8. ASSUME NEW d \in Callers
          PROVE  In(o, d) <=> d # c /\ In(order, d)
      <3>1. In(o, d) => d # c /\ In(order, d)
        <4> SUFFICES ASSUME NEW i \in 1 .. Len(order) - 1, o[i] = d
                     PROVE  d # c /\ In(order, d)
          BY <2>6 DEF In
        <4>1. PICK j \in 1 .. Len(order) : j # p /\ order[j] = d
          BY <2>5, <2>1, <1>0
        <4> QED
          BY <4>1, <2>1, <1>0 DEF In, Distinct
      <3>2. d # c /\ In(order, d) => In(o, d)
        <4> SUFFICES ASSUME d # c, NEW j \in 1 .. Len(order), order[j] = d
                     PROVE  \E i \in 1 .. Len(order) - 1 : o[i] = d
          BY <2>6, <1>0 DEF In
        <4>1. CASE j < p
          <5>1. j \in 1 .. Len(order) - 1
            BY <4>1, <2>1, <1>0
          <5> QED
            BY <5>1, <4>1, <2>5
        <4>2. CASE j > p
          <5>1. j - 1 \in 1 .. Len(order) - 1 /\ ~ (j - 1 < p) /\ (j - 1) + 1 = j
            BY <4>2, <2>1, <1>0
          <5> QED
            BY <5>1, <2>5
        <4> QED
          BY <4>1, <4>2, <2>1, <1>0
      <3> QED
        BY <3>1, <3>2
    <2> QED
      BY <2>5, <2>7, <2>8, <1>0 DEF o
  <1> QED
    BY <1>1, <1>2

\* A verdict leaves the dict bounded and with the callers that have times.
LEMMA VerdictKeepsBound ==
    ASSUME order \in Seq(Callers), bucket \in [Callers -> Seq(Nat)], BucketsBounded,
           NEW c \in Callers, NEW n \in 0 .. Len(bucket[c]), NEW times \in Seq(Nat),
           Limit > 0 => times # <<>>,
           Kept(bucket[c], n) # <<>> => times # <<>>,
           order' = Entered(c, Kept(bucket[c], n)),
           bucket' = Buckets(c, times, Evicted(c, Kept(bucket[c], n)))
    PROVE  /\ order' \in Seq(Callers)
           /\ BucketsBounded'
           /\ Evicted(c, Kept(bucket[c], n)) \in SUBSET Callers
           /\ c \notin Evicted(c, Kept(bucket[c], n))
  <1> DEFINE k == Kept(bucket[c], n)
             o == Others(c)
             gone == Evicted(c, k)
  <1>0. /\ Len(order) \in Nat /\ DOMAIN order = 1 .. Len(order) /\ Len(order) <= MaxBuckets
        /\ Distinct(order)
        /\ \A d \in Callers : bucket[d] # <<>> => In(order, d)
        /\ \A d \in Callers : In(order, d) /\ Limit > 0 => bucket[d] # <<>>
    BY LenProperties DEF BucketsBounded, Distinct, In
  <1>1. /\ o \in Seq(Callers) /\ Len(o) <= Len(order) /\ Distinct(o)
        /\ \A d \in Callers : In(o, d) <=> d # c /\ In(order, d)
    BY <1>0, OthersProperties
  <1>2. Len(o) \in Nat /\ DOMAIN o = 1 .. Len(o) /\ MaxBuckets \in Nat /\ MaxBuckets > 0
    BY <1>1, LenProperties, LimitAssumption
  <1>3. gone = IF k = <<>> /\ Len(o) >= MaxBuckets THEN {Head(o)} \ {c} ELSE {}
    BY DEF Evicted, Full
  <1>4. order' = IF k # <<>> THEN order
                 ELSE Append(IF Len(o) >= MaxBuckets THEN Tail(o) ELSE o, c)
    BY DEF Entered, Full
  <1>5. \A d \in Callers : bucket'[d] = IF d = c THEN times ELSE IF d \in gone THEN <<>> ELSE bucket[d]
    BY DEF Buckets
  <1>6. k # <<>> => bucket[c] # <<>>
    <2>1. Len(bucket[c]) \in Nat /\ (bucket[c] = <<>> => Len(bucket[c]) = 0)
      BY LenProperties, EmptySeq
    <2>2. Len(k) = Len(bucket[c]) - n /\ k \in Seq(Nat)
      BY KeptTimes
    <2> QED
      BY <2>1, <2>2, EmptySeq
  <1> HIDE DEF k, o, gone
  <1> SUFFICES /\ order' \in Seq(Callers) /\ Len(order') <= MaxBuckets /\ Distinct(order')
               /\ \A d \in Callers : bucket'[d] # <<>> => In(order', d)
               /\ \A d \in Callers : In(order', d) /\ Limit > 0 => bucket'[d] # <<>>
               /\ gone \in SUBSET Callers /\ c \notin gone
    <2>1. order' \in Seq(Callers) => \A i \in DOMAIN order' : order'[i] \in Callers
      BY LenProperties, ElementOfSeq
    <2> QED
      BY <2>1 DEF BucketsBounded, Distinct, In, gone, k
  <1>7. CASE k # <<>>
    <2>1. gone = {} /\ order' = order
      BY <1>3, <1>4, <1>7
    <2> QED
      BY <2>1, <1>0, <1>5, <1>6, <1>7 DEF k
  <1>8. CASE k = <<>> /\ Len(o) < MaxBuckets
    <2>1. gone = {} /\ order' = Append(o, c)
      BY <1>3, <1>4, <1>8, <1>2
    <2>2. /\ order' \in Seq(Callers) /\ Len(order') = Len(o) + 1
          /\ \A i \in 1 .. Len(o) : order'[i] = o[i]
          /\ order'[Len(o) + 1] = c
      BY <2>1, <1>1, AppendProperties
    <2>3. DOMAIN order' = 1 .. Len(o) + 1
      BY <2>2, LenProperties
    <2>4. \A d \in Callers : In(order', d) <=> d = c \/ In(o, d)
      <3>1. \A i \in 1 .. Len(o) + 1 : i \in 1 .. Len(o) \/ i = Len(o) + 1
        BY <1>2
      <3>2. Len(o) + 1 \in 1 .. Len(o) + 1 /\ \A i \in 1 .. Len(o) : i \in 1 .. Len(o) + 1
        BY <1>2
      <3> QED
        BY <3>1, <3>2, <2>2, <2>3, <1>2 DEF In
    <2>5. Distinct(order')
      <3>1. \A i \in 1 .. Len(o) : o[i] # c
        BY <1>1, <1>2 DEF In
      <3>2. \A i, j \in 1 .. Len(o) : o[i] = o[j] => i = j
        BY <1>1, <1>2 DEF Distinct
      <3>3. \A i \in 1 .. Len(o) + 1 : i \in 1 .. Len(o) \/ i = Len(o) + 1
        BY <1>2
      <3>4. \A i, j \in 1 .. Len(o) + 1 : order'[i] = order'[j] => i = j
        BY <3>1, <3>2, <3>3, <2>2
      <3> QED
        BY <3>4, <2>3 DEF Distinct
    <2> QED
      BY <2>1, <2>2, <2>4, <2>5, <1>0, <1>1, <1>2, <1>5, <1>8
  <1>9. CASE k = <<>> /\ Len(o) >= MaxBuckets
    <2>0. o # <<>>
      BY <1>9, <1>2, EmptySeq
    <2>1. /\ Head(o) \in Callers /\ Head(o) = o[1] /\ Tail(o) \in Seq(Callers)
          /\ Len(Tail(o)) = Len(o) - 1 /\ \A i \in 1 .. Len(o) - 1 : Tail(o)[i] = o[i + 1]
      BY <2>0, <1>1, HeadTailProperties
    <2>2. gone = {Head(o)} \ {c} /\ order' = Append(Tail(o), c)
      BY <1>3, <1>4, <1>9
    <2>3. /\ order' \in Seq(Callers) /\ Len(order') = Len(o)
          /\ \A i \in 1 .. Len(o) - 1 : order'[i] = o[i + 1]
          /\ order'[Len(o)] = c
      <3>1. /\ order' \in Seq(Callers) /\ Len(order') = Len(Tail(o)) + 1
            /\ \A i \in 1 .. Len(Tail(o)) : order'[i] = Tail(o)[i]
            /\ order'[Len(Tail(o)) + 1] = c
        BY <2>1, <2>2, AppendProperties
      <3> QED
        BY <3>1, <2>1, <1>2
    <2>4. DOMAIN order' = 1 .. Len(o)
      BY <2>3, LenProperties
    <2>5. \A d \in Callers : In(order', d) => d = c \/ (In(o, d) /\ d # Head(o))
      <3> SUFFICES ASSUME NEW i \in 1 .. Len(o), order'[i] # c
                   PROVE  In(o, order'[i]) /\ order'[i] # Head(o)
        BY <2>4 DEF In
      <3>1. i + 1 \in 1 .. Len(o) /\ 1 \in 1 .. Len(o) /\ order'[i] = o[i + 1] /\ i + 1 # 1
        BY <2>3, <1>2
      <3>2. i + 1 \in DOMAIN o /\ 1 \in DOMAIN o
        BY <3>1, <1>2
      <3>3. In(o, order'[i])
        BY <3>1, <3>2 DEF In
      <3>4. o[i + 1] # o[1]
        BY <3>1, <3>2, <1>1 DEF Distinct
      <3> QED
        BY <3>1, <3>3, <3>4, <2>1
    <2>6. \A d \in Callers : d = c \/ (In(o, d) /\ d # Head(o)) => In(order', d)
      <3>1. In(order', c)
        <4>1. Len(o) \in 1 .. Len(o)
          BY <1>9, <1>2
        <4> QED
          BY <4>1, <2>3, <2>4 DEF In
      <3>2. ASSUME NEW j \in 1 .. Len(o), o[j] # Head(o)
            PROVE  In(order', o[j])
        <4>1. j # 1 /\ j - 1 \in 1 .. Len(o) - 1 /\ (j - 1) + 1 = j /\ j - 1 \in 1 .. Len(o)
          BY <3>2, <2>1, <1>2
        <4>2. order'[j - 1] = o[j]
          BY <4>1, <2>3
        <4> QED
          BY <4>1, <4>2, <2>4 DEF In
      <3> QED
        BY <3>1, <3>2, <1>2 DEF In
    <2>7. Distinct(order')
      <3>1. \A i \in 1 .. Len(o) : o[i] # c
        BY <1>1, <1>2 DEF In
      <3>2. ASSUME NEW i \in 1 .. Len(o), NEW j \in 1 .. Len(o), order'[i] = order'[j]
            PROVE  i = j
        <4>1. CASE i = Len(o) \/ j = Len(o)
          <5>1. ASSUME NEW m \in 1 .. Len(o), m # Len(o)
                PROVE  order'[m] # c
            <6>0. Len(o) \in Nat
              BY <1>2
            <6>1. m \in 1 .. Len(o) - 1 /\ m + 1 \in 1 .. Len(o)
              BY <5>1, <6>0
            <6> QED
              BY <6>1, <2>3, <3>1
          <5> QED
            BY <4>1, <3>2, <5>1, <2>3
        <4>2. CASE i # Len(o) /\ j # Len(o)
          <5>1. o[i + 1] = o[j + 1] /\ i + 1 \in 1 .. Len(o) /\ j + 1 \in 1 .. Len(o)
            BY <4>2, <3>2, <2>3, <1>2
          <5>2. i + 1 = j + 1
            BY <5>1, <1>1, <1>2 DEF Distinct
          <5> QED
            BY <5>2, <1>2
        <4> QED
          BY <4>1, <4>2
      <3> QED
        BY <3>2, <2>4 DEF Distinct
    <2> QED
      <3>1. Len(order') <= MaxBuckets
        BY <2>3, <1>0, <1>1, <1>2
      <3>2. gone \in SUBSET Callers /\ c \notin gone
        BY <2>1, <2>2
      <3>3. \A d \in Callers : bucket'[d] # <<>> => In(order', d)
        BY <2>2, <2>6, <1>0, <1>1, <1>5
      <3>4. \A d \in Callers : In(order', d) /\ Limit > 0 => bucket'[d] # <<>>
        BY <2>2, <2>5, <1>0, <1>1, <1>5
      <3> QED
        BY <3>1, <3>2, <3>3, <3>4, <2>3, <2>7
  <1> QED
    BY <1>7, <1>8, <1>9, <1>2

-----------------------------------------------------------------------------
(* Every step. *)

LEMMA InitInv == Init => Inv
  <1> SUFFICES ASSUME Init
               PROVE  Inv
    OBVIOUS
  <1>1. <<>> \in Seq(Nat) /\ <<>> \in Seq(Callers) /\ Len(<<>>) = 0 /\ DOMAIN <<>> = {}
    BY EmptySeq
  <1>2. Typed
    BY <1>1 DEF Init, Typed
  <1>3. BucketsBounded
    BY <1>1, LimitAssumption DEF Init, BucketsBounded
  <1>4. Ledgers /\ AllSpaced
    BY <1>1 DEF Init, Ledgers, AllSpaced, Ledger, Spaced
  <1>5. RejectedAtLimit
    BY DEF Init, RejectedAtLimit
  <1> QED
    BY <1>2, <1>3, <1>4, <1>5 DEF Inv

LEMMA AdmitKeeps ==
    ASSUME Inv, NEW c \in Callers, Admit(c)
    PROVE  Inv'
  <1>1. PICK n \in 0 .. Len(bucket[c]) :
           /\ Expired(bucket[c], n)
           /\ Len(Kept(bucket[c], n)) < Limit
           /\ order' = Entered(c, Kept(bucket[c], n))
           /\ bucket' = Buckets(c, Append(Kept(bucket[c], n), now), Evicted(c, Kept(bucket[c], n)))
           /\ forgotten' = Forgotten(Evicted(c, Kept(bucket[c], n)))
    BY DEF Admit
  <1>2. /\ accepted' = [accepted EXCEPT ![c] = Append(@, now)]
        /\ verdict' = [caller |-> c, at |-> now, admitted |-> TRUE]
        /\ now' = now
    BY DEF Admit
  <1>3. /\ now \in Nat /\ order \in Seq(Callers) /\ bucket \in [Callers -> Seq(Nat)]
        /\ BucketsBounded
    BY DEF Inv, Typed
  <1>4. bucket[c] \in Seq(Nat)
    BY <1>3
  <1>5. Append(Kept(bucket[c], n), now) \in Seq(Nat) /\ Append(Kept(bucket[c], n), now) # <<>>
    BY <1>3, <1>4, KeptTimes, AppendProperties
  <1>6. /\ order' \in Seq(Callers) /\ BucketsBounded'
        /\ Evicted(c, Kept(bucket[c], n)) \in SUBSET Callers
        /\ c \notin Evicted(c, Kept(bucket[c], n))
    BY <1>1, <1>3, <1>5, VerdictKeepsBound
  <1>7. /\ bucket' \in [Callers -> Seq(Nat)] /\ accepted' \in [Callers -> Seq(Nat)]
        /\ forgotten' \in [Callers -> Nat] /\ Ledgers' /\ AllSpaced'
    BY <1>1, <1>2, <1>6, VerdictKeepsLedgers
  <1>8. verdict' \in Verdict /\ verdict'.admitted
    BY <1>2, <1>3 DEF Verdict
  <1>9. RejectedAtLimit'
    BY <1>8 DEF RejectedAtLimit
  <1> QED
    BY <1>2, <1>3, <1>6, <1>7, <1>8, <1>9 DEF Inv, Typed

LEMMA RejectKeeps ==
    ASSUME Inv, NEW c \in Callers, Reject(c)
    PROVE  Inv'
  <1>1. PICK n \in 0 .. Len(bucket[c]) :
           /\ Expired(bucket[c], n)
           /\ Len(Kept(bucket[c], n)) >= Limit
           /\ order' = Entered(c, Kept(bucket[c], n))
           /\ bucket' = Buckets(c, Kept(bucket[c], n), Evicted(c, Kept(bucket[c], n)))
           /\ forgotten' = Forgotten(Evicted(c, Kept(bucket[c], n)))
    BY DEF Reject
  <1>2. /\ accepted' = accepted /\ now' = now
        /\ verdict' = [caller |-> c, at |-> now, admitted |-> FALSE]
    BY DEF Reject
  <1>3. /\ now \in Nat /\ order \in Seq(Callers) /\ bucket \in [Callers -> Seq(Nat)]
        /\ accepted \in [Callers -> Seq(Nat)] /\ forgotten \in [Callers -> Nat]
        /\ BucketsBounded /\ Ledger(now, bucket[c], accepted[c], forgotten[c])
    BY DEF Inv, Typed, Ledgers
  <1>4. bucket[c] \in Seq(Nat) /\ accepted[c] \in Seq(Nat) /\ forgotten[c] \in Nat
    BY <1>3
  <1> DEFINE k == Kept(bucket[c], n)
             a == accepted[c]
  <1>5. /\ k \in Seq(Nat) /\ Ledger(now, k, a, forgotten[c])
        /\ \A i \in 1 .. Len(k) : k[i] > now - Window
    BY <1>1, <1>3, <1>4, KeptTimes, Trimmed
  <1>6. Len(k) \in Nat /\ Len(a) \in Nat /\ Limit \in Nat /\ Len(k) >= Limit
    BY <1>1, <1>4, <1>5, LenProperties, LimitAssumption
  <1>7. Limit > 0 => k # <<>>
    BY <1>6, EmptySeq
  <1>8. /\ order' \in Seq(Callers) /\ BucketsBounded'
        /\ Evicted(c, k) \in SUBSET Callers /\ c \notin Evicted(c, k)
    BY <1>1, <1>3, <1>5, <1>7, VerdictKeepsBound
  <1>9. /\ bucket' \in [Callers -> Seq(Nat)] /\ accepted' \in [Callers -> Seq(Nat)]
        /\ forgotten' \in [Callers -> Nat] /\ Ledgers' /\ AllSpaced'
    BY <1>1, <1>2, <1>8, VerdictKeepsLedgers
  <1> HIDE DEF k, a
  <1>10. Limit > 0 => Len(a) >= Limit /\ a[Len(a) - Limit + 1] > now - Window
    <2> SUFFICES ASSUME Limit > 0
                 PROVE  Len(a) >= Limit /\ a[Len(a) - Limit + 1] > now - Window
      OBVIOUS
    <2>1. /\ Len(k) - Limit + 1 \in 1 .. Len(k)
          /\ Len(a) - Len(k) + (Len(k) - Limit + 1) = Len(a) - Limit + 1
      BY <1>6
    <2>2. a[Len(a) - Limit + 1] = k[Len(k) - Limit + 1]
      BY <1>5, <2>1 DEF Ledger
    <2>3. Len(a) >= Limit
      BY <1>3, <1>4, <1>5, <1>6 DEF Ledger
    <2> QED
      BY <1>5, <2>1, <2>2, <2>3
  <1>11. RejectedAtLimit'
    BY <1>2, <1>10 DEF RejectedAtLimit, a
  <1>12. verdict' \in Verdict
    BY <1>2, <1>3 DEF Verdict
  <1> QED
    BY <1>2, <1>3, <1>8, <1>9, <1>11, <1>12 DEF Inv, Typed

LEMMA RestartKeeps ==
    ASSUME Inv, Restart
    PROVE  Inv'
  <1>1. <<>> \in Seq(Nat) /\ <<>> \in Seq(Callers) /\ Len(<<>>) = 0 /\ DOMAIN <<>> = {}
    BY EmptySeq
  <1>2. \A c \in Callers : Len(accepted[c]) \in Nat
    BY LenProperties DEF Inv, Typed
  <1>3. Typed'
    BY <1>1, <1>2 DEF Inv, Typed, Restart
  <1>4. BucketsBounded'
    BY <1>1, LimitAssumption DEF Restart, BucketsBounded
  <1>5. ASSUME NEW c \in Callers
        PROVE  Ledger(now, <<>>, accepted[c], Len(accepted[c])) /\ Spaced(accepted[c], Len(accepted[c]))
    <2> DEFINE a == accepted[c]
    <2>1. Len(a) \in Nat
      BY <1>2
    <2>2. /\ \A i \in 1 .. Len(a) : a[i] <= now
          /\ \A i, j \in 1 .. Len(a) : i <= j => a[i] <= a[j]
      BY DEF Inv, Ledgers, Ledger
    <2> HIDE DEF a
    <2>3. /\ Len(a) + 0 <= Len(a)
          /\ \A i \in 1 .. Len(a) - 0 : ~ (i > Len(a))
          /\ \A i \in 1 .. 0 : FALSE
      BY <2>1
    <2>4. Spaced(a, Len(a))
      BY <2>1 DEF Spaced
    <2>5. Ledger(now, <<>>, a, Len(a))
      BY <1>1, <2>2, <2>3 DEF Ledger
    <2> QED
      BY <2>4, <2>5 DEF a
  <1>6. Ledgers' /\ AllSpaced'
    BY <1>5 DEF Restart, Ledgers, AllSpaced
  <1>7. RejectedAtLimit'
    BY DEF Inv, Restart, RejectedAtLimit
  <1> QED
    BY <1>3, <1>4, <1>6, <1>7 DEF Inv

\* A ledger stays true while time passes.
LEMMA LaterLedger ==
    ASSUME NEW t \in Nat, NEW b \in Seq(Nat), NEW a \in Seq(Nat), NEW f \in Nat, Ledger(t, b, a, f)
    PROVE  Ledger(t + 1, b, a, f)
  <1>1. Len(a) \in Nat /\ Len(b) \in Nat /\ \A i \in 1 .. Len(a) : a[i] \in Nat
    BY ElementOfSeq, LenProperties
  <1>2. \A i \in 1 .. Len(a) : a[i] <= t + 1
    <2>1. \A i \in 1 .. Len(a) : a[i] <= t
      BY DEF Ledger
    <2> QED
      BY <1>1, <2>1
  <1>3. \A i \in 1 .. Len(a) - Len(b) : i > f => a[i] <= (t + 1) - Window
    <2> SUFFICES ASSUME NEW i \in 1 .. Len(a) - Len(b), i > f
                 PROVE  a[i] <= (t + 1) - Window
      OBVIOUS
    <2>1. a[i] <= t - Window
      BY DEF Ledger
    <2>2. a[i] \in Nat
      <3>1. i \in 1 .. Len(a)
        BY <1>1
      <3> QED
        BY <1>1, <3>1
    <2> QED
      BY <2>1, <2>2, LimitAssumption
  <1>4. /\ f + Len(b) <= Len(a)
        /\ \A i \in 1 .. Len(b) : b[i] = a[Len(a) - Len(b) + i]
        /\ \A i, j \in 1 .. Len(a) : i <= j => a[i] <= a[j]
    BY DEF Ledger
  <1> QED
    BY <1>2, <1>3, <1>4 DEF Ledger

LEMMA TickKeeps ==
    ASSUME Inv, Tick
    PROVE  Inv'
  <1>1. /\ now \in Nat /\ now' = now + 1
        /\ UNCHANGED << order, bucket, accepted, forgotten, verdict >>
    BY DEF Inv, Typed, Tick
  <1>2. ASSUME NEW c \in Callers
        PROVE  Ledger(now + 1, bucket[c], accepted[c], forgotten[c])
    <2>1. /\ Ledger(now, bucket[c], accepted[c], forgotten[c])
          /\ bucket[c] \in Seq(Nat) /\ accepted[c] \in Seq(Nat) /\ forgotten[c] \in Nat
      BY DEF Inv, Ledgers, Typed
    <2> QED
      BY <1>1, <2>1, LaterLedger
  <1>3. Ledgers' /\ AllSpaced'
    BY <1>1, <1>2 DEF Inv, Ledgers, AllSpaced
  <1>4. Typed' /\ BucketsBounded' /\ RejectedAtLimit'
    BY <1>1 DEF Inv, Typed, BucketsBounded, RejectedAtLimit
  <1> QED
    BY <1>3, <1>4 DEF Inv

\* The inductive invariant: every bucket agrees with the ledger of its caller.
THEOREM InvariantHolds == Spec => []Inv
  <1>1. ASSUME Inv, [Next]_vars
        PROVE  Inv'
    <2>1. CASE UNCHANGED vars
      BY <1>1, <2>1 DEF vars, Inv, Typed, BucketsBounded, Ledgers, AllSpaced, RejectedAtLimit
    <2>2. CASE Next
      BY <1>1, <2>2, AdmitKeeps, RejectKeeps, RestartKeeps, TickKeeps DEF Next
    <2> QED
      BY <1>1, <2>1, <2>2
  <1> QED
    BY <1>1, InitInv, PTL DEF Spec

\* The dict of buckets stays within _MAX_BUCKETS and holds exactly the callers
\* with times, and all variables keep their types.
THEOREM TypeCorrect == Spec => []TypeOK
  <1>1. Inv => TypeOK
    BY DEF Inv, Typed, TypeOK
  <1> QED
    BY <1>1, InvariantHolds, PTL

\* No window holds more than Limit requests of a caller, but for those that were
\* forgotten with an evicted bucket or a restart.
THEOREM WindowHolds == Spec => []WindowRespected
  <1>1. Inv => WindowRespected
    <2> SUFFICES ASSUME Inv, NEW c \in Callers
                 PROVE  \A i, j \in DOMAIN accepted[c] :
                           i > forgotten[c] /\ j - i >= Limit => accepted[c][j] - accepted[c][i] >= Window
      BY DEF WindowRespected
    <2>1. DOMAIN accepted[c] = 1 .. Len(accepted[c])
      BY LenProperties DEF Inv, Typed
    <2> QED
      BY <2>1 DEF Inv, AllSpaced, Spaced
  <1> QED
    BY <1>1, InvariantHolds, PTL

\* Nobody is rejected who has not used up the limit within the last window.
THEOREM RejectionsAreDue == Spec => []RejectedAtLimit
  <1>1. Inv => RejectedAtLimit
    BY DEF Inv
  <1> QED
    BY <1>1, InvariantHolds, PTL
=============================================================================
