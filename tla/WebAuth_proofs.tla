---------------------------- MODULE WebAuth_proofs ----------------------------
(****************************************************************************)
(* Theorems about logging in to the web UI, for any addresses, any number   *)
(* of logins in flight and any limits that satisfy LimiterAssumption.       *)
(*                                                                          *)
(* Counted is the invariant that carries NoUndueLockout and Throttled.  It  *)
(* relates the entry of an address to the times of its wrong passwords: as  *)
(* many as the entry has counted lie in its window, the newest of them set  *)
(* the lock, and of those before the entry only so many are younger than a  *)
(* lockout as one window and the logins in flight can have added.  The      *)
(* logins still in flight are in it, because they are what may be counted   *)
(* on top of a lock.                                                        *)
(****************************************************************************)
EXTENDS WebAuth, FiniteSetTheorems, TLAPS

Slots == Cardinality(Requests)
InFlight(a) == {r \in Requests : req[r] # None /\ req[r].addr = a}

\* The newest wrong passwords come first.
Ordered(w) == \A j, k \in 1..Remembered : j <= k => w[j] <= w[k]

\* The failure that began the entry is the last it has counted, and of those before it
\* the recent ones are few.
Began(w, e) ==
    IF e = None THEN w[MaxAttempts - 1] >= Lockout
    ELSE /\ w[e.count] = e.first
         /\ w[e.count + MaxAttempts + Slots - 2] >= Lockout

\* A locked entry was locked by the newest failure, within the window of the first one,
\* and only logins in flight add to it.
Locked(w, e, n) ==
    e # None =>
        IF e.locked = None THEN e.count <= MaxAttempts - 1
        ELSE /\ MaxAttempts <= e.count /\ e.count + n <= MaxAttempts + Slots - 1
             /\ e.locked = w[1] /\ e.first <= e.locked + Window

Counted(w, e, n) == Ordered(w) /\ Began(w, e) /\ Locked(w, e, n)
Limited == \A a \in Addresses : Counted(wrong[a], attempts[a], Cardinality(InFlight(a)))

\* The cookie's secret is the one in the file, and in memory while the web UI runs.
Session ==
    /\ up # "down" => secret \in Keys
    /\ kept /\ cookie # None => /\ cookie.key = stored /\ stored \in Keys
                                /\ up # "down" => secret = stored

Times == [1..Remembered -> Ages]
EntryTypes == Entries \cup {None}

-----------------------------------------------------------------------------
(* The constants.                                                           *)

LEMMA Limits ==
    /\ MaxAttempts \in Nat /\ MaxAttempts >= 2
    /\ Window \in Nat /\ Lockout \in Nat /\ Lockout >= 1 /\ Window >= 1 /\ Lockout <= Window
    /\ Lifetime \in Nat /\ Lifetime >= 1 /\ MaxStarts \in Nat
    /\ Slots \in Nat /\ Slots >= 1
    /\ Remembered = 2 * MaxAttempts + 2 * Slots - 3 /\ Remembered \in Nat
    /\ Old = Window + Lockout + 1 /\ Old \in Nat
<1>1. /\ MaxAttempts \in Nat /\ MaxAttempts >= 2
      /\ Window \in Nat /\ Lockout \in Nat /\ Lockout >= 1 /\ Window >= 1 /\ Lockout <= Window
      /\ Lifetime \in Nat /\ Lifetime >= 1 /\ MaxStarts \in Nat
  BY BoundAssumption, LimiterAssumption
<1>2. Slots \in Nat /\ Slots >= 1
  <2>1. Slots \in Nat /\ Slots # 0
    BY BoundAssumption, FS_CardinalityType, FS_EmptySet DEF Slots
  <2> QED BY <2>1
<1>3. Remembered = 2 * MaxAttempts + 2 * Slots - 3 /\ Remembered \in Nat
  BY <1>1, <1>2 DEF Remembered, MostWrong, Slots
<1> QED BY <1>1, <1>2, <1>3 DEF Old

LEMMA AgeRange == /\ Ages = 0..Old /\ None \notin Ages
                  /\ \A w \in Times : \A k \in 1..Remembered : w[k] \in Nat /\ w[k] <= Old
<1>1. Ages = 0..Old /\ \A x \in Ages : x \in Nat /\ x <= Old
  BY Limits DEF Ages
<1>2. None \notin Ages
  BY <1>1, NoneAssumption
<1> QED BY <1>1, <1>2 DEF Times

\* What an entry is made of.
LEMMA EntryFields ==
    ASSUME NEW e \in Entries
    PROVE  /\ e # None
           /\ e.count \in Nat /\ e.count >= 1 /\ e.count <= MaxAttempts + Slots - 1
           /\ e.first \in Nat /\ e.first <= Old
           /\ e.locked # None => e.locked \in Nat /\ e.locked <= Old
           /\ None \notin Nat
<1>1. MaxAttempts + Slots - 1 \in Nat /\ Old \in Nat
  BY Limits
<1> QED BY <1>1, NoneAssumption DEF Entries, Counts, Ages, Slots

-----------------------------------------------------------------------------
(* What happens to one address.                                             *)

LEMMA CountedNoEntry ==
    ASSUME NEW w, Ordered(w), w[MaxAttempts - 1] >= Lockout, NEW n
    PROVE  Counted(w, None, n)
BY DEF Counted, Began, Locked

\* Logins that end take nothing away, and one that begins matters only to a locked entry.
LEMMA CountedFewer ==
    ASSUME NEW w, NEW e \in EntryTypes, NEW n \in Nat, NEW m \in Nat, Counted(w, e, n),
           m <= n \/ e = None \/ e.locked = None
    PROVE  Counted(w, e, m)
<1>1. CASE e = None
  BY <1>1 DEF Counted, Began, Locked
<1>2. CASE e \in Entries
  BY <1>2, EntryFields, Limits DEF Counted, Began, Locked
<1> QED BY <1>1, <1>2 DEF EntryTypes

\* An entry may be forgotten when its window is over, if it is not locked, or its lockout.
LEMMA CountedForgotten ==
    ASSUME NEW w \in Times, NEW e \in Entries, NEW n \in Nat, NEW m, Counted(w, e, n),
           IF e.locked = None THEN WindowOver(e) ELSE e.locked >= Lockout
    PROVE  Counted(w, None, m)
<1>1. \A k \in 1..Remembered : w[k] \in Nat /\ w[k] <= Old
  BY AgeRange
<1>2. MaxAttempts - 1 \in 1..Remembered /\ 1 \in 1..Remembered
  BY Limits
<1>3. CASE e.locked = None
  <2>1. e.count \in 1..(MaxAttempts - 1) /\ e.count \in 1..Remembered
    BY <1>3, EntryFields, Limits DEF Counted, Locked
  <2>2. w[e.count] > Lockout
    <3>1. e.first > Window
      BY <1>3 DEF WindowOver
    <3> QED BY <3>1, EntryFields, Limits DEF Counted, Began
  <2>3. w[e.count] <= w[MaxAttempts - 1]
    BY <1>2, <2>1, Limits DEF Counted, Ordered
  <2>4. w[MaxAttempts - 1] >= Lockout
    BY <1>1, <1>2, <2>1, <2>2, <2>3, Limits
  <2> QED BY <2>4, CountedNoEntry DEF Counted
<1>4. CASE e.locked # None
  <2>1. w[1] >= Lockout
    BY <1>4, EntryFields DEF Counted, Locked
  <2>2. w[1] <= w[MaxAttempts - 1]
    BY <1>2, Limits DEF Counted, Ordered
  <2>3. w[MaxAttempts - 1] >= Lockout
    BY <1>1, <1>2, <2>1, <2>2, Limits
  <2> QED BY <2>3, CountedNoEntry DEF Counted
<1> QED BY <1>3, <1>4

\* A failure: the times move on by one place.
LEMMA CountedAgain ==
    ASSUME NEW w \in Times, NEW e \in EntryTypes, NEW n \in 1..Slots, Counted(w, e, n)
    PROVE  LET v == [k \in 1..Remembered |-> IF k = 1 THEN 0 ELSE w[k - 1]]
               f == IF StillCounts(e)
                    THEN [e EXCEPT !.count = @ + 1, !.locked = LockFrom(e.count + 1, @)]
                    ELSE [count |-> 1, first |-> 0, locked |-> None]
           IN  v \in Times /\ f \in Entries /\ Counted(v, f, n - 1)
<1> DEFINE v == [k \in 1..Remembered |-> IF k = 1 THEN 0 ELSE w[k - 1]]
           f == IF StillCounts(e)
                THEN [e EXCEPT !.count = @ + 1, !.locked = LockFrom(e.count + 1, @)]
                ELSE [count |-> 1, first |-> 0, locked |-> None]
<1>1. \A k \in 1..Remembered : w[k] \in Nat /\ w[k] <= Old
  BY AgeRange
<1>2. ASSUME NEW k \in Nat, k >= 1, k + 1 <= Remembered
      PROVE  v[k + 1] = w[k] /\ v[k + 1] \in Nat
  <2>1. k + 1 \in 1..Remembered /\ k \in 1..Remembered /\ k + 1 # 1 /\ k + 1 - 1 = k
    BY <1>2, Limits
  <2> QED BY <1>1, <2>1
<1>3. v[1] = 0 /\ 1 \in 1..Remembered
  BY Limits
<1>4. v \in Times
  <2>1. ASSUME NEW k \in 1..Remembered PROVE (IF k = 1 THEN 0 ELSE w[k - 1]) \in Ages
    <3>1. CASE k = 1
      BY <3>1, AgeRange, Limits
    <3>2. CASE k # 1
      <4>1. k - 1 \in 1..Remembered
        BY <3>2, Limits
      <4> QED BY <3>2, <4>1 DEF Times
    <3> QED BY <3>1, <3>2
  <2> QED BY <2>1 DEF Times
<1> HIDE DEF v
<1>5. Ordered(v)
  <2>1. ASSUME NEW j \in 1..Remembered, NEW k \in 1..Remembered, j <= k
        PROVE  v[j] <= v[k]
    <3>1. CASE j = 1
      <4>1. v[k] \in Nat
        BY <1>4, AgeRange
      <4> QED BY <3>1, <4>1, <1>3
    <3>2. CASE j # 1
      <4>1. /\ j - 1 \in Nat /\ j - 1 >= 1 /\ (j - 1) + 1 = j /\ j <= Remembered
            /\ k - 1 \in Nat /\ k - 1 >= 1 /\ (k - 1) + 1 = k /\ k <= Remembered
            /\ j - 1 \in 1..Remembered /\ k - 1 \in 1..Remembered /\ j - 1 <= k - 1
        BY <2>1, <3>2, Limits
      <4>2. w[j - 1] <= w[k - 1]
        BY <4>1 DEF Counted, Ordered
      <4>3. v[j] = w[j - 1]
        BY <4>1, <1>2
      <4>4. v[k] = w[k - 1]
        BY <4>1, <1>2
      <4> QED BY <4>2, <4>3, <4>4
    <3> QED BY <3>1, <3>2
  <2> QED BY <2>1 DEF Ordered
<1>6. CASE StillCounts(e)
  <2>1. e \in Entries /\ e # None /\ e.first <= Window
    BY <1>6, EntryFields, Limits DEF StillCounts, WindowOver, EntryTypes
  <2> DEFINE c == e.count
  <2>2. /\ c \in 1..(MaxAttempts + Slots - 2)
        /\ e.locked # None => c >= MaxAttempts /\ c + n <= MaxAttempts + Slots - 1
        /\ e.locked = None => c <= MaxAttempts - 1
    <3>1. CASE e.locked = None
      BY <2>1, <3>1, EntryFields, Limits DEF Counted, Locked
    <3>2. CASE e.locked # None
      BY <2>1, <3>2, EntryFields, Limits DEF Counted, Locked
    <3> QED BY <3>1, <3>2
  <2>3. /\ f.count = c + 1 /\ f.first = e.first
        /\ f.locked = IF c + 1 >= MaxAttempts THEN 0 ELSE e.locked
    BY <1>6, <2>1 DEF LockFrom, Entries
  <2>4. f \in Entries
    <3>1. c + 1 \in Counts /\ LockFrom(c + 1, e.locked) \in Ages \cup {None}
      BY <2>1, <2>2, AgeRange, Limits DEF LockFrom, Entries, Counts, Slots
    <3>2. f = [e EXCEPT !.count = c + 1, !.locked = LockFrom(c + 1, e.locked)]
      BY <1>6
    <3> QED BY <2>1, <3>1, <3>2 DEF Entries
  <2>5. f # None
    BY <2>4, NoneAssumption
  <2> HIDE DEF f
  <2>6. Began(v, f)
    <3>1. v[c + 1] = w[c] /\ w[c] = e.first
      <4>1. c \in Nat /\ c >= 1 /\ c + 1 <= Remembered
        BY <2>2, Limits
      <4> QED BY <2>1, <4>1, <1>2 DEF Counted, Began
    <3>2. v[c + 1 + MaxAttempts + Slots - 2] >= Lockout
      <4>1. PICK p : p = c + MaxAttempts + Slots - 2
        OBVIOUS
      <4>2. /\ p \in Nat /\ p >= 1 /\ p + 1 <= Remembered
            /\ p + 1 = c + 1 + MaxAttempts + Slots - 2
        BY <2>2, <4>1, Limits
      <4>3. w[p] >= Lockout
        BY <2>1, <4>1 DEF Counted, Began
      <4>4. v[p + 1] >= Lockout
        BY <4>2, <4>3, <1>2
      <4> QED BY <4>2, <4>4
    <3> QED BY <2>3, <2>5, <3>1, <3>2 DEF Began
  <2>7. Locked(v, f, n - 1)
    <3>1. CASE c + 1 >= MaxAttempts
      <4>1. f.locked = 0 /\ f.locked # None
        BY <2>3, <3>1, NoneAssumption
      <4>2. f.count + (n - 1) <= MaxAttempts + Slots - 1
        BY <2>2, <2>3, <3>1, Limits
      <4>3. f.first <= 0 + Window
        BY <2>1, <2>3, EntryFields, Limits
      <4> QED BY <1>3, <2>3, <3>1, <4>1, <4>2, <4>3 DEF Locked
    <3>2. CASE ~(c + 1 >= MaxAttempts)
      <4>1. e.locked = None
        BY <2>2, <3>2, Limits
      <4> QED BY <2>2, <2>3, <3>2, <4>1, Limits DEF Locked
    <3> QED BY <3>1, <3>2
  <2> QED BY <1>4, <1>5, <2>4, <2>6, <2>7 DEF Counted, f, v
<1>7. CASE ~StillCounts(e)
  <2>1. f = [count |-> 1, first |-> 0, locked |-> None]
    BY <1>7
  <2>2. f \in Entries /\ f # None
    <3>1. 1 \in Counts /\ 0 \in Ages
      BY AgeRange, Limits DEF Counts, Slots
    <3>2. [count |-> 1, first |-> 0, locked |-> None] \in Entries
      BY <3>1 DEF Entries
    <3> HIDE DEF f
    <3> QED BY <2>1, <3>2, NoneAssumption, Zenon
  <2>3. f.count = 1 /\ f.first = 0 /\ f.locked = None
    BY <2>1
  <2> HIDE DEF f
  <2>4. w[MaxAttempts + Slots - 2] >= Lockout
    <3> DEFINE p == MaxAttempts + Slots - 2
    <3>1. p \in 1..Remembered
      BY Limits
    <3>2. \E q \in 1..p : w[q] >= Lockout
      <4>1. CASE e = None
        <5>1. MaxAttempts - 1 \in 1..p
          BY Limits
        <5> QED BY <4>1, <5>1 DEF Counted, Began
      <4>2. CASE e # None
        <5>1. e \in Entries /\ e.first > Window
          BY <1>7, <4>2 DEF StillCounts, WindowOver, EntryTypes
        <5>2. e.count \in 1..p
          <6>1. CASE e.locked = None
            BY <4>2, <5>1, <6>1, EntryFields, Limits DEF Counted, Locked
          <6>2. CASE e.locked # None
            BY <4>2, <5>1, <6>2, EntryFields, Limits DEF Counted, Locked
          <6> QED BY <6>1, <6>2
        <5>3. w[e.count] >= Lockout
          BY <4>2, <5>1, EntryFields, Limits DEF Counted, Began
        <5> QED BY <5>2, <5>3
      <4> QED BY <4>1, <4>2
    <3>3. PICK q \in 1..p : w[q] >= Lockout
      BY <3>2
    <3>4. q \in 1..Remembered /\ q <= p
      BY <3>1, <3>3, Limits
    <3>5. w[q] <= w[p]
      BY <3>1, <3>4 DEF Counted, Ordered
    <3> HIDE DEF p
    <3>6. w[p] >= Lockout
      BY <1>1, <3>1, <3>3, <3>4, <3>5, Limits
    <3> QED BY <3>6 DEF p
  <2>5. Began(v, f)
    <3>1. PICK p : p = MaxAttempts + Slots - 2
      OBVIOUS
    <3>2. /\ p \in Nat /\ p >= 1 /\ p + 1 <= Remembered
          /\ p + 1 = 1 + MaxAttempts + Slots - 2
      BY <3>1, Limits
    <3>3. v[p + 1] >= Lockout
      BY <1>2, <2>4, <3>1, <3>2
    <3> QED BY <1>3, <2>2, <2>3, <3>2, <3>3 DEF Began
  <2>6. Locked(v, f, n - 1)
    BY <2>3, Limits DEF Locked
  <2> QED BY <1>4, <1>5, <2>2, <2>5, <2>6 DEF Counted, f, v
<1> QED BY <1>6, <1>7

\* Time passes.
LEMMA OlderAge ==
    ASSUME NEW x \in Ages
    PROVE  Older(x) \in Ages /\ Older(x) >= x /\ Older(x) = IF x = Old THEN Old ELSE x + 1
BY Limits, AgeRange DEF Older

LEMMA CountedOlder ==
    ASSUME NEW w \in Times, NEW e \in EntryTypes, NEW n \in Nat, Counted(w, e, n)
    PROVE  LET v == [k \in 1..Remembered |-> Older(w[k])]
               f == IF e = None THEN None
                    ELSE [e EXCEPT !.first = Older(@), !.locked = Older(@)]
           IN  v \in Times /\ f \in EntryTypes /\ Counted(v, f, n)
<1> DEFINE v == [k \in 1..Remembered |-> Older(w[k])]
           f == IF e = None THEN None
                ELSE [e EXCEPT !.first = Older(@), !.locked = Older(@)]
<1>1. \A k \in 1..Remembered : w[k] \in Ages /\ w[k] \in Nat /\ w[k] <= Old
  BY AgeRange DEF Times
<1>2. /\ v \in Times
      /\ \A k \in 1..Remembered :
            v[k] \in Nat /\ v[k] >= w[k] /\ v[k] = (IF w[k] = Old THEN Old ELSE w[k] + 1)
  <2>1. ASSUME NEW k \in 1..Remembered
        PROVE  /\ Older(w[k]) \in Ages /\ Older(w[k]) \in Nat /\ Older(w[k]) >= w[k]
               /\ Older(w[k]) = IF w[k] = Old THEN Old ELSE w[k] + 1
    BY <1>1, OlderAge, AgeRange
  <2> QED BY <2>1 DEF Times
<1> HIDE DEF v
<1>3. Ordered(v)
  <2>1. ASSUME NEW j \in 1..Remembered, NEW k \in 1..Remembered, j <= k
        PROVE  v[j] <= v[k]
    <3>1. w[j] <= w[k]
      BY <2>1 DEF Counted, Ordered
    <3> QED BY <3>1, <1>1, <1>2, Limits
  <2> QED BY <2>1 DEF Ordered
<1>4. CASE e = None
  <2>1. MaxAttempts - 1 \in 1..Remembered
    BY Limits
  <2>2. v[MaxAttempts - 1] >= Lockout
    <3>1. w[MaxAttempts - 1] >= Lockout
      BY <1>4 DEF Counted, Began
    <3> QED BY <2>1, <3>1, <1>1, <1>2, Limits
  <2>3. Counted(v, None, n)
    BY <1>3, <2>2, CountedNoEntry
  <2> QED BY <1>2, <1>4, <2>3 DEF EntryTypes, v
<1>5. CASE e \in Entries
  <2>1. e # None /\ f = [e EXCEPT !.first = Older(@), !.locked = Older(@)]
    BY <1>5, NoneAssumption
  <2>2. /\ f.count = e.count /\ f.first = Older(e.first) /\ f.locked = Older(e.locked)
        /\ Older(e.first) \in Ages /\ (e.locked = None => Older(e.locked) = None)
        /\ e.locked # None => e.locked \in Ages /\ Older(e.locked) \in Ages
    BY <1>5, <2>1, OlderAge DEF Entries, Older
  <2>3. f \in Entries
    BY <1>5, <2>1, <2>2 DEF Entries
  <2>4. f # None
    BY <2>3, NoneAssumption
  <2> HIDE DEF f
  <2>5. Began(v, f)
    <3>1. /\ e.count \in 1..Remembered
          /\ e.count + MaxAttempts + Slots - 2 \in 1..Remembered
      BY <1>5, EntryFields, Limits
    <3>2. w[e.count] = e.first /\ w[e.count + MaxAttempts + Slots - 2] >= Lockout
      BY <2>1 DEF Counted, Began
    <3>3. v[e.count] = Older(e.first)
      BY <3>1, <3>2 DEF v
    <3>4. v[e.count + MaxAttempts + Slots - 2] >= Lockout
      <4>1. PICK p : p = e.count + MaxAttempts + Slots - 2
        OBVIOUS
      <4>2. p \in 1..Remembered /\ w[p] >= Lockout
        BY <3>1, <3>2, <4>1
      <4>3. v[p] >= Lockout
        BY <4>2, <1>1, <1>2, Limits
      <4> QED BY <4>1, <4>3
    <3> QED BY <2>2, <2>4, <3>3, <3>4 DEF Began
  <2>6. Locked(v, f, n)
    <3>1. CASE e.locked = None
      BY <2>1, <2>2, <3>1 DEF Counted, Locked
    <3>2. CASE e.locked # None
      <4>1. e.locked = w[1] /\ e.first <= e.locked + Window /\ 1 \in 1..Remembered
        BY <2>1, <3>2, Limits DEF Counted, Locked
      <4>2. f.locked = v[1]
        BY <2>2, <4>1 DEF v
      <4>3. f.first <= f.locked + Window
        <5>1. e.first \in Ages /\ e.locked \in Ages
          BY <1>5, <2>2, <3>2 DEF Entries
        <5>2. /\ Older(e.first) = (IF e.first = Old THEN Old ELSE e.first + 1)
              /\ Older(e.locked) = (IF e.locked = Old THEN Old ELSE e.locked + 1)
              /\ e.first \in Nat /\ e.locked \in Nat /\ e.first <= Old /\ e.locked <= Old
          BY <5>1, OlderAge, AgeRange
        <5> QED BY <2>2, <4>1, <5>2, Limits
      <4>4. f.locked # None
        BY <2>2, <3>2, AgeRange
      <4> QED BY <2>1, <2>2, <3>2, <4>2, <4>3, <4>4 DEF Counted, Locked
    <3> QED BY <3>1, <3>2
  <2> QED BY <1>2, <1>3, <2>3, <2>5, <2>6 DEF Counted, EntryTypes, v, f
<1> QED BY <1>4, <1>5 DEF EntryTypes

-----------------------------------------------------------------------------
(* What the properties say of one address.                                  *)

LEMMA CountedThrottled ==
    ASSUME NEW w \in Times, NEW e \in EntryTypes, NEW n \in Nat, Counted(w, e, n)
    PROVE  Cardinality({k \in 1..Remembered : w[k] < Lockout}) <= MostWrong
<1> DEFINE S == {k \in 1..Remembered : w[k] < Lockout}
<1>1. \A k \in 1..Remembered : w[k] \in Nat
  BY AgeRange
<1>2. Remembered \in 1..Remembered /\ MostWrong \in Nat /\ Remembered = MostWrong + 1
  BY Limits DEF Remembered, MostWrong, Slots
<1>3. w[Remembered] >= Lockout
  <2>1. \E q \in 1..Remembered : w[q] >= Lockout
    <3>1. CASE e = None
      <4>1. MaxAttempts - 1 \in 1..Remembered
        BY Limits
      <4> QED BY <3>1, <4>1 DEF Counted, Began
    <3>2. CASE e \in Entries
      <4>1. e.count + MaxAttempts + Slots - 2 \in 1..Remembered
        BY <3>2, EntryFields, Limits
      <4> QED BY <3>2, <4>1, NoneAssumption DEF Counted, Began
    <3> QED BY <3>1, <3>2 DEF EntryTypes
  <2>2. PICK q \in 1..Remembered : w[q] >= Lockout
    BY <2>1
  <2>3. w[q] <= w[Remembered]
    BY <1>2, Limits DEF Counted, Ordered
  <2> QED BY <1>1, <1>2, <2>2, <2>3, Limits
<1>4. S \subseteq 1..MostWrong
  <2>1. ASSUME NEW k \in S PROVE k \in 1..MostWrong
    <3>1. k # Remembered
      BY <1>1, <1>2, <1>3, Limits
    <3> QED BY <1>2, <3>1
  <2> QED BY <2>1
<1>5. IsFiniteSet(1..MostWrong) /\ Cardinality(1..MostWrong) = MostWrong
  <2>1. IsFiniteSet(1..MostWrong)
        /\ Cardinality(1..MostWrong) = IF 1 > MostWrong THEN 0 ELSE MostWrong - 1 + 1
    BY <1>2, FS_Interval
  <2> QED BY <1>2, <2>1
<1>6. Cardinality(S) <= Cardinality(1..MostWrong)
  BY <1>4, <1>5, FS_Subset, Zenon
<1> QED BY <1>5, <1>6

LEMMA CountedDue ==
    ASSUME NEW w \in Times, NEW e \in Entries, NEW n \in Nat, Counted(w, e, n),
           e.locked # None
    PROVE  Cardinality({k \in 1..Remembered : e.locked <= w[k] /\ w[k] <= e.locked + Window})
               >= MaxAttempts
<1> DEFINE S == {k \in 1..Remembered : e.locked <= w[k] /\ w[k] <= e.locked + Window}
<1>1. /\ MaxAttempts <= e.count /\ e.locked = w[1] /\ e.first <= e.locked + Window
      /\ w[e.count] = e.first /\ e.count \in 1..Remembered /\ 1 \in 1..Remembered
  BY EntryFields, Limits DEF Counted, Began, Locked
<1>2. 1..MaxAttempts \subseteq S
  <2>1. ASSUME NEW k \in 1..MaxAttempts PROVE k \in S
    <3>1. k \in 1..Remembered /\ 1 <= k /\ k <= e.count
      BY <1>1, EntryFields, Limits
    <3>2. w[1] <= w[k] /\ w[k] <= w[e.count]
      BY <1>1, <3>1 DEF Counted, Ordered
    <3>3. w[1] \in Nat /\ w[k] \in Nat /\ w[e.count] \in Nat
      BY <1>1, <3>1, AgeRange
    <3> QED BY <1>1, <3>1, <3>2, <3>3, Limits
  <2> QED BY <2>1
<1>3. IsFiniteSet(S)
  <2>1. IsFiniteSet(1..Remembered) /\ S \subseteq 1..Remembered
    BY Limits, FS_Interval
  <2> QED BY <2>1, FS_Subset, Zenon
<1>4. Cardinality(1..MaxAttempts) = MaxAttempts
  <2>1. Cardinality(1..MaxAttempts) = IF 1 > MaxAttempts THEN 0 ELSE MaxAttempts - 1 + 1
    BY Limits, FS_Interval
  <2> QED BY <2>1, Limits
<1>5. Cardinality(1..MaxAttempts) <= Cardinality(S)
  BY <1>2, <1>3, FS_Subset, Zenon
<1>6. Cardinality(S) \in Nat
  BY <1>3, FS_CardinalityType
<1> QED BY <1>4, <1>5, <1>6, Limits

-----------------------------------------------------------------------------
(* The steps.                                                               *)

\* The type of each variable is kept.
LEMMA TypeInit == Init => TypeOK
<1> SUFFICES ASSUME Init PROVE TypeOK
  OBVIOUS
<1>1. Old \in Ages
  BY Limits, AgeRange
<1>2. wrong \in [Addresses -> [1..Remembered -> Ages]]
  BY <1>1 DEF Init, NoneWrong
<1>3. 0 \in 0..MaxStarts
  BY Limits
<1> QED BY <1>2, <1>3 DEF Init, TypeOK, Hashes

LEMMA ForgetKeepsType ==
    ASSUME NEW f \in [Addresses -> EntryTypes]
    PROVE  \A a \in Addresses : [f EXCEPT ![a] = None] \in [Addresses -> EntryTypes]
BY DEF EntryTypes

LEMMA InFlightFinite ==
    ASSUME NEW S, S \subseteq Requests
    PROVE  IsFiniteSet(S) /\ Cardinality(S) \in Nat /\ Cardinality(S) <= Slots
<1>1. IsFiniteSet(Requests)
  BY BoundAssumption
<1>2. IsFiniteSet(S) /\ Cardinality(S) <= Slots
  BY <1>1, FS_Subset DEF Slots
<1> QED BY <1>2, FS_CardinalityType

\* A request that is over is taken from those in flight, one that goes on stays.
LEMMA OverEndsOne ==
    ASSUME TypeOK, NEW r \in Requests, req[r] # None, Over(r)
    PROVE  \A a \in Addresses :
              InFlight(a)' = IF req[r].addr = a THEN InFlight(a) \ {r} ELSE InFlight(a)
<1> USE DEF InFlight
<1>1. req' = [req EXCEPT ![r] = None] /\ req \in [Requests -> Inflight \cup {None}]
  BY DEF Over, TypeOK
<1>2. \A q \in Requests : req'[q] = IF q = r THEN None ELSE req[q]
  BY <1>1
<1> QED BY <1>2

LEMMA LimitedInit == Init => Limited
<1> SUFFICES ASSUME Init, NEW a \in Addresses
             PROVE  Counted(wrong[a], attempts[a], Cardinality(InFlight(a)))
  BY DEF Limited
<1>1. attempts[a] = None /\ \A k \in 1..Remembered : wrong[a][k] = Old
  BY DEF Init, NoneWrong
<1>2. Old \in Nat /\ Old >= Lockout /\ MaxAttempts - 1 \in 1..Remembered
  BY Limits
<1>3. Ordered(wrong[a]) /\ wrong[a][MaxAttempts - 1] >= Lockout
  BY <1>1, <1>2 DEF Ordered
<1> QED BY <1>1, <1>3, CountedNoEntry

LEMMA Address ==
    ASSUME TypeOK, Limited, NEW a \in Addresses
    PROVE  /\ wrong[a] \in Times /\ attempts[a] \in EntryTypes
           /\ Cardinality(InFlight(a)) \in 0..Slots
           /\ Counted(wrong[a], attempts[a], Cardinality(InFlight(a)))
<1>1. InFlight(a) \subseteq Requests
  BY DEF InFlight
<1>2. Cardinality(InFlight(a)) \in 0..Slots
  BY <1>1, InFlightFinite, Limits
<1> QED BY <1>2 DEF TypeOK, Limited, Times, EntryTypes

LimiterTypes == attempts \in [Addresses -> EntryTypes] /\ wrong \in [Addresses -> Times]

LEMMA LimiterTyped == TypeOK => LimiterTypes
BY DEF TypeOK, LimiterTypes, Times, EntryTypes

\* A step that only ends requests.
LEMMA NoneCounted ==
    ASSUME TypeOK, Limited, UNCHANGED limiter,
           \A a \in Addresses : InFlight(a)' \subseteq InFlight(a)
    PROVE  LimiterTypes' /\ Limited'
<1>1. wrong' = wrong /\ attempts' = attempts
  BY DEF limiter
<1>2. ASSUME NEW a \in Addresses
      PROVE  Counted(wrong'[a], attempts'[a], Cardinality(InFlight(a)'))
  <2>1. InFlight(a) \subseteq Requests
    BY DEF InFlight
  <2>2. IsFiniteSet(InFlight(a)) /\ Cardinality(InFlight(a)) \in Nat
    BY <2>1, InFlightFinite
  <2>3. InFlight(a)' \subseteq InFlight(a)
    BY <1>2
  <2>4. Cardinality(InFlight(a)') <= Cardinality(InFlight(a)) /\ Cardinality(InFlight(a)') \in Nat
    BY <2>2, <2>3, FS_Subset, FS_CardinalityType
  <2> QED BY <1>1, <1>2, <2>2, <2>4, Address, CountedFewer
<1>3. LimiterTypes'
  BY <1>1, LimiterTyped DEF LimiterTypes
<1> QED BY <1>2, <1>3 DEF Limited

\* A request that is let in finds no entry, or one that is not locked.
LEMMA LoginCounted ==
    ASSUME TypeOK, Limited, NEW r \in Requests, NEW a \in Addresses, NEW p \in Passwords,
           Login(r, a, p)
    PROVE  LimiterTypes' /\ Limited'
<1>1. wrong' = wrong /\ attempts' = AfterAllow(a) /\ req[r] = None
  BY DEF Login
<1>2. LimiterTypes
  BY LimiterTyped
<1>3. /\ attempts' = attempts \/ attempts' = [attempts EXCEPT ![a] = None]
      /\ LimiterTypes'
  BY <1>1, <1>2 DEF AfterAllow, LimiterTypes, EntryTypes
<1>4. ASSUME NEW b \in Addresses, b # a
      PROVE  InFlight(b)' = InFlight(b) /\ attempts'[b] = attempts[b]
  <2>1. attempts'[b] = attempts[b]
    BY <1>2, <1>3, <1>4 DEF LimiterTypes
  <2>2. CASE Allows(a)
    <3>1. req' = [req EXCEPT ![r] = [addr |-> a, pass |-> p, is |-> None]]
      BY <2>2 DEF Login
    <3>2. \A q \in Requests :
             req'[q] = IF q = r THEN [addr |-> a, pass |-> p, is |-> None] ELSE req[q]
      BY <3>1 DEF TypeOK
    <3>3. \A q \in Requests : q \in InFlight(b)' <=> q \in InFlight(b)
      BY <1>1, <1>4, <3>2 DEF InFlight
    <3> QED BY <2>1, <3>3 DEF InFlight
  <2>3. CASE ~Allows(a)
    <3>1. req' = req
      BY <2>3 DEF Login
    <3> QED BY <2>1, <3>1 DEF InFlight
  <2> QED BY <2>2, <2>3
<1>5. ASSUME NEW b \in Addresses, b # a
      PROVE  Counted(wrong'[b], attempts'[b], Cardinality(InFlight(b)'))
  BY <1>1, <1>4, <1>5, Address
<1>6. Counted(wrong'[a], attempts'[a], Cardinality(InFlight(a)'))
  <2> DEFINE e == attempts[a]
  <2>0. InFlight(a)' \subseteq Requests
    BY DEF InFlight
  <2>1. /\ wrong[a] \in Times /\ e \in EntryTypes /\ Cardinality(InFlight(a)) \in Nat
        /\ Cardinality(InFlight(a)') \in Nat
        /\ Counted(wrong[a], e, Cardinality(InFlight(a)))
    BY <2>0, Address, InFlightFinite, Limits
  <2>2. CASE e # None /\ LockHolds(e)
    <3>1. attempts' = attempts /\ req' = req
      BY <2>2 DEF Login, Allows, AfterAllow
    <3> QED BY <1>1, <2>1, <3>1 DEF InFlight
  <2>3. CASE e # None /\ ~LockHolds(e) /\ (e.locked # None \/ WindowOver(e))
    <3>1. attempts'[a] = None
      BY <1>1, <1>2, <2>3 DEF AfterAllow, LimiterTypes
    <3>2. IF e.locked = None THEN WindowOver(e) ELSE e.locked >= Lockout
      BY <2>1, <2>3, EntryFields, Limits DEF LockHolds, EntryTypes
    <3>3. e \in Entries
      BY <2>1, <2>3 DEF EntryTypes
    <3> HIDE DEF e
    <3> QED BY <1>1, <2>1, <3>1, <3>2, <3>3, CountedForgotten
  <2>4. CASE e = None \/ (e.locked = None /\ ~WindowOver(e))
    <3>1. attempts' = attempts
      BY <1>1, <2>4 DEF AfterAllow
    <3> QED BY <1>1, <2>1, <2>4, <3>1, CountedFewer
  <2> QED BY <2>2, <2>3, <2>4 DEF LockHolds
<1> QED BY <1>3, <1>5, <1>6 DEF Limited

\* A failure is counted for the address it came from, and the request is over.
LEMMA FailCounted ==
    ASSUME TypeOK, Limited, NEW r \in Requests, Fail(r)
    PROVE  LimiterTypes' /\ Limited'
<1>1. PICK a \in Addresses : req[r] # None /\ a = req[r].addr /\ Failed(a) /\ Over(r)
  BY DEF Fail, TypeOK, Inflight
<1> DEFINE e == attempts[a]
           n == Cardinality(InFlight(a))
           w == wrong[a]
           v == [k \in 1..Remembered |-> IF k = 1 THEN 0 ELSE w[k - 1]]
           f == IF StillCounts(e)
                THEN [e EXCEPT !.count = @ + 1, !.locked = LockFrom(e.count + 1, @)]
                ELSE [count |-> 1, first |-> 0, locked |-> None]
<1>2. LimiterTypes
  BY LimiterTyped
<1>3. attempts' = [attempts EXCEPT ![a] = f] /\ wrong' = [wrong EXCEPT ![a] = v]
  BY <1>1 DEF Failed
<1>4. /\ InFlight(a)' = InFlight(a) \ {r} /\ r \in InFlight(a) /\ InFlight(a) \subseteq Requests
      /\ \A b \in Addresses : b # a => InFlight(b)' = InFlight(b)
  <2>1. \A b \in Addresses :
           InFlight(b)' = IF req[r].addr = b THEN InFlight(b) \ {r} ELSE InFlight(b)
    BY <1>1, OverEndsOne
  <2> QED BY <1>1, <2>1 DEF InFlight
<1>5. n \in 1..Slots /\ Cardinality(InFlight(a)') = n - 1
  <2>1. IsFiniteSet(InFlight(a)) /\ n \in Nat /\ n <= Slots
    BY <1>4, InFlightFinite
  <2>2. Cardinality(InFlight(a) \ {r}) = n - 1
    BY <1>4, <2>1, FS_RemoveElement
  <2>3. n # 0
    BY <1>4, <2>1, FS_EmptySet
  <2> QED BY <1>4, <2>1, <2>2, <2>3, Limits
<1>6. w \in Times /\ e \in EntryTypes /\ Counted(w, e, n)
  BY <1>1, Address
<1> HIDE DEF n, w, e
<1>7. v \in Times /\ f \in Entries /\ Counted(v, f, n - 1)
  BY <1>5, <1>6, CountedAgain
<1> HIDE DEF v, f
<1>8. /\ wrong'[a] = v /\ attempts'[a] = f
      /\ \A b \in Addresses : b # a => wrong'[b] = wrong[b] /\ attempts'[b] = attempts[b]
      /\ LimiterTypes'
  BY <1>1, <1>2, <1>3, <1>7 DEF LimiterTypes, EntryTypes
<1>9. ASSUME NEW b \in Addresses
      PROVE  Counted(wrong'[b], attempts'[b], Cardinality(InFlight(b)'))
  <2>1. CASE b = a
    BY <1>5, <1>7, <1>8, <2>1
  <2>2. CASE b # a
    BY <1>4, <1>8, <1>9, <2>2, Address
  <2> QED BY <2>1, <2>2
<1> QED BY <1>8, <1>9 DEF Limited

\* The clean-up forgets what logging in would forget as well.
LEMMA CleanupCounted ==
    ASSUME TypeOK, Limited, Cleanup
    PROVE  LimiterTypes' /\ Limited'
<1>1. /\ wrong' = wrong /\ req' = req
      /\ attempts' = [a \in Addresses |-> IF attempts[a] # None /\ Stale(attempts[a])
                                           THEN None ELSE attempts[a]]
  BY DEF Cleanup
<1>2. LimiterTypes'
  BY <1>1, LimiterTyped DEF LimiterTypes, EntryTypes
<1>3. ASSUME NEW a \in Addresses
      PROVE  Counted(wrong'[a], attempts'[a], Cardinality(InFlight(a)'))
  <2> DEFINE e == attempts[a]
  <2>1. /\ wrong[a] \in Times /\ e \in EntryTypes /\ Cardinality(InFlight(a)) \in Nat
        /\ Counted(wrong[a], e, Cardinality(InFlight(a)))
    BY <1>3, Address, Limits
  <2>2. InFlight(a)' = InFlight(a)
    BY <1>1 DEF InFlight
  <2>3. CASE e # None /\ Stale(e)
    <3>1. attempts'[a] = None
      BY <1>1, <2>3
    <3>2. e \in Entries
      BY <2>1, <2>3 DEF EntryTypes
    <3>3. IF e.locked = None THEN WindowOver(e) ELSE e.locked >= Lockout
      BY <2>3, <3>2, EntryFields, Limits DEF Stale
    <3> HIDE DEF e
    <3> QED BY <1>1, <2>1, <2>2, <3>1, <3>2, <3>3, CountedForgotten
  <2>4. CASE ~(e # None /\ Stale(e))
    <3>1. attempts'[a] = e
      BY <1>1, <2>4
    <3> QED BY <1>1, <2>1, <2>2, <3>1
  <2> QED BY <2>3, <2>4
<1> QED BY <1>2, <1>3 DEF Limited

\* A start forgets everything.
LEMMA StartCounted ==
    ASSUME TypeOK, Limited, Start
    PROVE  LimiterTypes' /\ Limited'
<1>1. attempts' = [a \in Addresses |-> None] /\ wrong' = NoneWrong
  BY DEF Start, NewLimiter
<1>2. Old \in Ages /\ Old >= Lockout /\ Old \in Nat /\ MaxAttempts - 1 \in 1..Remembered
  BY Limits, AgeRange
<1>3. LimiterTypes'
  BY <1>1, <1>2 DEF LimiterTypes, EntryTypes, NoneWrong, Times
<1>4. ASSUME NEW a \in Addresses
      PROVE  Counted(wrong'[a], attempts'[a], Cardinality(InFlight(a)'))
  <2>1. attempts'[a] = None /\ \A k \in 1..Remembered : wrong'[a][k] = Old
    BY <1>1 DEF NoneWrong
  <2>2. Ordered(wrong'[a]) /\ wrong'[a][MaxAttempts - 1] >= Lockout
    BY <1>2, <2>1 DEF Ordered
  <2> QED BY <2>1, <2>2, CountedNoEntry
<1> QED BY <1>3, <1>4 DEF Limited

LEMMA TickCounted ==
    ASSUME TypeOK, Limited, Tick
    PROVE  LimiterTypes' /\ Limited'
<1>1. /\ req' = req
      /\ attempts' = [a \in Addresses |->
             IF attempts[a] = None THEN None
             ELSE [attempts[a] EXCEPT !.first = Older(@), !.locked = Older(@)]]
      /\ wrong' = [a \in Addresses |-> [k \in 1..Remembered |-> Older(wrong[a][k])]]
  BY DEF Tick
<1>2. ASSUME NEW a \in Addresses
      PROVE  /\ Counted(wrong'[a], attempts'[a], Cardinality(InFlight(a)'))
             /\ wrong'[a] \in Times /\ attempts'[a] \in EntryTypes
  <2> DEFINE e == attempts[a]
             w == wrong[a]
             n == Cardinality(InFlight(a))
             v == [k \in 1..Remembered |-> Older(w[k])]
             f == IF e = None THEN None
                  ELSE [e EXCEPT !.first = Older(@), !.locked = Older(@)]
  <2>1. w \in Times /\ e \in EntryTypes /\ n \in Nat /\ Counted(w, e, n)
    BY <1>2, Address, Limits
  <2>2. InFlight(a)' = InFlight(a)
    BY <1>1 DEF InFlight
  <2>3. wrong'[a] = v /\ attempts'[a] = f
    BY <1>1
  <2>4. Cardinality(InFlight(a)') = n
    BY <2>2
  <2> HIDE DEF e, w, n
  <2>5. v \in Times /\ f \in EntryTypes /\ Counted(v, f, n)
    BY <2>1, CountedOlder
  <2> HIDE DEF v, f
  <2> QED BY <2>3, <2>4, <2>5
<1>3. LimiterTypes'
  BY <1>1, <1>2 DEF LimiterTypes
<1> QED BY <1>2, <1>3 DEF Limited

LEMMA LimiterStep ==
    ASSUME TypeOK, Limited, [Next]_vars
    PROVE  LimiterTypes' /\ Limited'
<1>1. ASSUME NEW r \in Requests, NEW a \in Addresses, NEW p \in Passwords, Login(r, a, p)
      PROVE  LimiterTypes' /\ Limited'
  BY <1>1, LoginCounted
<1>2. ASSUME NEW r \in Requests, Fail(r)  PROVE LimiterTypes' /\ Limited'
  BY <1>2, FailCounted
<1>3. ASSUME NEW r \in Requests, Error(r) \/ Enter(r)  PROVE LimiterTypes' /\ Limited'
  <2>1. req[r] # None /\ Over(r) /\ UNCHANGED limiter
    BY <1>3 DEF Error, Enter
  <2>2. \A a \in Addresses : InFlight(a)' \subseteq InFlight(a)
    <3>1. \A a \in Addresses :
             InFlight(a)' = IF req[r].addr = a THEN InFlight(a) \ {r} ELSE InFlight(a)
      BY <2>1, OverEndsOne
    <3> QED BY <3>1
  <2> QED BY <2>1, <2>2, NoneCounted
<1>4. ASSUME NEW r \in Requests, Verify(r)  PROVE LimiterTypes' /\ Limited'
  <2>1. /\ req' = [req EXCEPT ![r].is = Verified(req[r].pass)] /\ req[r] # None /\ UNCHANGED limiter
        /\ req[r] \in Inflight
    BY <1>4 DEF Verify, TypeOK
  <2>2. \A q \in Requests : q # r => req'[q] = req[q]
    BY <2>1 DEF TypeOK
  <2>3. req'[r].addr = req[r].addr
    BY <2>1 DEF TypeOK, Inflight
  <2>4. \A a \in Addresses : InFlight(a)' \subseteq InFlight(a)
    BY <2>1, <2>2, <2>3 DEF InFlight
  <2> QED BY <2>1, <2>4, NoneCounted
<1>5. CASE Exit
  <2>1. UNCHANGED limiter /\ req' = [r \in Requests |-> None]
    BY <1>5 DEF Exit
  <2>2. \A a \in Addresses : InFlight(a)' \subseteq InFlight(a)
    BY <2>1 DEF InFlight
  <2> QED BY <2>1, <2>2, NoneCounted
<1>6. CASE UNCHANGED <<limiter, req>>
  <2>1. \A a \in Addresses : InFlight(a)' \subseteq InFlight(a)
    BY <1>6 DEF InFlight
  <2> QED BY <1>6, <2>1, NoneCounted
<1> QED
  BY <1>1, <1>2, <1>3, <1>4, <1>5, <1>6, CleanupCounted, StartCounted, TickCounted
  DEF Next, Logout, Stop, BotRead, BotSave, Passwd, vars, limiter

\* The rest of the variables.
SessionTypes ==
    /\ req \in [Requests -> Inflight \cup {None}]
    /\ shadow \in Hashes /\ up \in {"up", "stopping", "down"}
    /\ secret \in Keys \cup {None} /\ stored \in Keys \cup {None}
    /\ botCopy \in Keys \cup {None, NotRead}
    /\ cookie \in [key : Keys \cup {None}, age : 0..(Lifetime - 1)] \cup {None}
    /\ starts \in 0..MaxStarts /\ kept \in BOOLEAN

LEMMA TypeParts == TypeOK <=> LimiterTypes /\ SessionTypes
BY DEF TypeOK, LimiterTypes, SessionTypes, Times, EntryTypes

LEMMA SessionStep ==
    ASSUME SessionTypes, Session, [Next]_vars
    PROVE  SessionTypes' /\ Session'
<1> USE DEF session
<1>0. None \notin Keys /\ MaxStarts \in Nat /\ Lifetime \in Nat /\ Lifetime >= 1
  BY Limits, NoneAssumption DEF Keys
<1>1. ASSUME NEW r \in Requests, NEW a \in Addresses, NEW p \in Passwords, Login(r, a, p)
      PROVE  SessionTypes' /\ Session'
  <2>1. [addr |-> a, pass |-> p, is |-> None] \in Inflight
    BY DEF Inflight
  <2>2. req' \in [Requests -> Inflight \cup {None}]
    BY <1>1, <2>1 DEF Login, SessionTypes
  <2> QED BY <1>1, <2>2 DEF Login, SessionTypes, Session
<1>2. ASSUME NEW r \in Requests, Verify(r)  PROVE SessionTypes' /\ Session'
  <2>1. req[r] \in Inflight /\ Verified(req[r].pass) \in Outcome \cup {None}
    BY <1>2 DEF Verify, Verified, Outcome, SessionTypes
  <2>2. [req[r] EXCEPT !.is = Verified(req[r].pass)] \in Inflight
    BY <2>1 DEF Inflight
  <2>3. req' \in [Requests -> Inflight \cup {None}]
    BY <1>2, <2>2 DEF Verify, SessionTypes
  <2> QED BY <1>2, <2>3 DEF Verify, SessionTypes, Session
<1>3. ASSUME NEW r \in Requests, Over(r)  PROVE req' \in [Requests -> Inflight \cup {None}]
  BY <1>3 DEF Over, SessionTypes
<1>4. ASSUME NEW r \in Requests, Fail(r) \/ Error(r)  PROVE SessionTypes' /\ Session'
  BY <1>3, <1>4 DEF Fail, Error, SessionTypes, Session
<1>5. ASSUME NEW r \in Requests, Enter(r)  PROVE SessionTypes' /\ Session'
  <2>1. Token \in [key : Keys \cup {None}, age : 0..(Lifetime - 1)] /\ Token.key = secret
    BY <1>0 DEF Token, SessionTypes
  <2> QED BY <1>3, <1>5, <2>1 DEF Enter, SessionTypes, Session
<1>6. CASE Start
  <2>1. starts + 1 \in Keys /\ starts' \in 0..MaxStarts
    BY <1>0, <1>6 DEF Start, SessionTypes, Keys
  <2>2. CASE Generates
    BY <1>0, <1>6, <2>1, <2>2 DEF Start, Generates, SessionTypes, Session
  <2>3. CASE ~Generates
    BY <1>0, <1>6, <2>1, <2>3 DEF Start, Generates, SessionTypes, Session
  <2> QED BY <2>2, <2>3
<1>7. CASE Exit
  BY <1>7 DEF Exit, SessionTypes, Session
<1>8. CASE BotSave
  BY <1>8 DEF BotSave, SessionTypes, Session
<1>9. CASE Tick
  <2>1. /\ UNCHANGED <<req, shadow, up, secret, stored, botCopy, kept, starts>>
        /\ cookie' = IF cookie = None \/ cookie.age + 1 >= Lifetime THEN None
                     ELSE [cookie EXCEPT !.age = @ + 1]
    BY <1>9 DEF Tick
  <2>2. CASE cookie = None \/ cookie.age + 1 >= Lifetime
    BY <2>1, <2>2 DEF SessionTypes, Session
  <2>3. CASE ~(cookie = None \/ cookie.age + 1 >= Lifetime)
    <3>1. /\ cookie \in [key : Keys \cup {None}, age : 0..(Lifetime - 1)]
          /\ cookie' = [cookie EXCEPT !.age = @ + 1] /\ cookie # None
      BY <2>1, <2>3 DEF SessionTypes
    <3>2. cookie.age + 1 \in 0..(Lifetime - 1)
      BY <1>0, <2>3, <3>1
    <3>3. /\ cookie' \in [key : Keys \cup {None}, age : 0..(Lifetime - 1)]
          /\ cookie'.key = cookie.key
      BY <3>1, <3>2
    <3> QED BY <2>1, <3>1, <3>3 DEF SessionTypes, Session
  <2> QED BY <2>2, <2>3
<1>10. CASE Logout \/ Cleanup \/ Stop \/ BotRead \/ Passwd \/ UNCHANGED vars
  BY <1>10 DEF Logout, Cleanup, Stop, BotRead, Passwd, vars, SessionTypes, Session
<1> QED
  BY <1>1, <1>2, <1>4, <1>5, <1>6, <1>7, <1>8, <1>9, <1>10 DEF Next

-----------------------------------------------------------------------------
(* The theorems.                                                            *)

Inv == TypeOK /\ Limited /\ Session

LEMMA InvInit == Init => Inv
BY TypeInit, LimitedInit DEF Inv, Session, Init

LEMMA InvStep == Inv /\ [Next]_vars => Inv'
<1> SUFFICES ASSUME Inv, [Next]_vars PROVE Inv'
  OBVIOUS
<1>1. LimiterTypes /\ SessionTypes
  BY TypeParts DEF Inv
<1>2. LimiterTypes' /\ Limited'
  BY LimiterStep DEF Inv
<1>3. SessionTypes' /\ Session'
  BY <1>1, SessionStep DEF Inv
<1>4. TypeOK'
  BY <1>2, <1>3 DEF TypeOK, LimiterTypes, SessionTypes, Times, EntryTypes
<1> QED BY <1>2, <1>3, <1>4 DEF Inv

LEMMA AlwaysInv == Spec => []Inv
<1>1. Init => Inv
  BY InvInit
<1>2. Inv /\ [Next]_vars => Inv'
  BY InvStep
<1> QED BY <1>1, <1>2, PTL DEF Spec

\* Every variable keeps its type.  The bound on the count of an entry, which the logins
\* in flight can raise above the limit, is the part that needs the whole invariant.
THEOREM TypeCorrect == Spec => []TypeOK
<1>1. Inv => TypeOK
  BY DEF Inv
<1> QED BY <1>1, AlwaysInv, PTL

\* An address is locked out only for as many wrong passwords of its own, within one
\* window before the lock, as the limit says: record and allow of the limiter, for any
\* number of logins running at once.
THEOREM LockoutIsDue == Spec => []NoUndueLockout
<1>1. Inv => NoUndueLockout
  <2> SUFFICES ASSUME Inv, NEW a \in Addresses, attempts[a] # None, attempts[a].locked # None
               PROVE  Cardinality({k \in 1..Remembered :
                         /\ attempts[a].locked <= wrong[a][k]
                         /\ wrong[a][k] <= attempts[a].locked + Window}) >= MaxAttempts
    BY DEF NoUndueLockout
  <2>1. /\ wrong[a] \in Times /\ attempts[a] \in Entries
        /\ Cardinality(InFlight(a)) \in Nat
        /\ Counted(wrong[a], attempts[a], Cardinality(InFlight(a)))
    BY Address, Limits DEF Inv, EntryTypes
  <2> QED BY <2>1, CountedDue
<1> QED BY <1>1, AlwaysInv, PTL

\* However many logins are in flight, an address gets at most MostWrong wrong passwords
\* in the time a lockout lasts.
THEOREM LoginsAreThrottled == Spec => []Throttled
<1>1. Inv => Throttled
  <2> SUFFICES ASSUME Inv, NEW a \in Addresses
               PROVE  Cardinality({k \in 1..Remembered : wrong[a][k] < Lockout}) <= MostWrong
    BY DEF Throttled
  <2>1. /\ wrong[a] \in Times /\ attempts[a] \in EntryTypes
        /\ Cardinality(InFlight(a)) \in Nat
        /\ Counted(wrong[a], attempts[a], Cardinality(InFlight(a)))
    BY Address, Limits DEF Inv
  <2> QED BY <2>1, CountedThrottled
<1> QED BY <1>1, AlwaysInv, PTL

\* A login outlives restarts of the web UI while its secret is the one in the file.
THEOREM LoginLasts == Spec => []StaysLoggedIn
<1>1. Inv => StaysLoggedIn
  <2> SUFFICES ASSUME Inv, up = "up", cookie # None, kept  PROVE Authorized
    BY DEF StaysLoggedIn
  <2>1. cookie.key = secret
    BY DEF Inv, Session
  <2>2. cookie.age < Lifetime
    BY Limits DEF Inv, TypeOK
  <2> QED BY <2>1, <2>2 DEF Authorized, Valid
<1> QED BY <1>1, AlwaysInv, PTL
=============================================================================
