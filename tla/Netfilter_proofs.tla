--------------------------- MODULE Netfilter_proofs ---------------------------
(* What the rule operations of Netfilter do to any chain: where they look,  *)
(* which rules they keep, and that the result is a chain of the same rules. *)
EXTENDS Netfilter, FiniteSets, SequenceTheorems, FiniteSetTheorems,
        WellFoundedInduction, TLAPS

\* A non-empty set of positions has a least element, and Min is it: the initial
\* intervals 1..k are well-founded under strict inclusion.
LEMMA MinInSet ==
    ASSUME NEW N \in Nat, NEW S \in SUBSET (1..N), S # {}
    PROVE  Min(S) \in S /\ \A y \in S : Min(S) <= y
<1> DEFINE F == {1..k : k \in S}
<1>1. IsFiniteSet(1..N)
  BY FS_Interval
<1>2. IsWellFoundedOn(StrictSubsetOrdering(1..N), SUBSET (1..N))
  BY <1>1, FS_StrictSubsetOrderingWellFounded, FS_FiniteSubsetsOfFinite
<1>3. F \subseteq SUBSET (1..N)
  <2>1. ASSUME NEW k \in S PROVE 1..k \subseteq 1..N
    <3>1. k \in Int /\ k <= N
      OBVIOUS
    <3> QED BY <3>1
  <2> QED BY <2>1, Zenon
<1>4. F # {}
  BY Zenon
<1>5. \E x \in F : \A y \in F : <<y, x>> \notin StrictSubsetOrdering(1..N)
  <2> HIDE DEF F
  <2> QED BY <1>2, <1>3, <1>4, WFMin
<1>6. PICK x \in S : \A y \in F : <<y, 1..x>> \notin StrictSubsetOrdering(1..N)
  BY <1>5, Zenon
<1>7. ASSUME NEW y \in S PROVE x <= y
  <2>1. SUFFICES ASSUME y < x PROVE FALSE
    OBVIOUS
  <2>2. 1..y \subseteq 1..x /\ x \in 1..x /\ x \notin 1..y
    BY <2>1
  <2>3. <<1..y, 1..x>> \in StrictSubsetOrdering(1..N)
    <3>1. 1..y \in SUBSET (1..N) /\ 1..x \in SUBSET (1..N)
      BY <1>3, Zenon
    <3>2. 1..y # 1..x
      BY <2>2, Zenon
    <3> QED BY <3>1, <3>2, <2>2 DEF StrictSubsetOrdering
  <2>4. <<1..y, 1..x>> \notin StrictSubsetOrdering(1..N)
    BY <1>6, Zenon
  <2> QED BY <2>3, <2>4, Zenon
<1> QED
  <2>1. \E z \in S : \A y \in S : z <= y
    BY <1>7, Zenon
  <2> QED BY <2>1 DEF Min

\* A non-empty set of positions has a greatest element, and Max is it.
LEMMA MaxInSet ==
    ASSUME NEW N \in Nat, NEW S \in SUBSET (1..N), S # {}
    PROVE  Max(S) \in S /\ \A y \in S : Max(S) >= y
<1> DEFINE T == {i \in 1..N : N + 1 - i \in S}
<1>1. T # {}
  <2>1. PICK i \in S : TRUE
    OBVIOUS
  <2>2. N + 1 - i \in T
    BY <2>1
  <2> QED BY <2>2
<1>2. PICK t \in T : \A y \in T : t <= y
  <2> HIDE DEF T
  <2>1. T \in SUBSET (1..N)
    BY DEF T
  <2> QED BY <1>1, <2>1, MinInSet
<1>3. \A y \in S : N + 1 - t >= y
  <2>1. ASSUME NEW y \in S PROVE N + 1 - t >= y
    <3>1. y \in 1..N /\ N + 1 - (N + 1 - y) = y
      OBVIOUS
    <3>2. N + 1 - y \in T
      BY <3>1
    <3>3. t <= N + 1 - y
      BY <1>2, <3>2
    <3> QED BY <3>1, <3>3
  <2> QED BY <2>1
<1>4. \E z \in S : \A y \in S : z >= y
  BY <1>3
<1> QED BY <1>4 DEF Max

\* PositionOf finds a rule that is there, the first one of its kind.
LEMMA PositionOfRule ==
    ASSUME NEW S, NEW c \in Seq(S), NEW r, HasRule(c, r)
    PROVE  /\ PositionOf(c, r) \in 1..Len(c) /\ c[PositionOf(c, r)] = r
           /\ \A n \in 1..Len(c) : c[n] = r => PositionOf(c, r) <= n
<1> DEFINE I == {i \in 1..Len(c) : c[i] = r}
<1>1. Len(c) \in Nat /\ I \in SUBSET (1..Len(c)) /\ I # {}
  BY DEF HasRule
<1>2. PositionOf(c, r) = Min(I)
  BY <1>1 DEF PositionOf, SelectInSeq
<1>3. Min(I) \in I /\ \A y \in I : Min(I) <= y
  <2> HIDE DEF I
  <2> QED BY <1>1, MinInSet
<1> QED BY <1>2, <1>3

\* Deleting a rule leaves a chain of the rules that were there.
LEMMA DeleteRuleKeeps ==
    ASSUME NEW S, NEW c \in Seq(S), NEW r
    PROVE  /\ DeleteRule(c, r) \in Seq(S)
           /\ \A q : HasRule(DeleteRule(c, r), q) => HasRule(c, q)
<1>1. CASE ~HasRule(c, r)
  BY <1>1 DEF DeleteRule
<1>2. CASE HasRule(c, r)
  <2> DEFINE p == PositionOf(c, r)
             a == SubSeq(c, 1, p - 1)
             b == SubSeq(c, p + 1, Len(c))
  <2>1. p \in 1..Len(c) /\ Len(c) \in Nat
    BY <1>2, PositionOfRule
  <2>2. DeleteRule(c, r) = a \o b
    BY <1>2 DEF DeleteRule, RemoveAt
  <2> HIDE DEF p
  <2>3. /\ a \in Seq(S) /\ Len(a) = p - 1
        /\ \A i \in 1..(p - 1) : a[i] = c[i]
    <3>1. \A i \in 1..(p - 1) : c[i] \in S
      BY <2>1, ElementOfSeq
    <3> QED BY <2>1, <3>1, SubSeqProperties, SMT
  <2>4. /\ b \in Seq(S) /\ Len(b) = Len(c) - p
        /\ \A i \in 1..(Len(c) - p) : b[i] = c[p + i]
    <3>1. \A i \in (p + 1)..Len(c) : c[i] \in S
      BY <2>1, ElementOfSeq
    <3> QED BY <2>1, <3>1, SubSeqProperties, SMT
  <2> HIDE DEF a, b
  <2>5. /\ a \o b \in Seq(S) /\ Len(a \o b) = Len(c) - 1
        /\ \A i \in 1..(Len(c) - 1) :
              (a \o b)[i] = IF i <= p - 1 THEN a[i] ELSE b[i - (p - 1)]
    <3>1. /\ a \o b \in Seq(S) /\ Len(a \o b) = Len(a) + Len(b)
          /\ \A i \in 1..(Len(a) + Len(b)) :
                (a \o b)[i] = IF i <= Len(a) THEN a[i] ELSE b[i - Len(a)]
      BY <2>3, <2>4, ConcatProperties
    <3>2. Len(a) + Len(b) = Len(c) - 1
      BY <2>1, <2>3, <2>4
    <3> QED BY <2>3, <3>1, <3>2
  <2>6. \A i \in 1..(Len(c) - 1) : (a \o b)[i] = c[IF i <= p - 1 THEN i ELSE i + 1]
    <3>1. ASSUME NEW i \in 1..(Len(c) - 1), i <= p - 1
          PROVE  (a \o b)[i] = c[i]
      BY <2>1, <2>3, <2>5, <3>1
    <3>2. ASSUME NEW i \in 1..(Len(c) - 1), ~(i <= p - 1)
          PROVE  (a \o b)[i] = c[i + 1]
      <4>1. i - (p - 1) \in 1..(Len(c) - p) /\ p + (i - (p - 1)) = i + 1
        BY <2>1, <3>2
      <4> QED BY <2>4, <2>5, <3>2, <4>1
    <3> QED BY <3>1, <3>2
  <2>7. \A q : HasRule(a \o b, q) => HasRule(c, q)
    <3>1. ASSUME NEW q, NEW i \in 1..(Len(c) - 1), (a \o b)[i] = q
          PROVE  HasRule(c, q)
      <4>1. (IF i <= p - 1 THEN i ELSE i + 1) \in 1..Len(c)
        BY <2>1
      <4> QED BY <2>6, <3>1, <4>1 DEF HasRule
    <3> QED BY <2>5, <3>1 DEF HasRule
  <2> QED BY <2>2, <2>5, <2>7
<1> QED BY <1>1, <1>2

\* An insertion, done or refused, adds at most the inserted rule.
LEMMA InsertRuleAdds ==
    ASSUME NEW S, NEW c \in Seq(S), NEW r \in S, NEW pos \in Nat
    PROVE  /\ InsertRule(c, pos, r) \in Seq(S)
           /\ \A q : HasRule(InsertRule(c, pos, r), q) => q = r \/ HasRule(c, q)
<1>1. CASE ~CanInsert(c, pos)
  BY <1>1 DEF InsertRule
<1>2. CASE CanInsert(c, pos)
  <2> DEFINE a == SubSeq(c, 1, pos - 1)
             b == SubSeq(c, pos, Len(c))
  <2>1. pos \in 1..(Len(c) + 1) /\ Len(c) \in Nat
    BY <1>2 DEF CanInsert
  <2>2. a \in Seq(S) /\ \A i \in 1..Len(a) : HasRule(c, a[i])
    <3>1. \A i \in 1..(pos - 1) : c[i] \in S
      BY <2>1, ElementOfSeq
    <3>2. a \in Seq(S) /\ Len(a) = pos - 1 /\ \A i \in 1..(pos - 1) : a[i] = c[i]
      BY <2>1, <3>1, SubSeqProperties, SMT
    <3> QED BY <2>1, <3>2 DEF HasRule
  <2>3. b \in Seq(S) /\ \A i \in 1..Len(b) : HasRule(c, b[i])
    <3>1. \A i \in pos..Len(c) : c[i] \in S
      BY <2>1, ElementOfSeq
    <3>2. /\ b \in Seq(S) /\ Len(b) = Len(c) - pos + 1
          /\ \A i \in 1..(Len(c) - pos + 1) : b[i] = c[pos + i - 1]
      BY <2>1, <3>1, SubSeqProperties, SMT
    <3> HIDE DEF b
    <3>3. ASSUME NEW i \in 1..Len(b) PROVE HasRule(c, b[i])
      <4>1. pos + i - 1 \in 1..Len(c) /\ b[i] = c[pos + i - 1]
        BY <2>1, <3>2
      <4> QED BY <4>1 DEF HasRule
    <3> QED BY <3>2, <3>3
  <2>4. InsertRule(c, pos, r) = a \o <<r>> \o b
    BY <1>2 DEF InsertRule, InsertAt
  <2> HIDE DEF a, b
  <2>5. <<r>> \in Seq(S) /\ Len(<<r>>) = 1 /\ <<r>>[1] = r
    OBVIOUS
  <2>6. a \o <<r>> \in Seq(S) /\ \A i \in 1..Len(a \o <<r>>) :
            (a \o <<r>>)[i] = r \/ HasRule(c, (a \o <<r>>)[i])
    BY <2>2, <2>5, ConcatProperties
  <2> DEFINE d == a \o <<r>>
  <2>7. d \in Seq(S) /\ \A i \in 1..Len(d) : d[i] = r \/ HasRule(c, d[i])
    BY <2>6
  <2> HIDE DEF d
  <2>8. d \o b \in Seq(S) /\ \A i \in 1..Len(d \o b) :
            (d \o b)[i] = r \/ HasRule(c, (d \o b)[i])
    BY <2>3, <2>7, ConcatProperties
  <2>9. InsertRule(c, pos, r) = d \o b
    BY <2>4 DEF d
  <2> QED BY <2>8, <2>9 DEF HasRule
<1> QED BY <1>1, <1>2

\* An appended rule is the last one; one already there changes nothing.
LEMMA EnsureRuleAppends ==
    ASSUME NEW S, NEW c \in Seq(S), NEW r \in S
    PROVE  EnsureRule(c, r) \in Seq(S)
BY DEF EnsureRule

\* Nothing that was there is lost, and the rule is there.
LEMMA EnsureRuleHas ==
    ASSUME NEW S, NEW ch \in Seq(S), NEW r \in S
    PROVE  \A q : HasRule(ch, q) \/ q = r => HasRule(EnsureRule(ch, r), q)
<1> DEFINE d == Append(ch, r)
<1>1. /\ Len(ch) \in Nat /\ Len(d) = Len(ch) + 1 /\ d[Len(ch) + 1] = r
      /\ \A i \in 1..Len(ch) : d[i] = ch[i]
  OBVIOUS
<1>2. ASSUME NEW q, HasRule(ch, q) PROVE HasRule(d, q)
  <2> HIDE DEF d
  <2> QED BY <1>1, <1>2 DEF HasRule
<1>3. HasRule(d, r)
  <2> HIDE DEF d
  <2>1. Len(ch) + 1 \in 1..Len(d)
    BY <1>1
  <2> QED BY <1>1, <2>1, Zenon DEF HasRule
<1> QED BY <1>2, <1>3 DEF EnsureRule

\* The position for the jump is one iptables accepts at the time it is read.
LEMMA BasePosIsPosition ==
    ASSUME NEW S, NEW c \in Seq(S)
    PROVE  BasePos(c) \in 1..(Len(c) + 1)
<1> DEFINE I == {i \in 1..Len(c) : c[i] = SysMark}
<1>1. Len(c) \in Nat /\ I \in SUBSET (1..Len(c))
  OBVIOUS
<1>2. BasePos(c) = (IF I # {} THEN Max(I) ELSE 0) + 1
  BY DEF BasePos, SelectLastInSeq
<1>3. I # {} => Max(I) \in I
  <2> HIDE DEF I
  <2> QED BY <1>1, MaxInSet
<1> QED BY <1>1, <1>2, <1>3

\* Inserting at the first place puts the rule in front.
LEMMA InsertRuleFirst ==
    ASSUME NEW S, NEW c \in Seq(S), NEW r \in S
    PROVE  InsertRule(c, 1, r) = <<r>> \o c
<1>1. Len(c) \in Nat
  OBVIOUS
<1>2. InsertRule(c, 1, r) = SubSeq(c, 1, 0) \o <<r>> \o SubSeq(c, 1, Len(c))
  BY <1>1 DEF InsertRule, InsertAt, CanInsert
<1>3. SubSeq(c, 1, 0) = <<>> /\ SubSeq(c, 1, Len(c)) = c
  BY SubSeqEmpty, SubSeqFull
<1>4. <<r>> \in Seq(S)
  OBVIOUS
<1> QED BY <1>2, <1>3, <1>4, ConcatEmptySeq

\* Deleting a jump from the chains PREROUTING can be.
LEMMA DeletedJump ==
    /\ \A r : DeleteRule(<<>>, r) = <<>>
    /\ \A j \in {TunJump, XrayJump} : DeleteRule(<<j>>, j) = <<>>
    /\ \A j, k \in {TunJump, XrayJump} : j # k =>
          /\ DeleteRule(<<k>>, j) = <<k>>
          /\ DeleteRule(<<j, k>>, j) = <<k>>
          /\ DeleteRule(<<k, j>>, j) = <<k>>
<1>1. ASSUME NEW r PROVE DeleteRule(<<>>, r) = <<>>
  BY DEF DeleteRule, HasRule
<1>2. ASSUME NEW j \in {TunJump, XrayJump}, NEW c \in Seq({TunJump, XrayJump}), HasRule(c, j)
      PROVE  /\ PositionOf(c, j) \in 1..Len(c) /\ c[PositionOf(c, j)] = j
             /\ DeleteRule(c, j) = SubSeq(c, 1, PositionOf(c, j) - 1) \o SubSeq(c, PositionOf(c, j) + 1, Len(c))
  BY <1>2, PositionOfRule DEF DeleteRule, RemoveAt
<1>3. ASSUME NEW j \in {TunJump, XrayJump} PROVE DeleteRule(<<j>>, j) = <<>>
  <2>1. HasRule(<<j>>, j)
    BY DEF HasRule
  <2>3. <<j>> \in Seq({TunJump, XrayJump})
    OBVIOUS
  <2>2. PositionOf(<<j>>, j) = 1
    <3>1. PositionOf(<<j>>, j) \in 1..Len(<<j>>)
      BY <2>1, <2>3, <1>2, Zenon
    <3> QED BY <3>1
  <2>4. DeleteRule(<<j>>, j) = SubSeq(<<j>>, 1, 1 - 1) \o SubSeq(<<j>>, 1 + 1, Len(<<j>>))
    BY <1>2, <2>1, <2>2, <2>3
  <2> QED BY <2>4
<1>4. ASSUME NEW j \in {TunJump, XrayJump}, NEW k \in {TunJump, XrayJump}, j # k
      PROVE  /\ DeleteRule(<<k>>, j) = <<k>>
             /\ DeleteRule(<<j, k>>, j) = <<k>>
             /\ DeleteRule(<<k, j>>, j) = <<k>>
  <2>1. ~HasRule(<<k>>, j)
    BY <1>4 DEF HasRule
  <2>2. HasRule(<<j, k>>, j) /\ HasRule(<<k, j>>, j)
    BY DEF HasRule
  <2>3. <<j, k>> \in Seq({TunJump, XrayJump}) /\ <<k, j>> \in Seq({TunJump, XrayJump})
    OBVIOUS
  <2>4. PositionOf(<<j, k>>, j) = 1 /\ PositionOf(<<k, j>>, j) = 2
    <3>1. /\ PositionOf(<<j, k>>, j) \in 1..Len(<<j, k>>) /\ <<j, k>>[PositionOf(<<j, k>>, j)] = j
          /\ PositionOf(<<k, j>>, j) \in 1..Len(<<k, j>>) /\ <<k, j>>[PositionOf(<<k, j>>, j)] = j
      BY <1>2, <2>2, <2>3, Zenon
    <3> QED BY <3>1, <1>4
  <2>5. DeleteRule(<<j, k>>, j) = <<k>>
    <3>1. DeleteRule(<<j, k>>, j) = SubSeq(<<j, k>>, 1, 1 - 1) \o SubSeq(<<j, k>>, 1 + 1, Len(<<j, k>>))
      BY <1>2, <2>2, <2>3, <2>4
    <3> QED BY <3>1
  <2>6. DeleteRule(<<k, j>>, j) = <<k>>
    <3>1. DeleteRule(<<k, j>>, j) = SubSeq(<<k, j>>, 1, 2 - 1) \o SubSeq(<<k, j>>, 2 + 1, Len(<<k, j>>))
      BY <1>2, <2>2, <2>3, <2>4
    <3> QED BY <3>1
  <2> QED BY <2>1, <2>5, <2>6 DEF DeleteRule
<1> QED BY <1>1, <1>3, <1>4

\* PREROUTING as the tool leaves it: each jump at most once.
JumpChains == {<<>>, <<TunJump>>, <<XrayJump>>, <<TunJump, XrayJump>>, <<XrayJump, TunJump>>}
=============================================================================
