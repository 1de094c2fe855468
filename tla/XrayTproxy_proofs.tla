-------------------------- MODULE XrayTproxy_proofs --------------------------
(* For every set of hosts, destinations and configurations: whom the rules  *)
(* proxy while they are rebuilt and once they are complete, with any number *)
(* of calls failing on their own, that what they mark is routed to the      *)
(* proxy, and that a stop that ran to its end removes everything.           *)
EXTENDS XrayTproxy, Netfilter_proofs

-----------------------------------------------------------------------------
(* The invariant.                                                           *)

\* The rules that come before a proxy rule.
Skips(c) == {NotClient, Bypassed, Local} \cup {SetRule(s) : s \in ToSet(c.sets)}
Proxies  == {ProxyRule(t) : t \in Protocols}

\* _tproxy_setup_iptables and after.
ChainLabels == {"addRule", "sync", "purgeOld", "insertJump", "end"}
Done == outcome = "applied"
AtWork == pc # "idle" => outcome = "none"

\* The ipsets hold what has been read of the lists so far, less what was refused.
Filled ==
    /\ failures = 0 => refused = [clients |-> {}, bypass |-> {}]
    /\ clientSet # NoIpset => clientSet \subseteq ToSet(filled.clients)
    /\ pc = "addClient" =>
          /\ clientSet # NoIpset /\ filled = cfg /\ clientSet \cap refused.clients = {}
          /\ \A k \in 1..Len(cfg.clients) : k < i => cfg.clients[k] \in clientSet \cup refused.clients
    /\ pc \in {"bypass", "addBypass", "endpoints", "chain"} \cup ChainLabels \/ Done =>
          filled = cfg /\ clientSet = ToSet(cfg.clients) \ refused.clients
    /\ pc = "addBypass" =>
          /\ bypassSet \subseteq ToSet(cfg.bypass) /\ bypassSet \cap refused.bypass = {}
          /\ \A k \in 1..Len(cfg.bypass) : k < i => cfg.bypass[k] \in bypassSet \cup refused.bypass
    /\ pc = "endpoints" => bypassSet = ToSet(cfg.bypass) \ refused.bypass
    /\ pc \in {"chain"} \cup ChainLabels \/ Done =>
          bypassSet = (ToSet(cfg.bypass) \ refused.bypass) \cup endpoints

Content == TypeOK /\ AtWork /\ Filled

\* tproxy_apply: the jump is inserted only once the mark is routed, into a chain
\* that exists, and the kernel keeps a chain that is jumped to.
Installing == {"clients", "addClient", "bypass", "addBypass", "endpoints", "chain"} \cup ChainLabels
Delivery ==
    /\ HasRule(prerouting, XrayJump) => ipRule /\ route /\ chain # NoChain
    /\ pc = "ipRule" => route
    /\ pc \in Installing => ipRule /\ route

\* tproxy_stop: what it has removed stays removed until it has finished.
Removal ==
    /\ pc \in {"destroy", "destroyBypass", "delRule", "delRoute"} => chain = NoChain
    /\ pc \in {"destroyBypass", "delRule", "delRoute"} => clientSet = NoIpset
    /\ pc \in {"delRule", "delRoute"} => bypassSet = NoIpset
    /\ pc = "delRoute" => ~ipRule

Routing == Delivery /\ Removal /\ StopRemovesAll

\* In a chain, however far it has been built and with whatever rules lost, every
\* skip rule that is owed comes before the first proxy rule.
Ranked(ch, owed) ==
    \A n \in 1..Len(ch) : ch[n] \in Proxies =>
        \A q \in (owed \cap ChainRules) \ Proxies : \E m \in 1..(n - 1) : ch[m] = q
Ordered == chain # NoChain => clientSet # NoIpset /\ Ranked(chain, due)

\* What is owed has been appended, as far as the list has been read; a chain that
\* was flushed holds nothing else, and owes everything when no call has failed.
Listed == ToSet(RuleList(cfg))
Complete ==
    /\ pc \in ChainLabels \/ Done => due \subseteq Listed \cup {Jump}
    /\ chain # NoChain /\ pc = "addRule" =>
          \A k \in 1..Len(RuleList(cfg)) :
              k < i /\ RuleList(cfg)[k] \in due => HasRule(chain, RuleList(cfg)[k])
    /\ chain # NoChain /\ (pc \in ChainLabels \ {"addRule"} \/ Done) =>
          \A q \in due \cap ChainRules : HasRule(chain, q)
    /\ flushed /\ chain # NoChain => \A q : HasRule(chain, q) => q \in due
    /\ flushed /\ pc = "addRule" => \A q : HasRule(chain, q) =>
          \E k \in 1..Len(RuleList(cfg)) : k < i /\ RuleList(cfg)[k] = q
    /\ flushed /\ (pc \in ChainLabels \/ Done) => chain # NoChain
    /\ failures = 0 /\ ~reloaded /\ (pc \in ChainLabels \/ Done) =>
          flushed /\ due = Listed \cup {Jump}
    /\ flushed /\ pc \in ChainLabels \ {"end"} => Jump \in due
    /\ flushed /\ (pc = "end" \/ Done) => (Jump \in due <=> HasRule(prerouting, XrayJump))

-----------------------------------------------------------------------------
(* Lemmas about the data.                                                   *)

\* PREROUTING keeps each jump at most once, and the jump of the proxy its rank.
LEMMA JumpChainsKept ==
    ASSUME NEW c \in JumpChains
    PROVE  /\ c \in Seq(PreroutingRules) /\ DeleteRule(c, XrayJump) \in JumpChains
           /\ ~HasRule(c, XrayJump) => InsertRule(c, 1, XrayJump) \in JumpChains
           /\ HasRule(InsertRule(c, 1, XrayJump), XrayJump)
           /\ ~HasRule(c, TunJump) => InsertRule(c, 1, TunJump) \in JumpChains
           /\ HasRule(c, XrayJump) <=> HasRule(InsertRule(c, 1, TunJump), XrayJump)
           /\ HasRule(DeleteRule(c, XrayJump), XrayJump) => HasRule(c, XrayJump)
<1>1. /\ TunJump # XrayJump /\ {TunJump, XrayJump} \subseteq PreroutingRules
      /\ {TunJump, XrayJump} = {XrayJump, TunJump}
  BY DEF TunJump, XrayJump, PreroutingRules
<1>2. c \in Seq(PreroutingRules)
  <2>1. \A j, k \in PreroutingRules : /\ <<>> \in Seq(PreroutingRules)
                                     /\ <<j>> \in Seq(PreroutingRules)
                                     /\ <<j, k>> \in Seq(PreroutingRules)
    OBVIOUS
  <2> QED BY <1>1, <2>1 DEF JumpChains
<1>3. DeleteRule(c, XrayJump) \in JumpChains
  BY <1>1, DeletedJump DEF JumpChains
<1>4. \A r \in {TunJump, XrayJump} : InsertRule(c, 1, r) = <<r>> \o c
  BY <1>1, <1>2, InsertRuleFirst
<1>5. \A r \in {TunJump, XrayJump} : \A q : HasRule(c, q) \/ q = r => HasRule(<<r>> \o c, q)
  <2> SUFFICES ASSUME NEW r \in {TunJump, XrayJump}, NEW q, HasRule(c, q) \/ q = r
               PROVE  HasRule(<<r>> \o c, q)
    OBVIOUS
  <2>1. <<r>> \in Seq(PreroutingRules) /\ Len(<<r>>) = 1 /\ <<r>>[1] = r
    BY <1>1
  <2>2. /\ Len(<<r>> \o c) = 1 + Len(c) /\ Len(c) \in Nat /\ (<<r>> \o c)[1] = r
        /\ \A n \in 1..Len(c) : (<<r>> \o c)[n + 1] = c[n]
    BY <1>2, <2>1, ConcatProperties
  <2> DEFINE d == <<r>> \o c
  <2> HIDE DEF d
  <2>3. CASE q = r
    <3>1. 1 \in 1..Len(d) /\ d[1] = q
      BY <2>2, <2>3 DEF d
    <3> QED BY <3>1 DEF HasRule, d
  <2>4. CASE HasRule(c, q)
    <3>1. PICK n \in 1..Len(c) : c[n] = q
      BY <2>4 DEF HasRule
    <3>2. n + 1 \in 1..Len(d) /\ d[n + 1] = q
      BY <2>2, <3>1 DEF d
    <3> QED BY <3>2 DEF HasRule, d
  <2> QED BY <2>3, <2>4
<1>6. ASSUME NEW r \in {TunJump, XrayJump}, ~HasRule(c, r) PROVE <<r>> \o c \in JumpChains
  <2>1. PICK k \in {TunJump, XrayJump} : k # r
    BY <1>1
  <2>2. HasRule(<<r>>, r) /\ HasRule(<<r, k>>, r) /\ HasRule(<<k, r>>, r)
    <3>1. <<r>>[1] = r /\ <<r, k>>[1] = r /\ <<k, r>>[2] = r
      OBVIOUS
    <3>2. 1 \in 1..Len(<<r>>) /\ 1 \in 1..Len(<<r, k>>) /\ 2 \in 1..Len(<<k, r>>)
      OBVIOUS
    <3> QED BY <3>1, <3>2, Zenon DEF HasRule
  <2>3. c = <<>> \/ c = <<k>>
    BY <1>1, <1>6, <2>1, <2>2 DEF JumpChains
  <2>4. <<r>> \o <<>> = <<r>> /\ <<r>> \o <<k>> = <<r, k>>
    <3> DEFINE S == {r, k}
    <3>1. <<r>> \in Seq(S) /\ <<k>> \in Seq(S) /\ <<r, k>> \in Seq(S)
      OBVIOUS
    <3>2. Len(<<r>>) = 1 /\ Len(<<k>>) = 1 /\ Len(<<r, k>>) = 2 /\ <<r>>[1] = r /\ <<k>>[1] = k
          /\ <<r, k>>[1] = r /\ <<r, k>>[2] = k
      OBVIOUS
    <3>3. /\ <<r>> \o <<k>> \in Seq(S) /\ Len(<<r>> \o <<k>>) = 2
          /\ (<<r>> \o <<k>>)[1] = r /\ (<<r>> \o <<k>>)[2] = k
      BY <3>1, <3>2, ConcatProperties
    <3>4. <<r>> \o <<k>> = <<r, k>>
      <4> DEFINE s == <<r>> \o <<k>>
      <4>1. \A n \in 1..Len(s) : s[n] = <<r, k>>[n]
        BY <3>2, <3>3
      <4>2. s \in Seq(S) /\ Len(s) = Len(<<r, k>>)
        BY <3>2, <3>3
      <4> HIDE DEF s, S
      <4>3. s = <<r, k>>
        BY <3>1, <4>1, <4>2, SeqEqual
      <4> QED BY <4>3 DEF s
    <3> QED BY <3>1, <3>4, ConcatEmptySeq
  <2>5. <<r>> \in JumpChains /\ <<r, k>> \in JumpChains
    BY <1>1, <2>1 DEF JumpChains
  <2> QED BY <2>3, <2>4, <2>5
<1>7. HasRule(InsertRule(c, 1, TunJump), XrayJump) => HasRule(c, XrayJump)
  BY <1>1, <1>2, InsertRuleAdds
<1>8. HasRule(DeleteRule(c, XrayJump), XrayJump) => HasRule(c, XrayJump)
  BY <1>2, DeleteRuleKeeps
<1> QED BY <1>1, <1>2, <1>3, <1>4, <1>5, <1>6, <1>7, <1>8

\* The lists of a configuration.
LEMMA ListsTyped ==
    ASSUME NEW c \in Configs
    PROVE  /\ Len(c.clients) \in Nat /\ ToSet(c.clients) = {c.clients[k] : k \in 1..Len(c.clients)}
           /\ Len(c.bypass) \in Nat /\ ToSet(c.bypass) = {c.bypass[k] : k \in 1..Len(c.bypass)}
           /\ Len(c.sets) \in Nat /\ ToSet(c.sets) = {c.sets[k] : k \in 1..Len(c.sets)}
           /\ ToSet(c.clients) \subseteq Hosts /\ ToSet(c.bypass) \subseteq Dests
           /\ ToSet(c.sets) \subseteq IpSets /\ c.sets \in Seq(IpSets)
<1>1. c.clients \in Seq(Hosts) /\ c.bypass \in Seq(Dests) /\ c.sets \in Seq(IpSets)
  BY ConfigsAssumption DEF Entries
<1>2. ASSUME NEW S, NEW s \in Seq(S)
      PROVE  Len(s) \in Nat /\ ToSet(s) = {s[k] : k \in 1..Len(s)} /\ ToSet(s) \subseteq S
  <2>1. Len(s) \in Nat /\ DOMAIN s = 1..Len(s)
    BY LenProperties
  <2>2. \A k \in 1..Len(s) : s[k] \in S
    BY ElementOfSeq
  <2> QED BY <2>1, <2>2 DEF ToSet
<1> QED BY <1>1, <1>2

\* The rules in the order they are appended: the two proxy rules come last.
LEMMA RuleListIs ==
    ASSUME NEW c \in Configs
    PROVE  LET L == RuleList(c)
               N == Len(c.sets)
           IN  /\ L \in Seq(ChainRules) /\ Len(L) = N + 5 /\ N \in Nat
               /\ L[1] = NotClient /\ L[2] = Bypassed /\ L[3] = Local
               /\ \A k \in 1..N : L[k + 3] = SetRule(c.sets[k])
               /\ L[N + 4] = ProxyRule("tcp") /\ L[N + 5] = ProxyRule("udp")
<1> DEFINE N == Len(c.sets)
           a == << NotClient, Bypassed, Local >>
           b == [n \in 1..N |-> SetRule(c.sets[n])]
           d == << ProxyRule("tcp"), ProxyRule("udp") >>
<1>1. N \in Nat /\ \A k \in 1..N : SetRule(c.sets[k]) \in ChainRules
  <2>1. N \in Nat /\ c.sets \in Seq(IpSets)
    BY ListsTyped
  <2> QED BY <2>1, ElementOfSeq DEF ChainRules
<1>2. b \in Seq(ChainRules) /\ Len(b) = N
  BY <1>1
<1>3. a \in Seq(ChainRules) /\ Len(a) = 3 /\ d \in Seq(ChainRules) /\ Len(d) = 2
  <2>1. NotClient \in ChainRules /\ Bypassed \in ChainRules /\ Local \in ChainRules
        /\ ProxyRule("tcp") \in ChainRules /\ ProxyRule("udp") \in ChainRules
    BY DEF ChainRules, Protocols
  <2> QED BY <2>1
<1>4. RuleList(c) = (a \o b) \o d
  BY DEF RuleList
<1>5. a[1] = NotClient /\ a[2] = Bypassed /\ a[3] = Local /\ d[1] = ProxyRule("tcp") /\ d[2] = ProxyRule("udp")
      /\ \A k \in 1..N : b[k] = SetRule(c.sets[k])
  OBVIOUS
<1> HIDE DEF a, b, d, N
<1> DEFINE e == a \o b
<1>6. /\ e \in Seq(ChainRules) /\ Len(e) = 3 + N
      /\ \A k \in 1..(3 + N) : e[k] = IF k <= 3 THEN a[k] ELSE b[k - 3]
  <2>1. /\ e \in Seq(ChainRules) /\ Len(e) = Len(a) + Len(b)
        /\ \A k \in 1..(Len(a) + Len(b)) : e[k] = IF k <= Len(a) THEN a[k] ELSE b[k - Len(a)]
    BY <1>2, <1>3, ConcatProperties
  <2> HIDE DEF e
  <2> QED BY <2>1, <1>2, <1>3
<1> HIDE DEF e
<1>7. /\ e \o d \in Seq(ChainRules) /\ Len(e \o d) = 3 + N + 2
      /\ \A k \in 1..(3 + N + 2) : (e \o d)[k] = IF k <= 3 + N THEN e[k] ELSE d[k - (3 + N)]
  <2>1. /\ e \o d \in Seq(ChainRules) /\ Len(e \o d) = Len(e) + Len(d)
        /\ \A k \in 1..(Len(e) + Len(d)) : (e \o d)[k] = IF k <= Len(e) THEN e[k] ELSE d[k - Len(e)]
    BY <1>3, <1>6, ConcatProperties
  <2> QED BY <2>1, <1>3, <1>6
<1>8. RuleList(c) = e \o d
  BY <1>4 DEF e
<1> QED BY <1>1, <1>5, <1>6, <1>7, <1>8 DEF N

\* The rules of a configuration are rules of the chain; the jump is none.
LEMMA RulesTyped ==
    ASSUME NEW c \in Configs
    PROVE  LET L == RuleList(c)
           IN  /\ L \in Seq(ChainRules) /\ Len(L) \in Nat /\ Jump \notin ChainRules
               /\ ToSet(L) = {L[k] : k \in 1..Len(L)} /\ ToSet(L) \subseteq ChainRules
<1> DEFINE L == RuleList(c)
<1>1. L \in Seq(ChainRules)
  BY RuleListIs
<1> HIDE DEF L
<1>2. Len(L) \in Nat /\ DOMAIN L = 1..Len(L) /\ \A k \in 1..Len(L) : L[k] \in ChainRules
  BY <1>1, LenProperties, ElementOfSeq
<1>3. Jump \notin ChainRules
  BY DEF Jump, ChainRules, NotClient, Bypassed, Local, SetRule, ProxyRule
<1> QED BY <1>1, <1>2, <1>3 DEF ToSet, L

\* The list of rules: the skip rules of the configuration, then the proxy rules.
LEMMA ListedRules ==
    ASSUME NEW c \in Configs
    PROVE  LET L == RuleList(c)
               N == Len(c.sets)
           IN  /\ L \in Seq(ChainRules) /\ Len(L) = N + 5 /\ N \in Nat
               /\ \A k \in 1..(N + 3) : L[k] \in Skips(c)
               /\ \A k \in (N + 4)..(N + 5) : L[k] \in Proxies
               /\ \A q \in Skips(c) : \E k \in 1..(N + 3) : L[k] = q
               /\ \A t \in Protocols : \E k \in 1..(N + 5) : L[k] = ProxyRule(t)
               /\ Skips(c) \cap Proxies = {}
<1> DEFINE L == RuleList(c)
           N == Len(c.sets)
<1>1. /\ L \in Seq(ChainRules) /\ Len(L) = N + 5 /\ N \in Nat
      /\ L[1] = NotClient /\ L[2] = Bypassed /\ L[3] = Local
      /\ \A k \in 1..N : L[k + 3] = SetRule(c.sets[k])
      /\ L[N + 4] = ProxyRule("tcp") /\ L[N + 5] = ProxyRule("udp")
  BY RuleListIs
<1>2. ToSet(c.sets) = {c.sets[k] : k \in 1..N}
  BY ListsTyped
<1> HIDE DEF L, N
<1>3. ASSUME NEW k \in 1..(N + 3) PROVE L[k] \in Skips(c)
  <2>1. CASE k <= 3
    BY <1>1, <2>1 DEF Skips
  <2>2. CASE k > 3
    <3>1. k - 3 \in 1..N /\ L[(k - 3) + 3] = SetRule(c.sets[k - 3])
      BY <1>1, <2>2
    <3>2. L[k] = SetRule(c.sets[k - 3]) /\ c.sets[k - 3] \in ToSet(c.sets)
      BY <1>1, <1>2, <3>1
    <3> QED BY <3>2 DEF Skips
  <2> QED BY <1>1, <2>1, <2>2
<1>4. ASSUME NEW q \in Skips(c) PROVE \E k \in 1..(N + 3) : L[k] = q
  <2>1. CASE q \in {NotClient, Bypassed, Local}
    BY <1>1, <2>1
  <2>2. CASE q \in {SetRule(s) : s \in ToSet(c.sets)}
    <3>1. PICK k \in 1..N : q = SetRule(c.sets[k])
      BY <1>2, <2>2
    <3>2. k + 3 \in 1..(N + 3) /\ L[k + 3] = q
      BY <1>1, <3>1
    <3> QED BY <3>2
  <2> QED BY <2>1, <2>2 DEF Skips
<1>5. \A k \in (N + 4)..(N + 5) : L[k] \in Proxies
  BY <1>1 DEF Proxies, Protocols
<1>6. \A t \in Protocols : \E k \in 1..(N + 5) : L[k] = ProxyRule(t)
  <2>1. N + 4 \in 1..(N + 5) /\ N + 5 \in 1..(N + 5)
    BY <1>1
  <2> QED BY <1>1, <2>1 DEF Protocols
<1>7. Skips(c) \cap Proxies = {}
  BY DEF Skips, Proxies, NotClient, Bypassed, Local, SetRule, ProxyRule
<1> QED BY <1>1, <1>3, <1>4, <1>5, <1>6, <1>7 DEF L, N

\* An append brings the appended rule, and no other.
LEMMA EnsureRuleOnly ==
    ASSUME NEW ch \in Seq(ChainRules), NEW r \in ChainRules
    PROVE  \A q : HasRule(EnsureRule(ch, r), q) => HasRule(ch, q) \/ q = r
<1> DEFINE d == Append(ch, r)
<1>1. /\ Len(ch) \in Nat /\ Len(d) = Len(ch) + 1 /\ d[Len(ch) + 1] = r
      /\ \A n \in 1..Len(ch) : d[n] = ch[n]
  OBVIOUS
<1>2. ASSUME NEW q, HasRule(d, q) PROVE HasRule(ch, q) \/ q = r
  <2> HIDE DEF d
  <2>1. PICK n \in 1..Len(d) : d[n] = q
    BY <1>2 DEF HasRule
  <2>2. n \in 1..Len(ch) \/ n = Len(ch) + 1
    BY <1>1
  <2> QED BY <1>1, <2>1, <2>2 DEF HasRule
<1> QED BY <1>2 DEF EnsureRule

\* A rule put last comes after all that are there, and moves none.
LEMMA RankedExtends ==
    ASSUME NEW ch \in Seq(ChainRules), NEW r \in ChainRules, NEW owed, NEW more,
           Ranked(ch, owed), more \subseteq owed \cup {r},
           r \in Proxies => \A q \in (more \cap ChainRules) \ Proxies : HasRule(ch, q),
           r \notin Proxies /\ r \in more \ owed => \A n \in 1..Len(ch) : ch[n] \notin Proxies
    PROVE  Ranked(EnsureRule(ch, r), more)
<1> DEFINE d == Append(ch, r)
<1>1. /\ Len(ch) \in Nat /\ Len(d) = Len(ch) + 1 /\ d[Len(ch) + 1] = r
      /\ \A n \in 1..Len(ch) : d[n] = ch[n]
  OBVIOUS
<1>2. ASSUME NEW n \in 1..Len(ch), ch[n] \in Proxies, NEW q \in (more \cap ChainRules) \ Proxies
      PROVE  \E m \in 1..(n - 1) : ch[m] = q
  <2>1. q \in owed
    BY <1>2
  <2> QED BY <1>2, <2>1 DEF Ranked
<1>3. CASE HasRule(ch, r)
  BY <1>2, <1>3 DEF EnsureRule, Ranked
<1>4. CASE ~HasRule(ch, r)
  <2> HIDE DEF d
  <2> SUFFICES ASSUME NEW n \in 1..Len(d), d[n] \in Proxies,
                      NEW q \in (more \cap ChainRules) \ Proxies
               PROVE  \E m \in 1..(n - 1) : d[m] = q
    BY <1>4 DEF EnsureRule, Ranked, d
  <2>1. CASE n <= Len(ch)
    <3>1. n \in 1..Len(ch) /\ d[n] = ch[n] /\ \A m \in 1..(n - 1) : d[m] = ch[m]
      BY <1>1, <2>1
    <3> QED BY <1>2, <3>1
  <2>2. CASE n = Len(ch) + 1
    <3>1. HasRule(ch, q)
      BY <1>1, <2>2
    <3> QED BY <1>1, <2>2, <3>1 DEF HasRule
  <2> QED BY <1>1, <2>1, <2>2
<1> QED BY <1>3, <1>4

\* A chain that owes less is in order all the more.
LEMMA RankedLess ==
    ASSUME NEW ch, NEW owed, NEW less \in SUBSET owed, Ranked(ch, owed)
    PROVE  Ranked(ch, less)
BY DEF Ranked

\* A jump found in place is there.
LEMMA InPlaceHas ==
    ASSUME NEW c, NEW r, InPlace(c, r, 1)
    PROVE  HasRule(c, r)
<1> SUFFICES ASSUME ~HasRule(c, r) PROVE FALSE
  OBVIOUS
<1>1. {n \in 1..Len(c) : c[n] = r} = {}
  BY DEF HasRule
<1> QED BY <1>1 DEF InPlace, PositionOf, SelectInSeq

-----------------------------------------------------------------------------
(* Types, and the content of the ipsets.                                    *)

LEMMA TypesKept ==
    ASSUME Content, [Next]_vars
    PROVE  TypeOK'
<1> USE DEF sets, routing, fw, ghost, Goto, Exit, Stay, Fails
<1> DEFINE T == /\ cfg \in Configs /\ filled \in Configs
                /\ clientSet = NoIpset \/ clientSet \subseteq Hosts
                /\ bypassSet = NoIpset \/ bypassSet \subseteq Dests
                /\ route \in BOOLEAN /\ ipRule \in BOOLEAN
                /\ prerouting \in JumpChains
                /\ chain = NoChain \/ chain \in Seq(ChainRules)
                /\ i \in Nat \ {0}
                /\ due \subseteq ChainRules \cup {Jump} /\ flushed \in BOOLEAN /\ reloaded \in BOOLEAN
                /\ refused \in [clients : SUBSET Hosts, bypass : SUBSET Dests]
                /\ endpoints \subseteq Endpoints /\ failures \in Nat
<1>1. T
  BY DEF Content, TypeOK, JumpChains
<1> SUFFICES T'
  BY DEF TypeOK, JumpChains
<1>2. CASE StartApply \/ StartStop
  <2>1. /\ cfg' \in Configs /\ i' = 1 /\ reloaded' = FALSE /\ failures' = 0 /\ endpoints' = {}
        /\ refused' = [clients |-> {}, bypass |-> {}]
        /\ UNCHANGED <<sets, routing, fw, filled, due, flushed>>
    BY <1>2 DEF StartApply, StartStop, Start
  <2>2. refused' \in [clients : SUBSET Hosts, bypass : SUBSET Dests]
    BY <2>1
  <2>3. due' = due /\ flushed' = flushed /\ endpoints' \subseteq Endpoints /\ reloaded' \in BOOLEAN
    BY <2>1
  <2>4. failures' \in Nat /\ i' \in Nat \ {0}
    BY <2>1
  <2>5. UNCHANGED <<clientSet, bypassSet, route, ipRule, prerouting, chain, filled>>
    BY <2>1
  <2> HIDE DEF sets, routing, fw, ghost
  <2> QED BY <1>1, <2>1, <2>2, <2>3, <2>4, <2>5
<1>3. CASE Check \/ SyncJump \/ Finish \/ Kill \/ UNCHANGED vars
  BY <1>1, <1>3 DEF Check, SyncJump, Finish, Kill, vars
<1>4. CASE SetupRoute \/ SetupRule \/ DelRule \/ DelRoute
  <2>1. route' \in BOOLEAN /\ ipRule' \in BOOLEAN
    BY <1>1, <1>4 DEF SetupRoute, SetupRule, DelRule, DelRoute
  <2>2. i' = 1 /\ UNCHANGED <<sets, fw, cfg, ghost>>
    BY <1>4 DEF SetupRoute, SetupRule, DelRule, DelRoute
  <2> QED BY <1>1, <2>1, <2>2
<1>5. CASE FlushClients \/ FlushBypass \/ DestroyClients \/ DestroyBypass
  BY <1>1, <1>5 DEF FlushClients, FlushBypass, DestroyClients, DestroyBypass, Flushed
<1>6. CASE AddClient
  <2>1. clientSet \subseteq Hosts
    BY <1>1, <1>6 DEF AddClient, Content, Filled
  <2>2. i <= Len(cfg.clients) => cfg.clients[i] \in Hosts
    <3>1. i \in 1..Len(cfg.clients) => cfg.clients[i] \in ToSet(cfg.clients)
      BY <1>1, ListsTyped
    <3> QED BY <1>1, <3>1, ListsTyped
  <2>3. /\ clientSet' \subseteq Hosts /\ failures' \in Nat /\ i' \in Nat \ {0}
        /\ UNCHANGED <<bypassSet, routing, fw, cfg, filled, due, flushed, endpoints, reloaded>>
    BY <1>1, <1>6, <2>1, <2>2 DEF AddClient
  <2>4. refused' \in [clients : SUBSET Hosts, bypass : SUBSET Dests]
    BY <1>1, <1>6, <2>2 DEF AddClient
  <2> QED BY <1>1, <2>3, <2>4
<1>7. CASE AddBypass
  <2>1. bypassSet \subseteq Dests
    BY <1>1, <1>7, ListsTyped DEF AddBypass, Content, Filled
  <2>2. i <= Len(cfg.bypass) => cfg.bypass[i] \in Dests
    <3>1. i \in 1..Len(cfg.bypass) => cfg.bypass[i] \in ToSet(cfg.bypass)
      BY <1>1, ListsTyped
    <3> QED BY <1>1, <3>1, ListsTyped
  <2>3. /\ bypassSet' \subseteq Dests /\ failures' \in Nat /\ i' \in Nat \ {0}
        /\ UNCHANGED <<clientSet, routing, fw, cfg, filled, due, flushed, endpoints, reloaded>>
    BY <1>1, <1>7, <2>1, <2>2 DEF AddBypass
  <2>4. refused' \in [clients : SUBSET Hosts, bypass : SUBSET Dests]
    BY <1>1, <1>7, <2>2 DEF AddBypass
  <2> QED BY <1>1, <2>3, <2>4
<1>8. CASE AddEndpoints
  <2>1. bypassSet \subseteq Dests
    BY <1>1, <1>8, ListsTyped DEF AddEndpoints, Content, Filled
  <2> QED BY <1>1, <1>8, <2>1, LocalAssumption DEF AddEndpoints
<1>9. CASE CreateChain \/ FlushChain \/ DropChain
  <2> DEFINE W == /\ chain' = chain \/ chain' = <<>> \/ chain' = NoChain
                  /\ i' = 1 /\ failures' \in Nat /\ flushed' \in BOOLEAN
                  /\ due' \subseteq due \cup ToSet(RuleList(cfg)) \cup {Jump}
                  /\ UNCHANGED <<sets, routing, prerouting, cfg, filled, refused, endpoints, reloaded>>
  <2>1. W
    <3>1. CASE CreateChain
      <4>1. /\ chain' = chain \/ chain' = <<>>
            /\ UNCHANGED <<sets, routing, prerouting, cfg, filled, refused, endpoints, reloaded>>
        BY <3>1 DEF CreateChain, CreateFlushed
      <4>2. i' = 1 /\ failures' \in {failures, failures + 1} /\ flushed' \in BOOLEAN
        BY <3>1 DEF CreateChain
      <4>3. due' \subseteq due \cup ToSet(RuleList(cfg)) \cup {Jump}
        BY <3>1 DEF CreateChain
      <4> QED BY <1>1, <4>1, <4>2, <4>3
    <3>2. CASE FlushChain
      BY <1>1, <3>2 DEF FlushChain
    <3>3. CASE DropChain
      BY <1>1, <3>3 DEF DropChain
    <3> QED BY <1>9, <3>1, <3>2, <3>3
  <2>2. chain' = NoChain \/ chain' \in Seq(ChainRules)
    BY <1>1, <2>1, EmptySeq
  <2>3. due' \subseteq ChainRules \cup {Jump}
    BY <1>1, <2>1, RulesTyped
  <2> QED BY <1>1, <2>1, <2>2, <2>3
<1>10. CASE AddRule
  <2>1. i <= Len(RuleList(cfg)) => RuleList(cfg)[i] \in ChainRules
    <3>1. RuleList(cfg) \in Seq(ChainRules)
      BY <1>1, RulesTyped
    <3> QED BY <1>1, <3>1, ElementOfSeq, LenProperties
  <2>2. chain' = NoChain \/ chain' \in Seq(ChainRules)
    BY <1>1, <1>10, <2>1, EnsureRuleAppends DEF AddRule
  <2>3. due' \subseteq ChainRules \cup {Jump}
    BY <1>1, <1>10, <2>1 DEF AddRule
  <2>4. /\ i' \in Nat \ {0} /\ failures' \in Nat
        /\ UNCHANGED <<sets, routing, prerouting, cfg, filled, flushed, refused, endpoints, reloaded>>
    BY <1>1, <1>10 DEF AddRule
  <2> QED BY <1>1, <2>2, <2>3, <2>4
<1>11. CASE PurgeOld \/ InsertJump \/ PurgeJump
  <2>1. prerouting' \in JumpChains
    BY <1>1, <1>11, JumpChainsKept DEF PurgeOld, InsertJump, PurgeJump
  <2>2. /\ i' = 1 /\ failures' \in Nat /\ due' \subseteq due
        /\ UNCHANGED <<sets, routing, chain, cfg, filled, flushed, refused, endpoints, reloaded>>
    BY <1>1, <1>11 DEF PurgeOld, InsertJump, PurgeJump
  <2> QED BY <1>1, <2>1, <2>2
<1>12. CASE TunJumpInserted
  <2>1. prerouting' \in JumpChains
    BY <1>1, <1>12, JumpChainsKept DEF TunJumpInserted
  <2> QED BY <1>1, <1>12, <2>1 DEF TunJumpInserted
<1>13. CASE FirewallReload
  BY <1>1, <1>13 DEF FirewallReload, JumpChains
<1> QED BY <1>2, <1>3, <1>4, <1>5, <1>6, <1>7, <1>8, <1>9, <1>10, <1>11, <1>12, <1>13
        DEF Next, Script

\* Only a running script has no outcome yet.
LEMMA AtWorkKept ==
    ASSUME AtWork, [Next]_vars
    PROVE  AtWork'
BY DEF AtWork, Next, Script, vars, sets, routing, fw, ghost, Goto, Exit, Stay, StartApply, StartStop,
       Start, Check, SetupRoute, SetupRule, FlushClients, AddClient, FlushBypass, AddBypass,
       AddEndpoints, CreateChain, AddRule, SyncJump, PurgeOld, InsertJump, Finish, PurgeJump, FlushChain,
       DropChain, DestroyClients, DestroyBypass, DelRule, DelRoute, Kill, TunJumpInserted, FirewallReload

\* One entry of a list is added, or refused.
LEMMA FilledKept ==
    ASSUME Content, [Next]_vars
    PROVE  Filled'
<1> USE DEF sets, routing, fw, ghost, Goto, Exit, Stay
<1>1. /\ cfg \in Configs /\ i \in Nat \ {0} /\ Len(cfg.clients) \in Nat /\ Len(cfg.bypass) \in Nat
      /\ ToSet(cfg.clients) = {cfg.clients[k] : k \in 1..Len(cfg.clients)}
      /\ ToSet(cfg.bypass) = {cfg.bypass[k] : k \in 1..Len(cfg.bypass)}
      /\ failures \in Nat /\ refused \in [clients : SUBSET Hosts, bypass : SUBSET Dests]
  BY ListsTyped DEF Content, TypeOK
<1>2. \A S \in SUBSET Hosts : NoIpset # S
  BY SentinelAssumption
<1>3. Filled /\ (pc # "idle" => outcome = "none")
  BY DEF Content, AtWork
<1>4. CASE StartApply \/ StartStop
  BY <1>3, <1>4 DEF Filled, Done, ChainLabels, StartApply, StartStop, Start
<1>5. CASE Check \/ SetupRoute \/ SetupRule
  BY <1>3, <1>5 DEF Filled, Done, ChainLabels, Check, SetupRoute, SetupRule
<1>6. CASE FlushClients
  BY <1>2, <1>3, <1>6 DEF Filled, Done, ChainLabels, FlushClients, Flushed
<1>7. CASE AddClient
  <2>1. /\ pc = "addClient" /\ clientSet # NoIpset /\ filled = cfg /\ clientSet \subseteq ToSet(cfg.clients)
        /\ clientSet \cap refused.clients = {}
        /\ \A k \in 1..Len(cfg.clients) : k < i => cfg.clients[k] \in clientSet \cup refused.clients
        /\ UNCHANGED <<bypassSet, cfg, filled>>
    BY <1>3, <1>7 DEF AddClient, Filled
  <2>2. CASE i > Len(cfg.clients) /\ Goto("bypass") /\ UNCHANGED <<clientSet, refused, failures>>
    <3>1. clientSet = ToSet(cfg.clients) \ refused.clients
      BY <1>1, <2>1, <2>2
    <3> QED BY <1>3, <2>1, <2>2, <3>1 DEF Filled, Done, ChainLabels
  <2>3. CASE i <= Len(cfg.clients) /\ Stay /\ UNCHANGED <<clientSet, refused, failures>>
             /\ cfg.clients[i] \in clientSet
    <3>1. \A k \in 1..Len(cfg.clients) : k < i + 1 => cfg.clients[k] \in clientSet \cup refused.clients
      BY <1>1, <2>1, <2>3
    <3> QED BY <1>3, <2>1, <2>3, <3>1 DEF Filled, Done, ChainLabels
  <2>4. ASSUME i <= Len(cfg.clients), Stay, failures' \in {failures, failures + 1},
               \/ /\ clientSet' = clientSet \cup {cfg.clients[i]} /\ UNCHANGED failures
                  /\ refused' = [refused EXCEPT !.clients = @ \ {cfg.clients[i]}]
               \/ /\ clientSet' = clientSet /\ failures' = failures + 1
                  /\ refused' = [refused EXCEPT !.clients = @ \cup ({cfg.clients[i]} \ clientSet)]
        PROVE  Filled'
    <3>1. /\ clientSet' \subseteq ToSet(cfg.clients) /\ clientSet' \cap refused'.clients = {}
          /\ cfg.clients[i] \in clientSet' \cup refused'.clients
          /\ clientSet \cup refused.clients \subseteq clientSet' \cup refused'.clients
      BY <1>1, <2>1, <2>4
    <3>2. clientSet' # NoIpset
      BY <1>1, <1>2, <3>1, ListsTyped
    <3>3. \A k \in 1..Len(cfg.clients) : k < i + 1 => cfg.clients[k] \in clientSet' \cup refused'.clients
      BY <1>1, <2>1, <3>1
    <3>4. failures' = 0 => refused' = [clients |-> {}, bypass |-> {}]
      BY <1>1, <1>3, <2>4 DEF Filled
    <3> QED BY <1>3, <2>1, <2>4, <3>1, <3>2, <3>3, <3>4 DEF Filled, Done, ChainLabels
  <2> QED BY <1>1, <1>7, <2>2, <2>4 DEF AddClient, Fails
<1>8. CASE FlushBypass
  BY <1>1, <1>3, <1>8 DEF Filled, Done, ChainLabels, FlushBypass, Flushed
<1>9. CASE AddBypass
  <2>1. /\ pc = "addBypass" /\ filled = cfg /\ clientSet = ToSet(cfg.clients) \ refused.clients
        /\ bypassSet \subseteq ToSet(cfg.bypass) /\ bypassSet \cap refused.bypass = {}
        /\ \A k \in 1..Len(cfg.bypass) : k < i => cfg.bypass[k] \in bypassSet \cup refused.bypass
        /\ UNCHANGED <<clientSet, cfg, filled>>
    BY <1>3, <1>9 DEF AddBypass, Filled, ChainLabels
  <2>2. CASE i > Len(cfg.bypass) /\ Goto("endpoints") /\ UNCHANGED <<bypassSet, refused, failures>>
    <3>1. bypassSet = ToSet(cfg.bypass) \ refused.bypass
      BY <1>1, <2>1, <2>2
    <3> QED BY <1>3, <2>1, <2>2, <3>1 DEF Filled, Done, ChainLabels
  <2>3. ASSUME i <= Len(cfg.bypass), Stay,
               \/ /\ bypassSet' = bypassSet \cup {cfg.bypass[i]} /\ UNCHANGED failures
                  /\ refused' = [refused EXCEPT !.bypass = @ \ {cfg.bypass[i]}]
               \/ /\ bypassSet' = bypassSet /\ failures' = failures + 1
                  /\ refused' = [refused EXCEPT !.bypass = @ \cup ({cfg.bypass[i]} \ bypassSet)]
        PROVE  Filled'
    <3>1. /\ bypassSet' \subseteq ToSet(cfg.bypass) /\ bypassSet' \cap refused'.bypass = {}
          /\ cfg.bypass[i] \in bypassSet' \cup refused'.bypass
          /\ bypassSet \cup refused.bypass \subseteq bypassSet' \cup refused'.bypass
      BY <1>1, <2>1, <2>3
    <3>2. \A k \in 1..Len(cfg.bypass) : k < i + 1 => cfg.bypass[k] \in bypassSet' \cup refused'.bypass
      BY <1>1, <2>1, <3>1
    <3>3. failures' = 0 => refused' = [clients |-> {}, bypass |-> {}]
      BY <1>1, <1>3, <2>3 DEF Filled
    <3>4. refused'.clients = refused.clients
      BY <1>1, <2>3
    <3> QED BY <1>3, <2>1, <2>3, <3>1, <3>2, <3>3, <3>4 DEF Filled, Done, ChainLabels
  <2> QED BY <1>1, <1>9, <2>2, <2>3 DEF AddBypass, Fails
<1>10. CASE AddEndpoints
  BY <1>3, <1>10 DEF Filled, Done, ChainLabels, AddEndpoints
<1>11. CASE CreateChain \/ AddRule \/ SyncJump \/ PurgeOld \/ InsertJump
  <2>1. /\ pc \in {"chain"} \cup ChainLabels /\ pc' \in ChainLabels /\ UNCHANGED <<outcome, cfg, filled, sets>>
        /\ failures' \in {failures, failures + 1} /\ UNCHANGED <<refused, endpoints>>
    BY <1>11 DEF ChainLabels, CreateChain, AddRule, SyncJump, PurgeOld, InsertJump, Fails
  <2>2. failures' = 0 => failures = 0
    BY <1>1, <2>1
  <2> QED BY <1>3, <2>1, <2>2 DEF Filled, Done, ChainLabels
<1>12. CASE Finish
  BY <1>3, <1>12 DEF Filled, Done, ChainLabels, Finish
<1>13. CASE PurgeJump \/ FlushChain \/ DropChain \/ DelRule \/ DelRoute
  <2>1. /\ pc' \in {"flushChain", "dropChain", "destroy", "delRoute", "idle"} /\ outcome' # "applied"
        /\ failures' \in {failures, failures + 1} /\ UNCHANGED <<sets, cfg, filled, refused>>
    BY <1>3, <1>13 DEF PurgeJump, FlushChain, DropChain, WithoutChain, DelRule, DelRoute, Fails
  <2>2. failures' = 0 => failures = 0
    BY <1>1, <2>1
  <2> QED BY <1>3, <2>1, <2>2 DEF Filled, Done, ChainLabels
<1>14. CASE DestroyClients \/ DestroyBypass
  BY <1>3, <1>14 DEF Filled, Done, ChainLabels, DestroyClients, DestroyBypass
<1>15. CASE Kill
  BY <1>3, <1>15 DEF Filled, Done, ChainLabels, Kill
<1>16. CASE TunJumpInserted \/ FirewallReload \/ UNCHANGED vars
  BY <1>3, <1>16 DEF Filled, Done, TunJumpInserted, FirewallReload, vars
<1> QED BY <1>4, <1>5, <1>6, <1>7, <1>8, <1>9, <1>10, <1>11, <1>12, <1>13, <1>14, <1>15, <1>16
        DEF Next, Script

LEMMA ContentInvariant == Spec => []Content
<1>1. Init => Content
  <2> SUFFICES ASSUME Init PROVE Content
    OBVIOUS
  <2>1. TypeOK
    <3>1. /\ {route, ipRule} \subseteq BOOLEAN /\ {flushed, reloaded} \subseteq BOOLEAN
          /\ {cfg, filled} \subseteq Configs
      BY DEF Init
    <3>2. refused = [clients |-> {}, bypass |-> {}] /\ failures = 0 /\ i = 1
      BY DEF Init
    <3>3. refused \in [clients : SUBSET Hosts, bypass : SUBSET Dests] /\ failures \in Nat /\ i \in Nat \ {0}
      BY <3>2
    <3> QED BY <3>1, <3>3 DEF Init, TypeOK
  <2> QED BY <2>1 DEF Init, Content, AtWork, Filled, ChainLabels, Done
<1>2. Content /\ [Next]_vars => Content'
  BY TypesKept, AtWorkKept, FilledKept DEF Content
<1> QED BY <1>1, <1>2, PTL DEF Spec

\* The variables of lib/tproxy.sh, its ipsets and chains stay within their types,
\* and PREROUTING never holds a jump twice.
THEOREM TypeCorrect == Spec => []TypeOK
<1>1. Content => TypeOK
  BY DEF Content
<1> QED BY <1>1, ContentInvariant, PTL

-----------------------------------------------------------------------------
(* The routing of the mark, and what a stop removes.                        *)

\* A chain that exists stays one while rules are added to it.
LEMMA ChainStays ==
    ASSUME Content, CreateChain \/ AddRule, chain # NoChain
    PROVE  chain' # NoChain
<1>1. CASE CreateChain
  BY <1>1, NoChainAssumption, EmptySeq DEF CreateChain, CreateFlushed
<1>2. CASE AddRule
  <2>1. chain' \in Seq(ChainRules) \/ chain' = chain
    <3>1. /\ chain \in Seq(ChainRules) /\ RuleList(cfg) \in Seq(ChainRules) /\ i \in Nat \ {0}
      BY RulesTyped DEF Content, TypeOK
    <3>2. i <= Len(RuleList(cfg)) => RuleList(cfg)[i] \in ChainRules
      BY <3>1, ElementOfSeq, LenProperties
    <3> QED BY <1>2, <3>1, <3>2, EnsureRuleAppends DEF AddRule
  <2> QED BY <2>1, NoChainAssumption
<1> QED BY <1>1, <1>2

\* tproxy_apply: routing first, the jump last.
LEMMA ApplySteps ==
    ASSUME Content, Routing,
           \/ StartApply \/ Check \/ SetupRoute \/ SetupRule \/ FlushClients \/ AddClient
           \/ FlushBypass \/ AddBypass \/ AddEndpoints \/ CreateChain \/ AddRule \/ SyncJump
           \/ PurgeOld \/ InsertJump \/ Finish
    PROVE  Routing'
<1> USE DEF Routing, Delivery, Removal, Installing, ChainLabels, StopRemovesAll,
            sets, routing, fw, ghost, Goto, Exit, Stay
<1>1. prerouting \in JumpChains /\ AtWork
  BY DEF Content, TypeOK, JumpChains
<1>2. CASE StartApply \/ Check
  BY <1>2 DEF StartApply, Start, Check
<1>3. CASE SetupRoute \/ SetupRule
  BY <1>1, <1>3 DEF SetupRoute, SetupRule, RuleNeeded, AtWork
<1>4. CASE FlushClients \/ AddClient \/ FlushBypass \/ AddBypass \/ AddEndpoints
  BY <1>1, <1>4 DEF FlushClients, AddClient, FlushBypass, AddBypass, AddEndpoints, AtWork
<1>5. CASE CreateChain
  BY <1>1, <1>5, ChainStays DEF CreateChain, AtWork
<1>6. CASE AddRule
  BY <1>1, <1>6, ChainStays DEF AddRule, AtWork
<1>7. CASE SyncJump \/ Finish
  BY <1>1, <1>7 DEF SyncJump, Finish, AtWork
<1>8. CASE PurgeOld
  BY <1>1, <1>8, JumpChainsKept DEF PurgeOld, AtWork
<1>9. CASE InsertJump
  BY <1>1, <1>9 DEF InsertJump, AtWork
<1> QED BY <1>2, <1>3, <1>4, <1>5, <1>6, <1>7, <1>8, <1>9

\* tproxy_stop: while the jump is there, the kernel keeps the chain, and the
\* script, which cannot delete it, ends before it touches the routing.
LEMMA StopSteps ==
    ASSUME Content, Routing, \/ StartStop \/ PurgeJump \/ FlushChain \/ DropChain \/ DestroyClients
                             \/ DestroyBypass \/ DelRule \/ DelRoute
    PROVE  Routing'
<1> USE DEF Routing, Delivery, Removal, Installing, ChainLabels, StopRemovesAll,
            sets, routing, fw, ghost, Goto, Exit
<1>1. prerouting \in JumpChains /\ AtWork
  BY DEF Content, TypeOK, JumpChains
<1>2. CASE StartStop
  BY <1>2 DEF StartStop, Start
<1>3. CASE PurgeJump
  BY <1>1, <1>3, JumpChainsKept DEF PurgeJump, AtWork
<1>4. CASE FlushChain
  BY <1>1, <1>4, NoChainAssumption, EmptySeq DEF FlushChain, WithoutChain, AtWork
<1>5. CASE DropChain
  BY <1>1, <1>5 DEF DropChain, MayDrop, AtWork
<1>6. CASE DestroyClients \/ DestroyBypass
  BY <1>1, <1>6 DEF DestroyClients, DestroyBypass, AtWork
<1>7. CASE DelRule \/ DelRoute
  BY <1>1, <1>7 DEF DelRule, DelRoute, AtWork
<1> QED BY <1>2, <1>3, <1>4, <1>5, <1>6, <1>7

\* Around the script: nobody else inserts the jump or touches the routing.
LEMMA EnvironmentSteps ==
    ASSUME Content, Routing, Kill \/ TunJumpInserted \/ FirewallReload \/ UNCHANGED vars
    PROVE  Routing'
<1> USE DEF Routing, Delivery, Removal, Installing, ChainLabels, StopRemovesAll,
            sets, routing, fw, ghost, Exit
<1>1. prerouting \in JumpChains
  BY DEF Content, TypeOK, JumpChains
<1>2. CASE Kill \/ UNCHANGED vars
  BY <1>2 DEF Kill, vars
<1>3. CASE TunJumpInserted
  BY <1>1, <1>3, JumpChainsKept DEF TunJumpInserted
<1>4. CASE FirewallReload
  BY <1>4 DEF FirewallReload, HasRule
<1> QED BY <1>2, <1>3, <1>4

LEMMA RoutingInvariant == Spec => []Routing
<1>1. Init => Routing
  BY DEF Init, Routing, Delivery, Removal, Installing, ChainLabels, StopRemovesAll, HasRule
<1>2. Content /\ Routing /\ [Next]_vars => Routing'
  BY ApplySteps, StopSteps, EnvironmentSteps, Zenon DEF Next, Script
<1> QED BY <1>1, <1>2, ContentInvariant, PTL DEF Spec

\* Whatever is marked for the proxy is delivered to it: tproxy_apply sets up the
\* ip rule and the route before the jump, tproxy_stop and the firmware take the
\* jump away first, and neither a kill nor a call that fails changes that.
THEOREM ProxiedIsRouted == Spec => []MarkedIsRouted
<1>1. Routing => MarkedIsRouted
  BY DEF Routing, Delivery, MarkedIsRouted, Proxied
<1> QED BY <1>1, RoutingInvariant, PTL

\* Once tproxy_stop has returned there is no jump, chain, ipset, ip rule or
\* route of the proxy, until the next invocation starts.
THEOREM StopIsComplete == Spec => []StopRemovesAll
<1>1. Routing => StopRemovesAll
  BY DEF Routing
<1> QED BY <1>1, RoutingInvariant, PTL

-----------------------------------------------------------------------------
(* The order of the rules, and which of them are there.                     *)

LEMMA OrderedKept ==
    ASSUME Content, Content', Routing, Ordered, Complete, [Next]_vars
    PROVE  Ordered'
<1> USE DEF sets, routing, fw, ghost, Goto, Exit, Stay
<1>1. /\ cfg \in Configs /\ i \in Nat \ {0} /\ \A S \in SUBSET Hosts : NoIpset # S
      /\ chain = NoChain \/ chain \in Seq(ChainRules)
      /\ RuleList(cfg) \in Seq(ChainRules) /\ Len(RuleList(cfg)) \in Nat
      /\ Jump \notin ChainRules
  BY SentinelAssumption, RulesTyped DEF Content, TypeOK
<1>2. CASE CreateChain
  <2>1. clientSet \subseteq ToSet(cfg.clients) /\ clientSet' = clientSet
    BY <1>2 DEF CreateChain, Content, Filled
  <2>2. clientSet' # NoIpset
    BY <1>1, <2>1, ListsTyped
  <2>3. \A owed : Ranked(<<>>, owed)
    BY DEF Ranked
  <2>4. chain' = <<>> \/ (chain' = chain /\ due' \in SUBSET due)
    BY <1>2 DEF CreateChain, CreateFlushed
  <2> QED BY <2>2, <2>3, <2>4, RankedLess DEF Ordered
<1>3. CASE AddRule
  <2> DEFINE L == RuleList(cfg)
             N == Len(cfg.sets)
  <2>1. CASE chain' = chain /\ due' \in SUBSET due
    BY <1>3, <2>1, RankedLess DEF AddRule, Ordered
  <2>2. CASE /\ i <= Len(L) /\ chain # NoChain /\ chain' = EnsureRule(chain, L[i])
             /\ due' = due \cup (IF flushed THEN {L[i]} ELSE {})
    <3>1. /\ pc = "addRule" /\ due \subseteq ToSet(L) \cup {Jump}
          /\ \A k \in 1..Len(L) : k < i /\ L[k] \in due => HasRule(chain, L[k])
          /\ flushed => \A q : HasRule(chain, q) => \E k \in 1..Len(L) : k < i /\ L[k] = q
          /\ UNCHANGED clientSet
      BY <1>3, <2>2 DEF AddRule, Complete, ChainLabels, Listed
    <3>2. /\ Len(L) = N + 5 /\ N \in Nat
          /\ \A k \in 1..(N + 3) : L[k] \in Skips(cfg)
          /\ \A k \in (N + 4)..(N + 5) : L[k] \in Proxies
          /\ Skips(cfg) \cap Proxies = {}
      BY <1>1, ListedRules
    <3>3. i \in 1..Len(L) /\ L[i] \in ChainRules /\ ToSet(L) = {L[k] : k \in 1..Len(L)}
      BY <1>1, <2>2, RulesTyped, ElementOfSeq
    <3> HIDE DEF L, N
    <3>4. CASE L[i] \in Proxies
      <4>1. i > N + 3
        BY <3>2, <3>3, <3>4
      <4>2. ASSUME NEW q \in (due' \cap ChainRules) \ Proxies PROVE HasRule(chain, q)
        <5>1. q \in due /\ q # Jump
          BY <1>1, <2>2, <3>4, <4>2
        <5>2. PICK k \in 1..Len(L) : L[k] = q
          BY <3>1, <3>3, <5>1
        <5>3. k < i
          BY <1>1, <3>2, <4>1, <4>2, <5>2
        <5> QED BY <3>1, <5>1, <5>2, <5>3
      <4>3. due' \subseteq due \cup {L[i]} /\ chain \in Seq(ChainRules) /\ Ranked(chain, due)
        BY <1>1, <2>2 DEF Ordered
      <4>4. Ranked(EnsureRule(chain, L[i]), due')
        BY <3>3, <3>4, <4>2, <4>3, RankedExtends
      <4> QED BY <2>2, <3>1, <4>4 DEF Ordered
    <3>5. CASE L[i] \notin Proxies
      <4>1. i <= N + 3
        BY <1>1, <3>2, <3>3, <3>5
      <4>2. ASSUME L[i] \in due' \ due, NEW n \in 1..Len(chain), chain[n] \in Proxies PROVE FALSE
        <5>1. flushed /\ HasRule(chain, chain[n])
          BY <2>2, <4>2 DEF HasRule
        <5>2. PICK k \in 1..Len(L) : k < i /\ L[k] = chain[n]
          BY <3>1, <5>1
        <5>3. k \in 1..(N + 3)
          BY <1>1, <3>2, <4>1, <5>2
        <5> QED BY <3>2, <4>2, <5>2, <5>3
      <4> QED BY <1>1, <2>2, <3>1, <3>3, <3>5, <4>2, RankedExtends DEF Ordered
    <3> QED BY <3>4, <3>5
  <2> QED BY <1>3, <2>1, <2>2 DEF AddRule
<1>4. CASE FlushClients \/ AddClient
  <2>1. clientSet' # NoIpset
    <3>1. clientSet' \in SUBSET Hosts
      BY <1>1, <1>4, SentinelAssumption DEF FlushClients, Flushed, AddClient, Content, Filled, TypeOK
    <3> QED BY <1>1, <3>1
  <2> QED BY <1>4, <2>1 DEF FlushClients, AddClient, Ordered
<1>5. CASE DestroyClients
  BY <1>5 DEF DestroyClients, Routing, Removal, Ordered
<1>6. CASE FlushChain \/ DropChain \/ FirewallReload
  <2>1. \/ chain' = NoChain
        \/ chain' \in {chain, <<>>} /\ due' = due /\ clientSet' = clientSet /\ chain # NoChain
    BY <1>6 DEF FlushChain, DropChain, FirewallReload
  <2> QED BY <2>1 DEF Ordered, Ranked
<1>7. CASE InsertJump
  <2>1. due' \in SUBSET due /\ UNCHANGED <<clientSet, chain>>
    BY <1>7 DEF InsertJump
  <2> QED BY <2>1, RankedLess DEF Ordered
<1>8. CASE \/ StartApply \/ StartStop \/ Check \/ SetupRoute \/ SetupRule \/ FlushBypass \/ AddBypass
           \/ AddEndpoints \/ SyncJump \/ PurgeOld \/ Finish \/ PurgeJump \/ DestroyBypass
           \/ DelRule \/ DelRoute \/ Kill \/ TunJumpInserted \/ UNCHANGED vars
  <2>1. UNCHANGED <<clientSet, chain, due>>
    BY <1>8 DEF StartApply, StartStop, Start, Check, SetupRoute, SetupRule, FlushBypass, AddBypass,
                AddEndpoints, SyncJump, PurgeOld, Finish, PurgeJump, DestroyBypass, DelRule, DelRoute,
                Kill, TunJumpInserted, vars
  <2> QED BY <2>1 DEF Ordered
<1> QED BY <1>2, <1>3, <1>4, <1>5, <1>6, <1>7, <1>8 DEF Next, Script

\* An append: done, passed over because it failed, or nothing left to append.
LEMMA AddRuleCompletes ==
    ASSUME Content, Complete, AddRule
    PROVE  Complete'
<1> USE DEF sets, routing, fw, ghost, Goto, Stay
<1> DEFINE L == RuleList(cfg)
<1>1. /\ pc = "addRule" /\ outcome = "none" /\ i \in Nat \ {0} /\ failures \in Nat
      /\ L \in Seq(ChainRules) /\ Len(L) \in Nat /\ Jump \notin ChainRules
      /\ ToSet(L) = {L[k] : k \in 1..Len(L)} /\ (chain # NoChain => chain \in Seq(ChainRules))
  BY RulesTyped DEF AddRule, Content, TypeOK, AtWork
<1>2. /\ due \subseteq ToSet(L) \cup {Jump}
      /\ chain # NoChain => \A k \in 1..Len(L) : k < i /\ L[k] \in due => HasRule(chain, L[k])
      /\ flushed => /\ chain # NoChain /\ Jump \in due
                    /\ \A q : HasRule(chain, q) =>
                           q \in due /\ \E k \in 1..Len(L) : k < i /\ L[k] = q
      /\ failures = 0 /\ ~reloaded => flushed /\ due = ToSet(L) \cup {Jump}
      /\ UNCHANGED <<cfg, flushed, reloaded>>
  BY <1>1 DEF AddRule, Complete, ChainLabels, Listed
<1>3. CASE i > Len(L) /\ Goto("sync") /\ UNCHANGED <<chain, due, failures>>
  <2>1. chain # NoChain => \A q \in due \cap ChainRules : HasRule(chain, q)
    <3> SUFFICES ASSUME chain # NoChain, NEW q \in due \cap ChainRules PROVE HasRule(chain, q)
      OBVIOUS
    <3>1. PICK k \in 1..Len(L) : L[k] = q
      BY <1>1, <1>2
    <3>2. k < i
      BY <1>1, <1>3
    <3> HIDE DEF L
    <3> QED BY <1>2, <3>1, <3>2
  <2> QED BY <1>1, <1>2, <1>3, <2>1 DEF Complete, ChainLabels, Done, Listed
<1>4. CASE /\ i <= Len(L) /\ Stay /\ chain # NoChain /\ chain' = EnsureRule(chain, L[i])
           /\ due' = due \cup (IF flushed THEN {L[i]} ELSE {}) /\ UNCHANGED failures
  <2>1. i \in 1..Len(L) /\ L[i] \in ChainRules /\ L[i] \in ToSet(L)
    BY <1>1, <1>4, ElementOfSeq
  <2>2. /\ chain' \in Seq(ChainRules) /\ chain' # NoChain
        /\ \A q : HasRule(chain, q) \/ q = L[i] => HasRule(chain', q)
        /\ \A q : HasRule(chain', q) => HasRule(chain, q) \/ q = L[i]
    <3>1. chain \in Seq(ChainRules) /\ chain' = EnsureRule(chain, L[i])
      BY <1>1, <1>4
    <3> HIDE DEF L
    <3>2. chain' \in Seq(ChainRules)
      BY <2>1, <3>1, EnsureRuleAppends
    <3>3. \A q : HasRule(chain, q) \/ q = L[i] => HasRule(chain', q)
      BY <2>1, <3>1, EnsureRuleHas
    <3>4. \A q : HasRule(chain', q) => HasRule(chain, q) \/ q = L[i]
      BY <2>1, <3>1, EnsureRuleOnly
    <3> QED BY <3>2, <3>3, <3>4, NoChainAssumption
  <2>3. due \subseteq due' /\ due' \subseteq due \cup {L[i]} /\ (flushed => L[i] \in due')
    BY <1>4
  <2> HIDE DEF L
  <2>4. \A k \in 1..Len(L) : k < i + 1 /\ L[k] \in due' => HasRule(chain', L[k])
    <3> SUFFICES ASSUME NEW k \in 1..Len(L), k < i + 1, L[k] \in due' PROVE HasRule(chain', L[k])
      OBVIOUS
    <3>1. k = i \/ k < i
      BY <1>1
    <3>2. CASE k < i
      BY <1>2, <1>4, <2>2, <2>3, <3>2
    <3> QED BY <2>2, <3>1, <3>2
  <2>5. flushed => \A q : HasRule(chain', q) => q \in due' /\ \E k \in 1..Len(L) : k < i + 1 /\ L[k] = q
    <3> SUFFICES ASSUME flushed, NEW q, HasRule(chain', q)
                 PROVE  q \in due' /\ \E k \in 1..Len(L) : k < i + 1 /\ L[k] = q
      OBVIOUS
    <3>1. CASE q = L[i]
      BY <1>1, <2>1, <2>3, <3>1
    <3>2. CASE HasRule(chain, q)
      <4>1. q \in due /\ \E k \in 1..Len(L) : k < i /\ L[k] = q
        BY <1>2, <3>2
      <4>2. \A k \in 1..Len(L) : k < i => k < i + 1
        BY <1>1
      <4> QED BY <2>3, <4>1, <4>2
    <3> QED BY <2>2, <3>1, <3>2
  <2>6. pc' = "addRule" /\ outcome' = "none" /\ i' = i + 1
    BY <1>1, <1>4
  <2>7. failures' = 0 /\ ~reloaded' => flushed' /\ due' = ToSet(L) \cup {Jump}
    BY <1>2, <1>4, <2>1, <2>3
  <2>8. due' \subseteq ToSet(L) \cup {Jump} /\ (flushed => Jump \in due')
    BY <1>2, <2>1, <2>3
  <2>9. L' = L
    BY <1>2 DEF L
  <2> QED BY <1>2, <2>2, <2>4, <2>5, <2>6, <2>7, <2>8, <2>9 DEF Complete, ChainLabels, Done, Listed, L
<1>5. CASE /\ i <= Len(L) /\ Stay /\ due' = due \ {L[i]} /\ UNCHANGED chain
           /\ \/ chain = NoChain /\ UNCHANGED failures
              \/ chain # NoChain /\ ~HasRule(chain, L[i]) /\ failures' = failures + 1
  <2>1. i \in 1..Len(L) /\ L[i] \in ChainRules
    BY <1>1, <1>5, ElementOfSeq
  <2> HIDE DEF L
  <2>2. pc' = "addRule" /\ outcome' = "none" /\ i' = i + 1
    BY <1>1, <1>5
  <2>3. chain # NoChain => \A k \in 1..Len(L) : k < i + 1 /\ L[k] \in due' => HasRule(chain, L[k])
    <3> SUFFICES ASSUME chain # NoChain, NEW k \in 1..Len(L), k < i + 1, L[k] \in due'
                 PROVE  HasRule(chain, L[k])
      OBVIOUS
    <3>1. L[k] \in due /\ L[k] # L[i]
      BY <1>5
    <3>2. k < i
      BY <1>1, <3>1
    <3> QED BY <1>2, <3>1, <3>2
  <2>4. flushed => \A q : HasRule(chain, q) => q \in due' /\ \E k \in 1..Len(L) : k < i + 1 /\ L[k] = q
    <3> SUFFICES ASSUME flushed, NEW q, HasRule(chain, q)
                 PROVE  q \in due' /\ \E k \in 1..Len(L) : k < i + 1 /\ L[k] = q
      OBVIOUS
    <3>1. q \in due /\ \E k \in 1..Len(L) : k < i /\ L[k] = q
      BY <1>2
    <3>2. q # L[i]
      BY <1>2, <1>5
    <3>3. \A k \in 1..Len(L) : k < i => k < i + 1
      BY <1>1
    <3> QED BY <1>5, <3>1, <3>2, <3>3
  <2>5. ~(failures' = 0 /\ ~reloaded')
    BY <1>1, <1>2, <1>5
  <2>6. due' \subseteq ToSet(L) \cup {Jump} /\ (flushed => Jump \in due')
    BY <1>1, <1>2, <1>5, <2>1
  <2>7. L' = L
    BY <1>2 DEF L
  <2> QED BY <1>2, <1>5, <2>2, <2>3, <2>4, <2>5, <2>6, <2>7 DEF Complete, ChainLabels, Done, Listed, L
<1> QED BY <1>3, <1>4, <1>5 DEF AddRule, Fails

LEMMA CompleteKept ==
    ASSUME Content, Complete, [Next]_vars
    PROVE  Complete'
<1> USE DEF sets, routing, fw, ghost, Goto, Exit, Stay
<1>1. /\ cfg \in Configs /\ i \in Nat \ {0} /\ prerouting \in JumpChains /\ failures \in Nat
      /\ chain = NoChain \/ chain \in Seq(ChainRules)
      /\ Jump \notin ChainRules
  BY RulesTyped DEF Content, TypeOK, JumpChains
<1>2. pc # "idle" => outcome = "none"
  BY DEF Content, AtWork
<1>3. \A q : ~HasRule(<<>>, q)
  BY DEF HasRule
<1>4. CASE CreateChain
  <2>1. /\ pc' = "addRule" /\ i' = 1 /\ outcome' = "none" /\ UNCHANGED <<cfg, reloaded>>
        /\ \A k \in 1..Len(RuleList(cfg)) : ~(k < 1)
    BY <1>1, <1>2, <1>4, RulesTyped DEF CreateChain
  <2>2. CASE chain' = <<>> /\ flushed' = TRUE /\ due' = Listed \cup {Jump} /\ UNCHANGED failures
    <3>1. chain' # NoChain
      BY <2>2, NoChainAssumption, EmptySeq
    <3> QED BY <1>3, <2>1, <2>2, <3>1 DEF Complete, ChainLabels, Done, Listed
  <2>3. CASE failures' = failures + 1 /\ flushed' = FALSE /\ due' = due \cap Listed
    <3>1. failures' # 0
      BY <1>1, <2>3
    <3> QED BY <2>1, <2>3, <3>1 DEF Complete, ChainLabels, Done, Listed
  <2> QED BY <1>4, <2>2, <2>3 DEF CreateChain, CreateFlushed, Listed, Fails
<1>5. CASE AddRule
  BY <1>5, AddRuleCompletes
<1>6. CASE SyncJump
  BY <1>2, <1>6, InPlaceHas DEF SyncJump, Complete, ChainLabels, Done, Listed
<1>7. CASE PurgeOld
  <2>1. failures' = 0 => failures = 0
    BY <1>1, <1>7 DEF PurgeOld, Fails
  <2> QED BY <1>2, <1>7, <2>1 DEF PurgeOld, Complete, ChainLabels, Done, Listed
<1>8. CASE InsertJump
  <2>1. /\ pc = "insertJump" /\ pc' = "end" /\ outcome' = "none"
        /\ UNCHANGED <<chain, cfg, flushed, reloaded>> /\ due' \in {due, due \ {Jump}}
    BY <1>2, <1>8 DEF InsertJump
  <2>2. failures' = 0 /\ ~reloaded' => failures = 0 /\ (flushed => due' = due)
    BY <1>1, <1>8 DEF InsertJump, Fails, Complete, ChainLabels
  <2>3. flushed /\ Jump \in due => (Jump \in due' <=> HasRule(prerouting', XrayJump))
    BY <1>1, <1>8, JumpChainsKept DEF InsertJump
  <2>4. /\ flushed => chain # NoChain /\ Jump \in due
        /\ due \subseteq Listed \cup {Jump}
        /\ chain # NoChain => \A q \in due \cap ChainRules : HasRule(chain, q)
        /\ flushed /\ chain # NoChain => \A q : HasRule(chain, q) => q \in due
        /\ failures = 0 /\ ~reloaded => flushed /\ due = Listed \cup {Jump}
    BY <2>1 DEF Complete, ChainLabels
  <2>5. Listed' = Listed /\ \A q : HasRule(chain, q) /\ chain # NoChain => q # Jump
    <3>1. ASSUME NEW q, HasRule(chain, q), chain # NoChain PROVE q # Jump
      <4>1. PICK n \in 1..Len(chain) : chain[n] = q
        BY <3>1 DEF HasRule
      <4> QED BY <1>1, <3>1, <4>1, ElementOfSeq
    <3> QED BY <2>1, <3>1 DEF Listed
  <2>6. /\ due' \subseteq Listed' \cup {Jump}
        /\ chain' # NoChain => \A q \in due' \cap ChainRules : HasRule(chain', q)
        /\ flushed' /\ chain' # NoChain => \A q : HasRule(chain', q) => q \in due'
    BY <2>1, <2>4, <2>5
  <2>7. failures' = 0 /\ ~reloaded' => flushed' /\ due' = Listed' \cup {Jump}
    BY <2>1, <2>2, <2>4, <2>5
  <2> QED BY <2>1, <2>3, <2>4, <2>6, <2>7 DEF Complete, ChainLabels, Done
<1>9. CASE Finish
  BY <1>9 DEF Finish, Complete, ChainLabels, Done, Listed
<1>10. CASE TunJumpInserted
  <2>1. HasRule(prerouting, XrayJump) <=> HasRule(prerouting', XrayJump)
    BY <1>1, <1>10, JumpChainsKept DEF TunJumpInserted
  <2> QED BY <1>10, <2>1 DEF TunJumpInserted, Complete, ChainLabels, Done, Listed
<1>11. CASE UNCHANGED vars
  BY <1>11 DEF vars, Complete, ChainLabels, Done, Listed
<1>12. CASE FirewallReload
  BY <1>12 DEF FirewallReload, Complete, ChainLabels, Done, Listed
<1>13. CASE \/ StartApply \/ StartStop \/ Check \/ SetupRoute \/ SetupRule \/ FlushClients \/ AddClient
            \/ FlushBypass \/ AddBypass \/ AddEndpoints \/ PurgeJump \/ FlushChain \/ DropChain
            \/ DestroyClients \/ DestroyBypass \/ DelRule \/ DelRoute \/ Kill
  <2>1. pc' \notin ChainLabels /\ outcome' # "applied"
    BY <1>2, <1>13 DEF StartApply, StartStop, Start, Check, SetupRoute, SetupRule, FlushClients,
        AddClient, FlushBypass, AddBypass, AddEndpoints, PurgeJump, FlushChain, WithoutChain, DropChain,
        DestroyClients, DestroyBypass, DelRule, DelRoute, Kill, ChainLabels
  <2>2. \/ chain' \in {<<>>, NoChain}
        \/ UNCHANGED <<chain, due, flushed>>
    BY <1>13 DEF StartApply, StartStop, Start, Check, SetupRoute, SetupRule, FlushClients,
        AddClient, FlushBypass, AddBypass, AddEndpoints, PurgeJump, FlushChain, DropChain,
        DestroyClients, DestroyBypass, DelRule, DelRoute, Kill
  <2>3. flushed' /\ chain' # NoChain => \A q : HasRule(chain', q) => q \in due'
    BY <1>3, <2>2 DEF Complete
  <2> QED BY <2>1, <2>3 DEF Complete, ChainLabels, Done
<1> QED BY <1>4, <1>5, <1>6, <1>7, <1>8, <1>9, <1>10, <1>11, <1>12, <1>13 DEF Next, Script

LEMMA RulesInvariant == Spec => [](Content /\ Ordered /\ Complete)
<1>1. Init => Ordered /\ Complete
  BY DEF Init, Ordered, Complete, ChainLabels, Done
<1>2. Content /\ Content' /\ Routing /\ Ordered /\ Complete /\ [Next]_vars => Ordered' /\ Complete'
  BY OrderedKept, CompleteKept
<1> QED BY <1>1, <1>2, ContentInvariant, RoutingInvariant, PTL DEF Spec

-----------------------------------------------------------------------------
(* What the invariant says about packets.                                   *)

\* A packet that is proxied has passed every skip rule that is owed.
LEMMA ProxiedPassed ==
    ASSUME Content, Ordered, NEW h \in Hosts, NEW d \in Dests, NEW t \in Protocols, Proxied(h, d, t)
    PROVE  /\ HasRule(prerouting, XrayJump) /\ HasRule(chain, ProxyRule(t)) /\ clientSet # NoIpset
           /\ NotClient \in due => h \in clientSet
           /\ Bypassed \in due => d \notin bypassSet
           /\ Local \in due => d \notin LocalDests
           /\ \A s \in SetsOf[d] : SetRule(s) \notin due
<1>1. PICK n \in 1..Len(chain) :
          /\ chain[n].test = "proxy" /\ Matches(chain[n], h, d, t)
          /\ \A m \in 1..(n - 1) : ~Matches(chain[m], h, d, t)
  BY DEF Proxied
<1>2. /\ HasRule(prerouting, XrayJump) /\ chain # NoChain /\ clientSet # NoIpset
      /\ Ranked(chain, due) /\ chain \in Seq(ChainRules)
  BY DEF Proxied, Content, Ordered, TypeOK
<1>3. chain[n] \in ChainRules
  BY <1>2, ElementOfSeq
<1>4. chain[n] = ProxyRule(t) /\ chain[n] \in Proxies
  <2>1. PICK u \in Protocols : chain[n] = ProxyRule(u)
    BY <1>1, <1>3 DEF ChainRules, NotClient, Bypassed, Local, SetRule
  <2>2. u = t
    BY <1>1, <2>1 DEF Matches, ProxyRule
  <2> QED BY <2>1, <2>2 DEF Proxies
<1>5. ASSUME NEW q \in (due \cap ChainRules) \ Proxies PROVE ~Matches(q, h, d, t)
  <2>1. PICK m \in 1..(n - 1) : chain[m] = q
    BY <1>2, <1>4 DEF Ranked
  <2> QED BY <1>1, <2>1
<1>6. /\ NotClient \in ChainRules \ Proxies /\ Bypassed \in ChainRules \ Proxies
      /\ Local \in ChainRules \ Proxies
      /\ \A s \in IpSets : SetRule(s) \in ChainRules \ Proxies
  <2>1. NotClient \in ChainRules /\ Bypassed \in ChainRules /\ Local \in ChainRules
        /\ \A s \in IpSets : SetRule(s) \in ChainRules
    BY DEF ChainRules
  <2>2. \A q \in Proxies : q.test = "proxy"
    BY DEF Proxies, ProxyRule
  <2>3. NotClient.test # "proxy" /\ Bypassed.test # "proxy" /\ Local.test # "proxy"
        /\ \A s \in IpSets : SetRule(s).test # "proxy"
    BY DEF NotClient, Bypassed, Local, SetRule
  <2> QED BY <2>1, <2>2, <2>3
<1>7. NotClient \in due => h \in clientSet
  <2>1. NotClient \in due => ~Matches(NotClient, h, d, t)
    BY <1>5, <1>6
  <2> QED BY <2>1 DEF Matches, NotClient
<1>8. Bypassed \in due => d \notin bypassSet
  <2>1. Bypassed \in due => ~Matches(Bypassed, h, d, t)
    BY <1>5, <1>6
  <2> QED BY <2>1 DEF Matches, Bypassed
<1>9. Local \in due => d \notin LocalDests
  <2>1. Local \in due => ~Matches(Local, h, d, t)
    BY <1>5, <1>6
  <2> QED BY <2>1 DEF Matches, Local
<1>10. ASSUME NEW s \in SetsOf[d], SetRule(s) \in due PROVE FALSE
  <2>1. s \in IpSets
    BY SetsOfAssumption
  <2>2. ~Matches(SetRule(s), h, d, t)
    BY <1>5, <1>6, <1>10, <2>1
  <2> QED BY <2>2 DEF Matches, SetRule
<1>11. HasRule(chain, ProxyRule(t))
  BY <1>4 DEF HasRule
<1> QED BY <1>2, <1>7, <1>8, <1>9, <1>10, <1>11

\* Rebuilt under traffic, reloaded, left half-built by a kill or with calls that
\* failed, the chain marks no packet that a rule it owes is there to skip.
THEOREM OnlyClientsProxied == Spec => []NeverProxiesOthers
<1>1. Content /\ Ordered => NeverProxiesOthers
  <2> SUFFICES ASSUME Content, Ordered, NEW h \in Hosts, NEW d \in Dests, NEW t \in Protocols,
                      Proxied(h, d, t)
               PROVE  /\ NotClient \in due => h \in ToSet(filled.clients)
                      /\ Local \in due => d \notin LocalDests
                      /\ \A s \in SetsOf[d] : SetRule(s) \notin due
    BY DEF NeverProxiesOthers
  <2>1. clientSet # NoIpset => clientSet \subseteq ToSet(filled.clients)
    BY DEF Content, Filled
  <2> QED BY <2>1, ProxiedPassed
<1> QED BY <1>1, RulesInvariant, PTL

\* A flushed chain that all calls have been made for proxies what no rule it owes
\* skips, if the proxy rule and the jump are among those that were not lost.
LEMMA OwedProxies ==
    ASSUME Content, Ordered, Complete, Done, flushed,
           NEW h \in Hosts, NEW d \in Dests, NEW t \in Protocols,
           {Jump, ProxyRule(t)} \subseteq due, Lets(cfg, due, refused, h, d)
    PROVE  Proxied(h, d, t)
<1>1. /\ cfg \in Configs /\ chain # NoChain /\ chain \in Seq(ChainRules) /\ Len(chain) \in Nat
      /\ HasRule(prerouting, XrayJump) /\ due \subseteq Listed \cup {Jump}
      /\ \A q \in due \cap ChainRules : HasRule(chain, q)
      /\ \A q : HasRule(chain, q) => q \in due
  BY DEF Content, Complete, TypeOK, Done
<1>2. clientSet = ToSet(cfg.clients) \ refused.clients
      /\ bypassSet = (ToSet(cfg.bypass) \ refused.bypass) \cup endpoints
  BY DEF Content, Filled, Done
<1> DEFINE r == ProxyRule(t)
           n == PositionOf(chain, r)
<1>3. HasRule(chain, r)
  BY <1>1 DEF ChainRules
<1>4. /\ n \in 1..Len(chain) /\ chain[n] = r
      /\ \A m \in 1..Len(chain) : chain[m] = r => n <= m
  BY <1>1, <1>3, PositionOfRule
<1> HIDE DEF n
<1>5. ASSUME NEW s \in IpSets, SetRule(s) \in due PROVE s \in ToSet(cfg.sets)
  <2>1. SetRule(s) \in Listed
    BY <1>1, <1>5 DEF SetRule, Jump
  <2>2. PICK k \in 1..Len(RuleList(cfg)) : RuleList(cfg)[k] = SetRule(s)
    BY <1>1, <2>1, RulesTyped DEF Listed
  <2>3. SetRule(s) \in Skips(cfg) \cup Proxies
    <3> DEFINE N == Len(cfg.sets)
               L == RuleList(cfg)
    <3>1. /\ Len(L) = N + 5 /\ N \in Nat /\ \A j \in 1..(N + 3) : L[j] \in Skips(cfg)
          /\ \A j \in (N + 4)..(N + 5) : L[j] \in Proxies
      BY <1>1, ListedRules
    <3> HIDE DEF N, L
    <3>2. k \in 1..(N + 3) \/ k \in (N + 4)..(N + 5)
      BY <2>2, <3>1 DEF L
    <3> QED BY <2>2, <3>1, <3>2 DEF L
  <2> QED BY <2>3 DEF Skips, Proxies, SetRule, NotClient, Bypassed, Local, ProxyRule
<1>6. ASSUME NEW q \in due \cap ChainRules, q # r PROVE ~Matches(q, h, d, t)
  <2>1. CASE q = NotClient
    BY <1>2, <1>6, <2>1 DEF Lets, Matches, NotClient
  <2>2. CASE q = Bypassed
    BY <1>2, <1>6, <2>2 DEF Lets, Matches, Bypassed
  <2>3. CASE q = Local
    BY <1>6, <2>3 DEF Lets, Matches, Local
  <2>4. ASSUME NEW s \in IpSets, q = SetRule(s) PROVE ~Matches(q, h, d, t)
    <3>1. s \notin SetsOf[d]
      BY <1>5, <1>6, <2>4 DEF Lets
    <3> QED BY <2>4, <3>1 DEF Matches, SetRule
  <2>5. ASSUME NEW u \in Protocols, q = ProxyRule(u) PROVE ~Matches(q, h, d, t)
    BY <1>6, <2>5 DEF Matches, ProxyRule
  <2> QED BY <2>1, <2>2, <2>3, <2>4, <2>5 DEF ChainRules
<1>7. ASSUME NEW m \in 1..(n - 1) PROVE ~Matches(chain[m], h, d, t)
  <2>1. m \in 1..Len(chain) /\ chain[m] # r
    BY <1>1, <1>4
  <2>2. chain[m] \in due \cap ChainRules
    <3>1. HasRule(chain, chain[m]) /\ chain[m] \in ChainRules
      BY <1>1, <2>1, ElementOfSeq DEF HasRule
    <3> QED BY <1>1, <3>1
  <2> QED BY <1>6, <2>1, <2>2
<1>8. chain[n].test = "proxy" /\ Matches(chain[n], h, d, t)
  BY <1>4 DEF Matches, ProxyRule
<1> QED BY <1>1, <1>4, <1>7, <1>8 DEF Proxied

\* After an apply that no reload disturbed the rules proxy a packet if and only if
\* the configuration it read asks for it, whatever rules it found; each call that
\* failed on the way takes away what its own rule or entry stands for, no more.
THEOREM AppliedIsExact == Spec => []AppliedExactly
<1>1. Content /\ Ordered /\ Complete => AppliedExactly
  <2> SUFFICES ASSUME Content, Ordered, Complete, Done, ~reloaded,
                      NEW h \in Hosts, NEW d \in Dests, NEW t \in Protocols
               PROVE  /\ failures = 0 => (Proxied(h, d, t) <=> ShouldProxy(cfg, h, d))
                      /\ flushed => (Proxied(h, d, t) <=> /\ {Jump, ProxyRule(t)} \subseteq due
                                                         /\ Lets(cfg, due, refused, h, d))
    BY DEF AppliedExactly, Done
  <2>1. /\ clientSet = ToSet(cfg.clients) \ refused.clients /\ cfg \in Configs
        /\ bypassSet = (ToSet(cfg.bypass) \ refused.bypass) \cup endpoints
    BY DEF Content, Filled, Done, TypeOK
  <2>2. flushed => (Proxied(h, d, t) <=> {Jump, ProxyRule(t)} \subseteq due
                                         /\ Lets(cfg, due, refused, h, d))
    <3>1. ASSUME flushed, Proxied(h, d, t)
          PROVE  {Jump, ProxyRule(t)} \subseteq due /\ Lets(cfg, due, refused, h, d)
      <4>1. Jump \in due /\ ProxyRule(t) \in due
        BY <3>1, ProxiedPassed DEF Complete, Proxied
      <4> QED BY <2>1, <3>1, <4>1, ProxiedPassed DEF Lets
    <3> QED BY <3>1, OwedProxies
  <2>3. ASSUME failures = 0
        PROVE  /\ flushed /\ due = Listed \cup {Jump}
               /\ Lets(cfg, due, refused, h, d) <=> ShouldProxy(cfg, h, d)
               /\ {Jump, ProxyRule(t)} \subseteq due
    <3>1. flushed /\ due = Listed \cup {Jump} /\ refused = [clients |-> {}, bypass |-> {}]
      BY <2>3 DEF Complete, Content, Filled
    <3>2. Jump \notin {NotClient, Bypassed, Local} \cup {SetRule(s) : s \in ToSet(cfg.sets)}
      BY DEF Jump, NotClient, Bypassed, Local, SetRule
    <3>3. Lets(cfg, due, refused, h, d) <=> ShouldProxy(cfg, h, d)
      BY <3>1, <3>2 DEF Lets, ShouldProxy, Listed
    <3>4. ProxyRule(t) \in Listed
      <4>1. PICK k \in 1..(Len(cfg.sets) + 5) : RuleList(cfg)[k] = ProxyRule(t)
        BY <2>1, ListedRules
      <4>2. k \in 1..Len(RuleList(cfg))
        BY <2>1, <4>1, ListedRules
      <4> QED BY <2>1, <4>1, <4>2, RulesTyped DEF Listed
    <3> QED BY <3>1, <3>3, <3>4
  <2> QED BY <2>2, <2>3
<1> QED BY <1>1, RulesInvariant, PTL
=============================================================================
