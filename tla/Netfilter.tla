------------------------------ MODULE Netfilter ------------------------------
(****************************************************************************)
(* The iptables chains VPN Director edits and the helpers of               *)
(* lib/firewall.sh that edit them.  A chain is a sequence of rules, in the  *)
(* order in which the kernel tries them; a user chain that does not exist   *)
(* is NoChain.  Every operator below is ONE kernel call (or one read): a    *)
(* helper that makes several calls is spelled out, call by call, in the     *)
(* modules that run it.                                                     *)
(****************************************************************************)
EXTENDS Integers, Sequences, SequencesExt

\* The rules of mangle/PREROUTING that matter here.
SysMark  == "SYSMARK"        \* firmware: -i wgcN|tunN ... -j MARK --set-...
TunJump  == "TUN_DIR"        \* -i br0 -m mark --mark 0x0/MASK -j TUN_DIR
XrayJump == "XRAY_TPROXY"    \* -i br0 -j XRAY_TPROXY
PreroutingRules == {SysMark, TunJump, XrayJump}

CONSTANT NoChain             \* iptables -S fails: the chain does not exist

\* find_fw_rules: some rule of the chain matches.
HasFirst(c, r) == c # <<>> /\ c[1] = r
HasRule(c, r) == \E n \in 1..Len(c) : c[n] = r

\* Position of the first rule equal to r, 0 when there is none.
PositionOf(c, r) == SelectInSeq(c, LAMBDA x : x = r)

\* iptables -D: delete the first rule equal to r.
DeleteRule(c, r) == IF HasRule(c, r) THEN RemoveAt(c, PositionOf(c, r)) ELSE c

\* iptables -I at pos; the kernel refuses an index past the end of the chain.
CanInsert(c, pos) == pos \in 1..(Len(c) + 1)
InsertRule(c, pos, r) == IF CanInsert(c, pos) THEN InsertAt(c, pos, r) ELSE c

\* create_fw_chain -f: create the chain, or flush the one there is.
CreateOnly(c)    == IF c = NoChain THEN <<>> ELSE c
CreateFlushed(c) == <<>>

\* ensure_fw_rule in append mode: -C looks anywhere in the chain, -A adds last.
InsertFirst(c, r) == IF HasRule(c, r) THEN c ELSE <<r>> \o c
EnsureRule(c, r) == IF HasRule(c, r) THEN c ELSE Append(c, r)

\* sync_fw_rule's test that nothing needs doing: exactly one match, in place.
InPlace(c, r, pos) ==
    /\ PositionOf(c, r) = pos
    /\ \A n \in 1..Len(c) : c[n] = r => n = pos

\* _tunnel_get_prerouting_base_pos: just after the last firmware mark rule.
BasePos(c) == SelectLastInSeq(c, LAMBDA x : x = SysMark) + 1
=============================================================================
