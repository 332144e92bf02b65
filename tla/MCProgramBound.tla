---------------------------- MODULE MCProgramBound ----------------------------
(* Kernels for TLC: intervals of small words, counted loops, and one
   handwritten kernel for each thing the walk and the expansion can meet.    *)
EXTENDS BoundChecks

A1 == <<"a1", 0>>    A2 == <<"a2", 0>>    S1 == <<"s1", 0>>
MCAllocations == {A1, A2, S1}
MCSpillSlots == {S1}
MCPredicateRegisters == {"p", "q", "k"}
MCPlace == A1 :> 0 @@ A2 :> 4 @@ S1 :> 6
MCLatency == [slow |-> 3, vpush |-> 4, vmatmul |-> 5]
MCExtraCycles == [slow |-> 1]

(* Writing kernels.                                                        *)
C(n) == Const(n)
R(r) == Reg(r)
F(base) == Flag(base, 0)
I(op, dest, args) == [Nop EXCEPT !.op = op, !.dest = dest, !.args = args]
U(op, dest, args) == [I(op, dest, args) EXCEPT !.sign = "u32"]
S(op, dest, args) == [I(op, dest, args) EXCEPT !.sign = "s32"]
Cmp(rel, sign, dest, a, b) == [I("scmp", dest, <<a, b>>) EXCEPT !.rel = rel, !.sign = sign]
Sel(dest, cond, a, b) == [I("smov", dest, <<a, b>>) EXCEPT !.cond = cond]
In(dest, index) == [I("inlined_call_operand", dest, <<>>) EXCEPT !.index = index]
If(guard, i) == [i EXCEPT !.guard = guard]
Br(guard, target, delay) ==
  [Nop EXCEPT !.op = "sbr", !.guard = guard, !.target = target, !.delay = delay]
Go(target) == Br(NoToken, target, 0)
Load(dest, at, plus) == [I("sld", dest, <<>>) EXCEPT !.at = at, !.plus = plus]
Store(at, plus, r) == [I("sst", "", <<r>>) EXCEPT !.at = at, !.plus = plus]
Dma(u, units, flag) == [I("dma", "", <<C(0), units, C(0), flag>>) EXCEPT !.unit = u]
DmaSmem(dest) == [I("dma", "", <<C(0), C(1), dest, F(A2)>>) EXCEPT !.unit = "in", !.toSmem = TRUE]
Wait(flag, units) == I("dma_wait", "", <<flag, units>>)
Sync(flag, units) == I("vsyncadd", "", <<flag, C(units % Modulus)>>)
CallTo(callee, args) == [I("inlined_call", "", args) EXCEPT !.callee = callee]
On(u, i) == [i EXCEPT !.unit = u]
Lea(sign, dest, a, b) == [I("scalar_lea", dest, <<a, b>>) EXCEPT !.sign = sign]
Mem(sign, i) == [i EXCEPT !.sign = sign]

B(ins) == [ins |-> ins, header |-> FALSE, join |-> FALSE, hlo |-> 0, latch |-> 0]
H(ins) == [B(ins) EXCEPT !.header = TRUE]
J(ins) == [B(ins) EXCEPT !.join = TRUE]

Envs(ins) == {[in |-> <<a>>, other |-> o] : a \in ins, o \in {0, 5}}
K(bundles, envs) ==
  [code |-> bundles, assumed |-> <<>>, scalars |-> <<>>, memory |-> <<>>,
   peersReady |-> FALSE, validAddresses |-> FALSE, maxVisits |-> 40, environments |-> envs]

(* Two operands of which an interval, a word or nothing is known.          *)
Signs == <<"s32", "u32">>
Ops == <<"sadd", "ssub", "sshll", "sshrl", "sshra", "smin", "sand", "sor", "sxor", "smul">>
Rels == <<"eq", "ne", "lt", "le", "gt", "ge">>
AllOps ==
  LET op(k) == Ops[k \div 2]   sign(k) == Signs[(k % 2) + 1]   rel(k) == Rels[k \div 2]
      x == R("x")              v == R("v")
  IN  [k \in 1..20 |-> [I(op(k + 1), op(k + 1) \o sign(k), <<x, v>>) EXCEPT !.sign = sign(k)]]
      \o [k \in 1..12 |-> Cmp(rel(k + 1), sign(k), rel(k + 1) \o sign(k), x, v)]
Operands(a, b) == IF a > b THEN <<R("u"), R("u")>> ELSE <<C(a), C(b)>>
WordsKernel(a, b, c, d) ==
  K(<<B(<<Sel("x", R("p"), Operands(a, b)[1], Operands(a, b)[2]),
          Sel("v", R("q"), Operands(c, d)[1], Operands(c, d)[2])>>),
      B(AllOps)>>, {})
Intervals == {<<a, b>> \in Word \X Word : a <= b} \cup {<<1, 0>>}
Seconds == {<<0, 0>>, <<1, 1>>, <<2, 2>>, <<7, 7>>, <<1, 3>>, <<3, 4>>, <<5, 6>>, <<1, 0>>}
WordsNames == {<<"words", x[1], x[2], y[1], y[2]>> : x \in Intervals, y \in Seconds}

(* Counted loops; negated guards for some.                                 *)
LoopKernel(seed, step, bound, rel, sign) ==
  LET negated == rel \in {"ge", "gt", "eq"} IN
  [K(<<H(<<I("sphi", "i", <<C(seed), R("i1")>>)>>),
       B(<<[I("sadd", "i1", <<R("i"), C(step)>>) EXCEPT !.sign = sign], Dma("in", C(1), F(A1))>>),
       B(<<Cmp(rel, sign, "p", R("i1"), C(bound))>>),
       B(<<I("slow", "", <<R("p")>>)>>), B(<<Br(IF negated THEN Not("p") ELSE R("p"), 1, 0)>>),
       B(<<Wait(F(A1), C(1))>>)>>, {[in |-> <<>>, other |-> 0]})
   EXCEPT !.maxVisits = IF step = 3 THEN 9 ELSE 16]
LoopNames == {<<"loop", seed, step, bound, rel, sign>> :
                seed \in {0, 5}, step \in {1, 3}, bound \in {0, 1, 3, 4, 6, 7},
                rel \in {"lt", "le", "ne"}, sign \in {"s32", "u32"}}
             \cup {<<"loop", 0, 1, bound, rel, "u32">> : bound \in Word, rel \in {"eq", "ge", "gt"}}

(* A counter, its update, comparison and backward branch.                  *)
Phi(dest, a, b) == I("sphi", dest, <<a, b>>)
Low == Cmp("lt", "u32", "p", R("a"), C(4))
All == Envs(Word)
One == Envs({3})

(* predicated setup before its branch, a delay slot, a phi at the join   *)
DiamondKernel ==
  K(<<B(<<In("a", 1)>>), B(<<Low>>), B(<<If(R("p"), S("smov", "x", <<C(1)>>))>>),
  B(<<Br(R("p"), 6, 1)>>), B(<<S("sadd", "y", <<R("x"), C(1)>>)>>),
  B(<<S("sadd", "z", <<R("y"), C(2)>>)>>),
  J(<<Phi("w", R("y"), R("z")), I("slow", "", <<R("w")>>)>>)>>, All)
JoinKernel ==
  K(<<B(<<In("a", 1)>>), B(<<Low, S("smov", "y", <<C(5)>>)>>),
  B(<<Br(R("p"), 6, 0)>>), B(<<S("smov", "z", <<C(2)>>)>>), B(<<I("slow", "", <<>>)>>),
  J(<<Phi("w", R("y"), R("z"))>>), B(<<Dma("in", R("w"), F(A1)), Phi("w2", R("w"), R("w"))>>),
  B(<<Wait(F(A1), C(2))>>)>>, All)

(* one arm uses up the credits the other leaves                          *)
CreditsKernel ==
  K(<<B(<<In("a", 1)>>), B(<<Low, Dma("in", C(4), F(A1))>>),
  B(<<Br(R("p"), 7, 0)>>), B(<<Wait(F(A1), C(4))>>), B(<<Sync(F(A1), -4)>>), B(<<Go(9)>>),
  B(<<I("slow", "x", <<>>)>>), B(<<I("slow", "", <<R("x")>>)>>), B(<<Dma("in", C(7), F(A1))>>),
  B(<<Wait(F(A1), C(4))>>), B(<<Dma("out", C(7), F(A2))>>), B(<<Wait(F(A2), C(7))>>)>>, All)

(* two unknown guards in one bundle, unknown sizes, a write of each arm  *)
GuardsKernel ==
  K(<<B(<<In("a", 1), In("b", 2)>>),
  B(<<Low, Cmp("eq", "u32", "q", R("a"), C(2)), S("smov", "x", <<C(7)>>)>>),
  B(<<If(R("p"), S("smov", "x", <<C(1)>>)), If(Not("q"), S("smov", "y", <<C(1)>>))>>),
  B(<<If(R("q"), Dma("in", R("x"), F(A1))), I("slow", "", <<R("y")>>)>>),
  B(<<U("smin", "s", <<R("b"), C(3)>>), S("sadd", "t", <<R("x"), C(1)>>)>>),
  B(<<U("sshrl", "v", <<R("s"), C(2)>>)>>), B(<<Dma("out", R("v"), F(A2))>>)>>, All)

(* loops in loops: the inner bound is the outer counter                  *)
NestedKernel ==
  K(<<H(<<Phi("i", C(0), R("i1"))>>), H(<<Phi("j", R("i"), R("j1"))>>),
  B(<<S("sadd", "j1", <<C(1), R("j")>>)>>), B(<<Cmp("lt", "s32", "q", R("j1"), C(3))>>),
  B(<<Br(R("q"), 2, 1)>>), B(<<S("sadd", "n", <<R("j"), R("i")>>)>>),
  B(<<S("sadd", "i1", <<R("i"), C(1)>>)>>), B(<<Cmp("ge", "u32", "p", R("i1"), C(2))>>),
  B(<<Br(Not("p"), 1, 0)>>)>>, One)
(* a loop with a second way out: its joins take a second pass             *)
LeavesKernel ==
  K(<<B(<<In("a", 1)>>), H(<<Phi("i", C(0), R("i1"))>>),
  B(<<S("sadd", "i1", <<R("i"), C(1)>>), Cmp("eq", "u32", "p", R("a"), C(2))>>),
  B(<<Cmp("lt", "u32", "q", R("i1"), R("a"))>>), B(<<Br(R("p"), 9, 0)>>),
  B(<<Br(R("q"), 2, 0)>>), B(<<I("slow", "x", <<>>)>>), B(<<Go(10)>>),
  B(<<Dma("in", C(2), F(A1))>>), J(<<I("slow", "", <<R("x")>>)>>)>>, All)
HaltKernel ==
  K(<<B(<<In("a", 1)>>), B(<<Low, S("smov", "n", <<C(1)>>)>>), B(<<Br(R("p"), 6, 0)>>),
  B(<<S("smov", "n", <<C(2)>>)>>), B(<<I("shalt", "", <<>>)>>),
  B(<<Dma("in", R("n"), F(A1))>>), B(<<Wait(F(A1), R("n"))>>)>>, All)
HaltAllKernel ==
  K(<<B(<<In("a", 1)>>), B(<<Low>>), B(<<Br(R("p"), 5, 0)>>),
  B(<<I("shalt", "", <<>>)>>), B(<<I("shalt", "", <<>>)>>)>>, All)
HaltMaybeKernel ==
  K(<<B(<<In("a", 1)>>), B(<<Low>>), B(<<If(R("p"), I("shalt", "", <<>>))>>)>>, All)

(* spills survive calls and wild stores, other memory doesn't            *)
MemoryKernel ==
  [K(<<B(<<In("a", 1), S("smov", "x", <<C(3)>>)>>),
  B(<<Store(F(S1), C(0), R("x")), Store(F(A1), C(1), R("x"))>>),
  B(<<Load("l0", F(A1), C(0)), Load("l1", F(A1), C(1)), Low>>),
  B(<<If(R("p"), Store(R("a"), C(0), R("l0")))>>),
  B(<<Load("l2", F(S1), C(0)), Load("l3", F(A1), C(1))>>),
  B(<<DmaSmem(F(A1))>>), B(<<Load("l4", F(A1), C(0)), Load("l5", F(A1), C(1))>>),
  B(<<If(R("p"), Store(F(A1), C(0), R("x")))>>), B(<<Load("l6", F(A1), C(0))>>),
  B(<<Dma("in", R("l2"), F(A2)), Dma("out", R("l6"), F(A2))>>), B(<<Wait(F(A2), R("l2"))>>)>>, All)
  EXCEPT !.memory = <<A1, 0>> :> C(2) @@ <<A1, 1>> :> C(6)]
RepeatKernel ==
  K(<<H(<<>>), B(<<Go(1)>>)>>, {})
UnboundedKernel ==
  K(<<B(<<Cmp("lt", "u32", "p", R("u"), C(4))>>), B(<<Br(R("p"), 1, 0)>>)>>, {})
NoJoinKernel ==
  K(<<B(<<Cmp("lt", "u32", "p", R("u"), C(4))>>), B(<<Br(R("p"), 4, 0)>>),
  B(<<>>), B(<<Go(4)>>)>>, {})
GrowsKernel ==
  K(<<H(<<Phi("i", C(0), R("i1"))>>), B(<<Lea("vmem", "b", R("base"), R("i"))>>),
  B(<<S("sadd", "i1", <<R("i"), C(1)>>), Lea("vmem", "c", R("b"), C(1))>>), B(<<Go(1)>>)>>, {})

(* addresses of one unknown base compare by their offsets                *)
AddressesKernel ==
  [K(<<H(<<Phi("i", C(0), R("i1"))>>), B(<<Lea("vmem", "b", R("base"), R("i"))>>),
  B(<<S("sadd", "c", <<R("b"), C(2)>>), U("ssub", "d", <<R("b"), C(1)>>)>>),
  B(<<U("ssub", "e", <<R("c"), R("d")>>), Cmp("ne", "u32", "q", R("c"), R("d"))>>),
  B(<<I("int_to_ptr", "g", <<R("i")>>), Lea("sflag", "f", F(A1), R("e"))>>),
  B(<<S("sadd", "i1", <<R("i"), C(1)>>)>>), B(<<Cmp("lt", "s32", "p", R("i1"), C(2))>>),
  B(<<Br(R("p"), 1, 0)>>), B(<<Lea("hbm", "h", R("base"), R("i"))>>),
  B(<<Dma("in", C(1), R("f"))>>)>>, One) EXCEPT !.validAddresses = TRUE]

(* a poll for peers that are ready                                       *)
PeersKernel ==
  [K(<<H(<<[Nop EXCEPT !.peer = TRUE]>>), B(<<Cmp("eq", "u32", "p", R("u"), C(1))>>),
  B(<<Br(Not("p"), 1, 0), If(Not("p"), S("smov", "x", <<C(1)>>))>>),
  B(<<I("slow", "", <<>>)>>)>>, {}) EXCEPT !.peersReady = TRUE]
GivenKernel ==
  [K(<<B(<<In("a", 1), In("b", 2)>>), B(<<Dma("in", R("a"), F(A1))>>),
  B(<<If(R("k"), Dma("in", R("b"), F(A1)))>>), B(<<Wait(F(A1), R("a"))>>)>>, One)
  EXCEPT !.assumed = [k |-> TRUE], !.scalars = <<C(3), C(1)>>]

(* an HLO bound, and a counter over the whole range of its budget        *)
HloKernel ==
  [K(AnnotatedLoops(<<B(<<In("a", 1), S("smov", "x", <<C(1)>>)>>), H(<<>>),
  B(<<CallTo(<<"body">>, <<R("x")>>)>>), B(<<U("sadd", "x", <<R("x"), C(1)>>)>>),
  B(<<Cmp("lt", "u32", "p", R("x"), R("a"))>>), B(<<Br(R("p"), 2, 0)>>)>>, <<"body">> :> 7), All)
  EXCEPT !.maxVisits = 30]
BodyKernel ==
  K(<<B(<<In("n", 1)>>), B(<<Dma("in", C(2), F(A1))>>), B(<<Wait(F(A1), C(2))>>),
  B(<<Dma("in", R("n"), F(A2))>>)>>, One)

(* calls: an alias, a loop that calls, constants that bind the callee    *)
CallsKernel ==
  K(<<B(<<S("smov", "x", <<C(2)>>), In("a", 1)>>), B(<<CallTo(<<"leaf">>, <<R("x")>>)>>),
  H(<<Phi("i", C(0), R("i1"))>>), B(<<S("sadd", "i1", <<R("i"), C(1)>>)>>),
  B(<<CallTo(<<"same">>, <<R("i1")>>)>>), B(<<Cmp("lt", "s32", "p", R("i1"), C(2))>>),
  B(<<Br(R("p"), 3, 0)>>), B(<<CallTo(<<"body">>, <<R("a")>>)>>)>>, All)
LeafKernel ==
  K(<<B(<<In("n", 1)>>), B(<<Cmp("eq", "u32", "p", R("n"), C(1))>>),
  B(<<Br(R("p"), 5, 0)>>), B(<<Dma("in", C(4), F(A1))>>), B(<<Dma("out", C(1), F(A1))>>),
  B(<<Wait(F(A1), C(1))>>), B(<<I("slow", "", <<>>)>>)>>, One)
RecursiveKernel ==
  K(<<B(<<>>), B(<<CallTo(<<"recursive">>, <<>>)>>)>>, {})
CoIssuedKernel ==
  K(<<B(<<CallTo(<<"leaf">>, <<>>), I("slow", "", <<>>)>>)>>, {})

(* pending branches that don't fit                                       *)
TruncatedKernel ==
  K(<<B(<<>>), B(<<Br(NoToken, 1, 3)>>)>>, {})
WindowKernel ==
  K(<<B(<<Br(NoToken, 3, 1)>>), B(<<Go(1)>>), B(<<>>)>>, {})
DelayedKernel ==
  K(<<B(<<Low>>), B(<<Br(NoToken, 5, 2)>>), B(<<If(R("p"), S("smov", "x", <<C(1)>>))>>),
  B(<<If(Not("p"), I("slow", "", <<>>))>>), B(<<>>)>>, {})
ReturnsKernel ==
  K(<<B(<<I("sret", "", <<>>)>>)>>, {})
BadDelayKernel ==
  K(<<B(<<Low>>), B(<<Br(R("p"), 1, NoDelay)>>)>>, {})

(* queues of results, result slots, casts and physical registers         *)
QueuesKernel ==
  K(<<B(<<In("a", 1), On("xlu0", I("vpush", "", <<R("a")>>))>>),
  B(<<On("xlu0", I("vpush", "", <<>>)), On("xlu0", I("vpop", "v1", <<>>))>>),
  B(<<On("xlu0", I("vpush", "", <<R("v1")>>)), On("xlu1", I("vpush", "", <<>>))>>),
  B(<<On("xlu0", I("vpop", "v2", <<>>)), [On("mxu0", I("vmatmul", "", <<R("v1")>>)) EXCEPT !.index = 1]>>),
  B(<<On("xlu0", I("vpop", "v3", <<>>)), I("ptr_to_int", "c", <<R("v2")>>)>>),
  B(<<[On("mxu0", I("vpop_mrb", "v4", <<>>)) EXCEPT !.index = 1], I("int_to_ptr", "d", <<R("c")>>)>>),
  B(<<[On("mxu0", I("vpop_mrb", "v5", <<>>)) EXCEPT !.index = 2, !.physical = "r1"]>>),
  B(<<[On("mxu0", I("vmatmul", "", <<R("v4"), R("d")>>)) EXCEPT !.index = 1],
     [I("slow", "v6", <<R("v5")>>) EXCEPT !.physical = "r1"]>>),
  B(<<On("xlu1", I("vpop", "v7", <<>>)), I("vdelay", "", <<C(3)>>)>>)>>, One)
OverwrittenKernel ==
  K(<<B(<<On("mxu0", I("vmatmul", "", <<>>))>>),
  B(<<On("mxu0", I("vmatmul", "", <<>>))>>)>>, {})

Hand ==
  <<"diamond">> :> DiamondKernel
  @@ <<"join">> :> JoinKernel
  @@ <<"credits">> :> CreditsKernel
  @@ <<"guards">> :> GuardsKernel
  @@ <<"nested">> :> NestedKernel
  @@ <<"leaves">> :> LeavesKernel
  @@ <<"halt">> :> HaltKernel
  @@ <<"halt_all">> :> HaltAllKernel
  @@ <<"halt_maybe">> :> HaltMaybeKernel
  @@ <<"memory">> :> MemoryKernel
  @@ <<"repeat">> :> RepeatKernel
  @@ <<"unbounded">> :> UnboundedKernel
  @@ <<"no_join">> :> NoJoinKernel
  @@ <<"grows">> :> GrowsKernel
  @@ <<"addresses">> :> AddressesKernel
  @@ <<"peers">> :> PeersKernel
  @@ <<"given">> :> GivenKernel
  @@ <<"hlo">> :> HloKernel
  @@ <<"body">> :> BodyKernel
  @@ <<"calls">> :> CallsKernel
  @@ <<"leaf">> :> LeafKernel
  @@ <<"recursive">> :> RecursiveKernel
  @@ <<"co_issued">> :> CoIssuedKernel
  @@ <<"truncated">> :> TruncatedKernel
  @@ <<"window">> :> WindowKernel
  @@ <<"delayed">> :> DelayedKernel
  @@ <<"returns">> :> ReturnsKernel
  @@ <<"bad_delay">> :> BadDelayKernel
  @@ <<"queues">> :> QueuesKernel
  @@ <<"overwritten">> :> OverwrittenKernel

Plain(names) == [n \in names |-> [root |-> n, modules |-> {n}, aliases |-> <<>>]]
Composite ==
  LET of(root) == [root |-> root, modules |-> {root, <<"body">>, <<"leaf">>},
                   aliases |-> <<"same">> :> <<"leaf">>]
  IN  [n \in {<<"hlo">>, <<"calls">>, <<"recursive">>, <<"co_issued">>} |-> of(n)]

AsWritten ==
  [n \in WordsNames |-> WordsKernel(n[2], n[3], n[4], n[5])]
    @@ [n \in LoopNames |-> LoopKernel(n[2], n[3], n[4], n[5], n[6])]
    @@ Hand
PreparedAll(kernels) == [n \in DOMAIN kernels |-> Prepared(kernels[n])]
AllKernels == PreparedAll(AsWritten)
(* A reference, for TLC to work the kernels out once.                      *)
MCKernels == AllKernels
MCPrograms == Composite @@ Plain(WordsNames \cup LoopNames \cup DOMAIN Hand)
============================================================================
