----------------------------- MODULE ScalarValues -----------------------------
(***************************************************************************)
(* What the analysis knows of a scalar (python/sim_pjrt/llo/scalar.py):    *)
(* nothing, a word, an interval of unsigned words that doesn't wrap, or an *)
(* address, an allocation (or an SSA name that stands for one) plus an     *)
(* offset.  Evaluate is what one instruction writes; Machine is what the   *)
(* hardware writes, on words, and Words the words a value stands for.      *)
(*                                                                         *)
(* Words have WordBits bits instead of 32.  A base of an address is a      *)
(* <<name, number>>: an allocation, or the defining instruction's visit.   *)
(***************************************************************************)
EXTENDS Integers, Sequences, FiniteSets, FiniteSetsExt

CONSTANTS
  WordBits,
  Allocations      (* the bases of addresses the compiler allocates        *)

ASSUME WordAssumption == WordBits \in Nat \ {0}

Modulus == 2 ^ WordBits
SignBit == 2 ^ (WordBits - 1)
Word == 0..(Modulus - 1)

(* What proofs need to know of powers of two.                              *)
ASSUME PowerAssumption ==
  /\ 2^0 = 1
  /\ \A k \in 0..(WordBits - 1) : 2^k \in 1..SignBit /\ 2^(k + 1) = 2 * 2^k

NoBase == <<"", 0>>
Value(t, base, lo, hi) == [t |-> t, base |-> base, lo |-> lo, hi |-> hi]
Unknown == Value("unknown", NoBase, 0, 0)
Const(n) == Value("int", NoBase, n, n)
Interval(lo, hi) == IF lo = hi THEN Const(lo) ELSE Value("range", NoBase, lo, hi)
Pointer(base, offset) == Value("pointer", base, offset, offset)
Flag(base, offset) == Value("flag", base, offset, offset)
Truth(b) == Const(IF b THEN 1 ELSE 0)

(* Operands as they are written: a register, its negation, or a value.     *)
Reg(r) == Value("reg", <<r, 0>>, 0, 0)
Not(r) == Value("not", <<r, 0>>, 0, 0)
NoToken == Value("none", NoBase, 0, 0)
NameOf(token) == token.base[1]

IsConst(v) == v.t = "int"
IsNumeric(v) == v.t \in {"int", "range"}
IsAddress(v) == v.t \in {"pointer", "flag"}

Wrap(n) == n % Modulus
Signed(n) == IF Wrap(n) >= SignBit THEN Wrap(n) - Modulus ELSE Wrap(n)

(* FoldLeft that binds every accumulator: an argument of an operator is
   evaluated again at each use when TLC evaluates ENABLED.                 *)
Fold(op(_, _), base, seq) ==
  LET fold[n \in 0..Len(seq)] ==
        IF n = 0 THEN base
        ELSE CHOOSE r \in {op(acc, seq[n]) : acc \in {fold[n - 1]}} : TRUE
  IN  fold[Len(seq)]

Least(S) == CHOOSE n \in S : \A m \in S : n <= m
Greatest(S) == CHOOSE n \in S : \A m \in S : m <= n

And(a, b) ==
  MapThenSumSet(LAMBDA k : IF (a \div 2^k) % 2 = 1 /\ (b \div 2^k) % 2 = 1
                           THEN 2^k ELSE 0, 0..(WordBits - 1))
Or(a, b) == a + b - And(a, b)

Holds(rel, a, b) ==
  \/ rel = "eq" /\ a = b
  \/ rel = "ne" /\ a # b
  \/ rel = "lt" /\ a < b
  \/ rel = "le" /\ a <= b
  \/ rel = "gt" /\ a > b
  \/ rel = "ge" /\ a >= b

----------------------------------------------------------------------------
(* Intervals *)

(* A comparison of two intervals is known when all their words agree.      *)
Compare(rel, lo, hi, blo, bhi) ==
  LET known(yes, no) == IF yes THEN Const(1) ELSE IF no THEN Const(0) ELSE Unknown
      same == lo = hi /\ hi = blo /\ blo = bhi
      apart == hi < blo \/ bhi < lo
  IN  CASE rel = "eq" -> known(same, apart)
        [] rel = "ne" -> known(apart, same)
        [] rel = "lt" -> known(hi < blo, lo >= bhi)
        [] rel = "le" -> known(hi <= blo, lo > bhi)
        [] rel = "gt" -> known(lo > bhi, hi <= blo)
        [] rel = "ge" -> known(lo >= bhi, hi < blo)

RangeOps == {"sadd", "ssub", "sshll", "sshrl", "sshra", "scmp"}

(* Mutant of Arithmetic: an interval that straddles zero is wrapped.       *)
ArithmeticWraps(i, x, y) ==
  Interval(Wrap(x.lo + y.lo), Least({Modulus - 1, x.hi + y.hi}))

(* In signed arithmetic an interval across the sign bit has no order; a
   result that wraps, or straddles zero, is not an interval of words.      *)
IsSigned(i) == i.sign = "s32" /\ i.op # "sshrl"
Number(signed, n) == IF signed /\ n >= SignBit THEN n - Modulus ELSE n
AcrossSign(v) == v.lo < SignBit /\ SignBit <= v.hi

Spanning(signed, lo, hi) ==
  IF \/ lo < (IF signed THEN -SignBit ELSE 0)
     \/ hi > (IF signed THEN SignBit ELSE Modulus) - 1
     \/ lo > hi \/ (lo < 0 /\ hi >= 0)
  THEN Unknown ELSE Interval(Wrap(lo), Wrap(hi))

Arithmetic(i, x, y) ==
  LET signed == IsSigned(i)
      lo == Number(signed, x.lo)   hi == Number(signed, x.hi)
      blo == Number(signed, y.lo)  bhi == Number(signed, y.hi)
  IN  IF signed /\ (AcrossSign(x) \/ AcrossSign(y)) THEN Unknown
      ELSE CASE i.op = "scmp" -> Compare(i.rel, lo, hi, blo, bhi)
             [] i.op = "sadd" -> Spanning(signed, lo + blo, hi + bhi)
             [] i.op = "ssub" -> Spanning(signed, lo - bhi, hi - blo)
             [] i.op \in {"sshll", "sshrl", "sshra"} ->
                  IF blo # bhi \/ blo \notin 0..(WordBits - 1) THEN Unknown
                  ELSE IF i.op = "sshll" THEN Spanning(signed, lo * 2^blo, hi * 2^blo)
                  ELSE Spanning(signed, lo \div 2^blo, hi \div 2^blo)

(* smin, sand and sshrl bound a word of which nothing else is known.       *)
Clamps(i) == i.sign = "u32" /\ i.op \in {"smin", "sand", "sshrl"}

Clamp(i, x, y) ==
  LET lo(v) == IF IsNumeric(v) THEN v.lo ELSE 0
      hi(v) == IF IsNumeric(v) THEN v.hi ELSE Modulus - 1
  IN  CASE i.op = "smin" -> Interval(Least({lo(x), lo(y)}), Least({hi(x), hi(y)}))
        [] i.op = "sand" -> IF IsConst(x) /\ IsConst(y) THEN Const(And(x.lo, y.lo))
                            ELSE Interval(0, Least({hi(x), hi(y)}))
        [] i.op = "sshrl" -> IF lo(y) = hi(y) /\ lo(y) \in 0..(WordBits - 1)
                             THEN Interval(lo(x) \div 2^lo(y), hi(x) \div 2^lo(y))
                             ELSE Unknown

----------------------------------------------------------------------------
(* Addresses and words *)

MovesAddress(i, x, y) ==
  /\ i.op \in {"sadd", "ssub", "scalar_lea"} /\ i.sign # "sflag"
  /\ \/ IsAddress(x) /\ IsConst(y)
     \/ i.op = "sadd" /\ IsAddress(y) /\ IsConst(x)

(* The displacement of an address is a signed number if the add is signed. *)
Displaced(i, x, y) ==
  LET swap == i.op = "sadd" /\ IsAddress(y)
      p == IF swap THEN y ELSE x
      n == IF swap THEN x.lo ELSE y.lo
      d == IF i.sign = "s32" THEN Signed(n) ELSE n
  IN  Pointer(p.base, p.lo + (IF i.op = "ssub" THEN -d ELSE d))

(* Addresses of one allocation compare and subtract as their offsets.      *)
SameBase(i, x, y) ==
  i.op \in {"ssub", "scmp"} /\ IsAddress(x) /\ IsAddress(y) /\ x.base = y.base

(* Two known operands: the word the machine would write.                   *)
Exact(i, m, n) ==
  LET a == IF i.sign = "s32" THEN Signed(m) ELSE m
      b == IF i.sign = "s32" THEN Signed(n) ELSE n
  IN  CASE i.op = "sadd" -> Const(Wrap(a + b))
        [] i.op = "ssub" -> Const(Wrap(a - b))
        [] i.op = "smul" -> Const(Wrap(a * b))
        [] i.op = "sand" -> Const(And(Wrap(a), Wrap(b)))
        [] i.op = "sor" -> Const(Or(Wrap(a), Wrap(b)))
        [] i.op = "sxor" -> Const(Or(Wrap(a), Wrap(b)) - And(Wrap(a), Wrap(b)))
        [] i.op = "pand" -> Truth(a # 0 /\ b # 0)
        [] i.op = "por" -> Truth(a # 0 \/ b # 0)
        [] i.op = "pnand" -> Truth(a = 0 \/ b = 0)
        [] i.op \in {"sshll", "sshrl", "sshra"} /\ b \in 0..(WordBits - 1) ->
             Const(Wrap(IF i.op = "sshll" THEN a * 2^b
                        ELSE IF i.op = "sshra" THEN a \div 2^b ELSE Wrap(a) \div 2^b))
        [] i.op = "scmp" -> Truth(Holds(i.rel, a, b))
        [] OTHER -> Unknown

(* _smem_slot: an allocation and an offset, direct or through a register.  *)
NoSlot == <<NoBase, 0>>
SmemSlot(at, plus) ==
  IF IsAddress(at) /\ IsConst(plus) THEN <<at.base, at.lo + plus.lo>> ELSE NoSlot

Casts == {"int_to_ptr", "ptr_to_int"}

Select(cond, x, y) ==
  IF cond # Unknown THEN (IF cond = Const(0) THEN x ELSE y)
  ELSE IF IsNumeric(x) /\ IsNumeric(y)
       THEN Interval(Least({x.lo, y.lo}), Greatest({x.hi, y.hi}))
       ELSE Unknown

Binary(i, x, y) ==
  IF i.op \in {"pand", "pnand"} /\ Const(0) \in {x, y} THEN Truth(i.op = "pnand")
  ELSE IF i.op = "por" /\ \E v \in {x, y} : IsConst(v) /\ v.lo # 0 THEN Const(1)
  ELSE IF IsNumeric(x) /\ IsNumeric(y) /\ ~(IsConst(x) /\ IsConst(y)) /\ i.op \in RangeOps
  THEN Arithmetic(i, x, y)
  ELSE IF Clamps(i) THEN Clamp(i, x, y)
  ELSE IF SameBase(i, x, y) THEN Exact(i, x.lo, y.lo)
  ELSE IF MovesAddress(i, x, y) THEN Displaced(i, x, y)
  ELSE IF i.op = "scalar_lea" /\ i.sign = "sflag"
  THEN IF IsAddress(x) /\ x.base \in Allocations /\ IsConst(y) /\ x.lo + y.lo >= 0
       THEN Flag(x.base, x.lo + y.lo) ELSE Unknown
  ELSE IF IsConst(x) /\ IsConst(y) THEN Exact(i, x.lo, y.lo) ELSE Unknown

(* _evaluate: the value written, from the registers before the bundle.     *)
Evaluate(i, cond, x, slot, memory) ==
  CASE i.op \in Casts \cup {"smov", "pmov"} /\ Len(x) = 1 -> x[1]
    [] i.op = "smov" /\ Len(x) = 2 -> Select(cond, x[1], x[2])
    [] i.op \in {"pneg", "pnot"} ->
         IF x[1] = Unknown THEN Unknown ELSE Truth(x[1] = Const(0))
    [] i.op = "sld" -> IF slot \in DOMAIN memory THEN memory[slot] ELSE Unknown
    [] i.op = "scalar_select" ->
         IF ~IsConst(x[1]) THEN Unknown ELSE IF x[1].lo # 0 THEN x[2] ELSE x[3]
    [] i.op \notin Casts \cup {"smov", "pmov"} /\ Len(x) = 2 -> Binary(i, x[1], x[2])
    [] OTHER -> Unknown

----------------------------------------------------------------------------
(* What the analysis finds *)

IsValue(v) ==
  \/ v = Unknown
  \/ \E lo, hi \in Word : lo <= hi /\ v = Interval(lo, hi)
  \/ IsAddress(v) /\ v.lo \in Int /\ v \in {Pointer(v.base, v.lo), Flag(v.base, v.lo)}

Predicates == {Unknown, Const(0), Const(1)}
PredicateOps == {"pneg", "pnot", "pand", "por", "pnand", "scmp"}
Relations == {"eq", "ne", "lt", "le", "gt", "ge"}

(* An address that can be compared by its offset: neither wraps.           *)
SignedWords == (-SignBit)..(SignBit - 1)
Unwrapped(i, v, place) ==
  IsAddress(v) =>
    IF i.sign = "s32" THEN v.lo \in SignedWords /\ place[v.base] + v.lo \in SignedWords
    ELSE place[v.base] + v.lo \in Word

----------------------------------------------------------------------------
(* The machine *)

(* The words a value stands for, when its base lies at place[base].        *)
Words(v, place) ==
  CASE v.t = "unknown" -> Word
    [] IsNumeric(v) -> v.lo..v.hi
    [] IsAddress(v) -> {Wrap(place[v.base] + v.lo)}

(* One instruction on words: two's complement, shifts by less than a word;
   nothing is known of an instruction that isn't listed.                   *)
Machine(i, w) ==
  LET s(n) == IF i.sign = "s32" THEN Signed(n) ELSE n
      bit(b) == IF b THEN 1 ELSE 0
  IN  CASE i.op \in Casts \cup {"pmov"} -> {w[1]}
        [] i.op = "smov" -> {w[Len(w)]}
        [] i.op \in {"pneg", "pnot"} -> {bit(w[1] = 0)}
        [] i.op \in {"sadd", "scalar_lea"} -> {(w[1] + w[2]) % Modulus}
        [] i.op = "ssub" -> {(w[1] - w[2]) % Modulus}
        [] i.op = "smul" -> {(w[1] * w[2]) % Modulus}
        [] i.op = "smin" -> {CHOOSE n \in {w[1], w[2]} : s(n) <= s(w[1]) /\ s(n) <= s(w[2])}
        [] i.op = "sand" -> {And(w[1], w[2])}
        [] i.op = "sor" -> {Or(w[1], w[2])}
        [] i.op = "sxor" -> {w[1] + w[2] - 2 * And(w[1], w[2])}
        [] i.op = "sshll" /\ w[2] < WordBits -> {(w[1] * 2^w[2]) % Modulus}
        [] i.op = "sshrl" /\ w[2] < WordBits -> {w[1] \div 2^w[2]}
        [] i.op = "sshra" /\ w[2] < WordBits -> {(s(w[1]) \div 2^w[2]) % Modulus}
        [] i.op = "scmp" -> {bit(Holds(i.rel, s(w[1]), s(w[2])))}
        [] i.op = "pand" -> {bit(w[1] # 0 /\ w[2] # 0)}
        [] i.op = "por" -> {bit(w[1] # 0 \/ w[2] # 0)}
        [] i.op = "pnand" -> {bit(w[1] = 0 \/ w[2] = 0)}
        [] i.op = "scalar_select" -> {IF w[1] # 0 THEN w[2] ELSE w[3]}
        [] OTHER -> Word
============================================================================
