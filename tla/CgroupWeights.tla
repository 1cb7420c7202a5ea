--------------------------- MODULE CgroupWeights ---------------------------
(***************************************************************************)
(* From --cpu-shares to cpu.weight (cpuSharesToWeight in                   *)
(* pkg/runtime/cgroups.go).  Nothing checks what the user asks for, so     *)
(* that shares are any integer of the machine: half is the number of its   *)
(* integers that are not negative.                                         *)
(***************************************************************************)
EXTENDS Integers, TLAPS

\* Go rounds towards zero.
Quotient(a, b) == IF a < 0 THEN -((-a) \div b) ELSE a \div b

\* What is left of n in an integer of the machine.
Wrapped(n, half) == IF n \in (-half)..(half - 1) THEN n ELSE ((n + half) % (2 * half)) - half

Product(shares, half) == Wrapped((shares - 2) * 9999, half)

Between(w, lo, hi) == IF w < lo THEN lo ELSE IF w > hi THEN hi ELSE w

cpuSharesToWeight(shares, half) ==
    IF shares <= 0 THEN 100
    ELSE Between(1 + Quotient(Product(shares, half), 262142), 1, 10000)

-----------------------------------------------------------------------------

(* The product is a number, also when it overflows.                        *)
LEMMA ProductInteger ==
    ASSUME NEW half \in Nat \ {0}, NEW shares \in Int
    PROVE  Product(shares, half) \in Int
<1> DEFINE n == (shares - 2) * 9999
<1>1. n \in Int /\ 2 * half \in Nat \ {0}
  OBVIOUS
<1>2. \A m \in Nat \ {0} : (n + half) % m \in Int
  BY <1>1
<1>3. (n + half) % (2 * half) \in Int
  BY <1>1, <1>2
<1> HIDE DEF n
<1>4. Wrapped(n, half) \in Int
  BY <1>1, <1>3 DEF Wrapped
<1> QED
  BY <1>4 DEF Product, n

\* The kernel takes weights from 1 to 10000: whatever the shares are, and
\* even if the product does not fit, it is given no other.
THEOREM WeightAccepted ==
    ASSUME NEW half \in Nat \ {0}, NEW shares \in Int
    PROVE  cpuSharesToWeight(shares, half) \in 1..10000
<1> DEFINE w == 1 + Quotient(Product(shares, half), 262142)
<1>1. w \in Int
  BY ProductInteger DEF Quotient
<1> HIDE DEF w
<1>2. Between(w, 1, 10000) \in 1..10000
  BY <1>1 DEF Between
<1> QED
  BY <1>2 DEF cpuSharesToWeight, w

(* And the one that is meant, when it does not.                            *)
LEMMA ProductFits ==
    ASSUME NEW half \in Nat \ {0}, NEW shares \in Nat \ {0}, 9999 < half,
           (shares - 2) * 9999 < half
    PROVE  Product(shares, half) = (shares - 2) * 9999
BY DEF Product, Wrapped

\* As long as the product fits, who asks for more never gets less.
THEOREM MoreSharesMoreWeight ==
    ASSUME NEW half \in Nat \ {0}, 9999 < half,
           NEW s \in Nat \ {0}, NEW t \in Nat \ {0},
           s <= t, (t - 2) * 9999 < half
    PROVE  cpuSharesToWeight(s, half) <= cpuSharesToWeight(t, half)
<1>1. Product(s, half) = (s - 2) * 9999 /\ Product(t, half) = (t - 2) * 9999
  <2>1. (s - 2) * 9999 < half
    OBVIOUS
  <2> QED
    BY <2>1, ProductFits
<1>2. \A a, b \in Int : a <= b => Quotient(a, 262142) <= Quotient(b, 262142)
  BY DEF Quotient
<1>3. /\ Quotient((s - 2) * 9999, 262142) <= Quotient((t - 2) * 9999, 262142)
      /\ Quotient((s - 2) * 9999, 262142) \in Int
      /\ Quotient((t - 2) * 9999, 262142) \in Int
  BY <1>2 DEF Quotient
<1>4. \A v, w \in Int : v <= w => Between(v, 1, 10000) <= Between(w, 1, 10000)
  BY DEF Between
<1> QED
  BY <1>1, <1>3, <1>4 DEF cpuSharesToWeight

\* The ends of the range of shares, 2 and 262144, are those of the weights.
THEOREM EndsMeet ==
    ASSUME NEW half \in Nat \ {0}, 262142 * 9999 < half
    PROVE  cpuSharesToWeight(2, half) = 1 /\ cpuSharesToWeight(262144, half) = 10000
<1>1. Product(2, half) = 0 /\ Product(262144, half) = 262142 * 9999
  BY ProductFits
<1>2. Quotient(0, 262142) = 0 /\ Quotient(262142 * 9999, 262142) = 9999
  BY DEF Quotient
<1> QED
  BY <1>1, <1>2 DEF cpuSharesToWeight, Between
=============================================================================
