---------------------- MODULE DistributedObjectProofs ----------------------
(***************************************************************************)
(* What jdistribution.c, its three distributions and the exec functions of *)
(* jdistributed-object.c guarantee for every number of clients and         *)
(* servers, block size, weights, index, offset and length.                 *)
(*                                                                         *)
(* First the layout: the pieces of a request make progress and stay in     *)
(* their block, a piece is one contiguous range of one server's file, no   *)
(* two bytes of the object share a place, and the BSON form brings the     *)
(* same layout back.  Then the object: IInv is an inductive invariant, and *)
(* from it follow that reads are regular and that the files together       *)
(* behave as one array of bytes.  Counting, on top of IInv, makes the      *)
(* counts of a request exact.                                              *)
(***************************************************************************)
EXTENDS DistributedObject, FiniteSetTheorems, WellFoundedInduction, TLAPS

(* The two distributions that know no weights.                            *)
Striped == {"ROUND_ROBIN", "SINGLE_SERVER"}

-----------------------------------------------------------------------------
(* Division: quotient and remainder, and that they are unique.             *)

(* Quotient and remainder exist for the unsigned division of the code.     *)
LEMMA DivMod ==
    ASSUME NEW a \in Nat, NEW b \in Nat \ {0}
    PROVE  /\ a \div b \in Nat
           /\ (a % b) \in 0 .. b - 1 /\ (a % b) \in Int
           /\ a = b * (a \div b) + (a % b)
  <1>1. (a % b) \in 0 .. b - 1 /\ a \div b \in Nat
    OBVIOUS
  <1>2. a = b * (a \div b) + (a % b)
    OBVIOUS
  <1>. QED BY <1>1, <1>2

(* A multiple of b is not between 0 and b.                                 *)
LEMMA NoMultipleBetween ==
    ASSUME NEW b \in Nat \ {0}, NEW m \in Int, NEW n \in Int, m < n
    PROVE  b * m + b <= b * n
  <1>1. PICK k \in Nat : n = m + 1 + k
    <2>1. n - m - 1 \in Nat /\ n = m + 1 + (n - m - 1)
      OBVIOUS
    <2>. QED BY <2>1
  <1>2. b * n = b * m + b + b * k
    BY <1>1
  <1>3. b * k \in Nat
    OBVIOUS
  <1>4. b * m \in Int
    OBVIOUS
  <1>. QED BY <1>2, <1>3, <1>4

(* Quotient and remainder determine each other.                            *)
LEMMA DivModUnique ==
    ASSUME NEW b \in Nat \ {0}, NEW m \in Int, NEW n \in Int,
           NEW r \in 0 .. b - 1, NEW s \in 0 .. b - 1,
           b * m + r = b * n + s
    PROVE  m = n /\ r = s
  <1>. b * m \in Int /\ b * n \in Int
    OBVIOUS
  <1>1. ~(m < n)
    <2>. SUFFICES ASSUME m < n PROVE FALSE
      OBVIOUS
    <2>1. b * m + b <= b * n
      BY NoMultipleBetween
    <2>. QED BY <2>1
  <1>2. ~(n < m)
    <2>. SUFFICES ASSUME n < m PROVE FALSE
      OBVIOUS
    <2>1. b * n + b <= b * m
      BY NoMultipleBetween
    <2>. QED BY <2>1
  <1>3. m = n
    BY <1>1, <1>2
  <1>. QED BY <1>3

(* Two equal quotients and remainders, one dividend.                       *)
LEMMA SameQuotientSameRemainder ==
    ASSUME NEW a \in Nat, NEW c \in Nat, NEW b \in Nat \ {0},
           a \div b = c \div b, a % b = c % b
    PROVE  a = c
  BY DivMod, Zenon

(* Quotient and remainder are recognised by their equation.                *)
LEMMA DivModOf ==
    ASSUME NEW a \in Int, NEW b \in Nat \ {0}, NEW q \in Int, NEW r \in 0 .. b - 1,
           a = b * q + r
    PROVE  a \div b = q /\ a % b = r
  OBVIOUS

(* Inside a block only the remainder moves.                                *)
LEMMA SameBlock ==
    ASSUME NEW a \in Nat, NEW b \in Nat \ {0}, NEW j \in Nat, (a % b) + j < b
    PROVE  (a + j) \div b = a \div b /\ (a + j) % b = (a % b) + j
  <1>1. a \div b \in Nat /\ (a % b) \in 0 .. b - 1 /\ a = b * (a \div b) + (a % b)
    BY DivMod, Zenon
  <1>2. a + j \in Int /\ a \div b \in Int /\ (a % b) + j \in 0 .. b - 1
    BY <1>1
  <1>3. a + j = b * (a \div b) + ((a % b) + j)
    <2>1. b * (a \div b) \in Int
      BY <1>1
    <2>. QED BY <1>1, <2>1
  <1>. QED BY <1>2, <1>3, DivModOf, Zenon

-----------------------------------------------------------------------------
(* Pieces.                                                                 *)

(* While something is left of a request j_distribution_distribute makes    *)
(* progress, never hands out more than is left, and keeps the piece inside *)
(* its block: the loop of the exec functions ends, and covers the request  *)
(* without a gap or an overlap.                                            *)
THEOREM PieceProgress ==
    ASSUME NEW d \in Distributions, d.length > 0
    PROVE  /\ PieceLength(d) \in 1 .. d.length
           /\ Displacement(d) + PieceLength(d) <= d.block_size
           /\ Advance(d) \in Distributions
           /\ Advance(d).length < d.length
           /\ Advance(d).offset + Advance(d).length = d.offset + d.length
  <1>1. d.offset \in Nat /\ d.length \in Nat /\ d.block_size \in Nat \ {0}
    BY DEF Distributions
  <1>2. Displacement(d) \in 0 .. d.block_size - 1
    BY <1>1, DivMod DEF Displacement
  <1>3. /\ PieceLength(d) \in 1 .. d.length
        /\ Displacement(d) + PieceLength(d) <= d.block_size
    BY <1>1, <1>2 DEF PieceLength, Smaller
  <1>4. /\ Advance(d).length = d.length - PieceLength(d)
        /\ Advance(d).offset = d.offset + PieceLength(d)
        /\ Advance(d) = [d EXCEPT !.length = d.length - PieceLength(d),
                                  !.offset = d.offset + PieceLength(d)]
    BY DEF Advance, Distributions
  <1>5. d.length - PieceLength(d) \in Nat /\ d.offset + PieceLength(d) \in Nat
    BY <1>1, <1>3
  <1>6. Advance(d) \in Distributions
    BY <1>4, <1>5, Zenon DEF Distributions
  <1>. QED BY <1>1, <1>3, <1>4, <1>6

-----------------------------------------------------------------------------
(* Induction over the natural numbers, for what the modules define by      *)
(* recursion.                                                              *)

(* A set of natural numbers has a least one.                              *)
LEMMA LeastNat ==
    ASSUME NEW T \in SUBSET Nat, T # {}
    PROVE  \E x \in T : \A y \in T : x <= y
  <1>. DEFINE R == {ss \in Nat \X Nat : ss[1] < ss[2]}
  <1>1. IsWellFoundedOn(R, Nat)
    BY Zenon, NatLessThanWellFounded DEF OpToRel
  <1>2. PICK x \in T : \A y \in T : ~(<<y, x>> \in R)
    <2>. HIDE DEF R
    <2>. QED BY <1>1, WFMin, Zenon
  <1>3. ASSUME NEW y \in T PROVE x <= y
    <2>1. x \in Nat /\ y \in Nat /\ <<y, x>> \in Nat \X Nat /\ <<y, x>>[1] = y /\ <<y, x>>[2] = x
      OBVIOUS
    <2>2. ~(y < x)
      BY <1>2, <2>1
    <2>. QED BY <2>1, <2>2
  <1>. QED BY <1>3

(* What holds of 0 and passes from k to k + 1 holds up to n.               *)
LEMMA Climb ==
    ASSUME NEW n \in Nat, NEW P \in SUBSET Nat, 0 \in P,
           \A k \in Nat : k < n /\ k \in P => k + 1 \in P
    PROVE  \A k \in 0 .. n : k \in P
  <1>. DEFINE T == {k \in 0 .. n : k \notin P}
  <1>. SUFFICES ASSUME T # {} PROVE FALSE
    OBVIOUS
  <1>1. PICK x \in T : \A y \in T : x <= y
    <2>1. T \in SUBSET Nat
      OBVIOUS
    <2>. HIDE DEF T
    <2>. QED BY <2>1, LeastNat
  <1>2. x # 0 /\ x - 1 \in Nat /\ x - 1 < n /\ x - 1 \in 0 .. n
    BY <1>1
  <1>3. x - 1 \in P
    BY <1>1, <1>2
  <1>4. (x - 1) + 1 \in P
    BY <1>2, <1>3
  <1>. QED BY <1>1, <1>4

(* A function defined by recursion from below...                           *)
IsIteration(f, n, base, step) ==
    f[0] = base /\ \A k \in 1 .. n : f[k] = step[<<k, f[k - 1]>>]

(* ...exists.                                                              *)
LEMMA Iterates ==
    ASSUME NEW n \in Nat, NEW S, NEW base \in S, NEW step \in [(1 .. n) \X S -> S]
    PROVE  \E f \in [0 .. n -> S] : IsIteration(f, n, base, step)
  <1>. DEFINE Good(k, f) == f[0] = base /\ \A i \in 1 .. k : f[i] = step[<<i, f[i - 1]>>]
              P == {k \in Nat : k <= n => \E f \in [0 .. k -> S] : Good(k, f)}
  <1>1. 0 \in P
    <2>1. Good(0, [i \in 0 .. 0 |-> base])
      OBVIOUS
    <2>. QED BY <2>1, Zenon
  <1>2. ASSUME NEW k \in Nat, k < n, k \in P PROVE k + 1 \in P
    <2>1. PICK f \in [0 .. k -> S] : Good(k, f)
      BY <1>2
    <2>. DEFINE next == step[<<k + 1, f[k]>>]
                g == [i \in 0 .. k + 1 |-> IF i <= k THEN f[i] ELSE next]
    <2>2. f[k] \in S /\ next \in S
      <3>1. k + 1 \in 1 .. n /\ f[k] \in S
        BY <1>2
      <3>. QED BY <3>1
    <2>3. /\ g \in [0 .. k + 1 -> S] /\ g[k + 1] = next
          /\ \A i \in 0 .. k : g[i] = f[i]
      <3>. HIDE DEF next
      <3>. QED BY <2>2
    <2>. HIDE DEF g
    <2>4. ASSUME NEW i \in 1 .. k + 1 PROVE g[i] = step[<<i, g[i - 1]>>]
      <3>1. CASE i \in 1 .. k
        <4>1. g[i] = f[i] /\ g[i - 1] = f[i - 1]
          BY <2>3, <3>1
        <4>. QED BY <2>1, <3>1, <4>1
      <3>2. CASE i = k + 1
        <4>1. g[i - 1] = f[k]
          BY <2>3, <3>2
        <4>. QED BY <2>3, <3>2, <4>1
      <3>. QED BY <3>1, <3>2
    <2>5. g[0] = base
      BY <2>1, <2>3
    <2>6. Good(k + 1, g)
      BY <2>4, <2>5
    <2>7. \E h \in [0 .. k + 1 -> S] : Good(k + 1, h)
      <3>. HIDE DEF Good
      <3>. QED BY <2>3, <2>6
    <2>. QED BY <2>7
  <1>3. n \in P
    <2>. HIDE DEF P
    <2>1. P \in SUBSET Nat
      BY DEF P
    <2>. QED BY <1>1, <1>2, <2>1, Climb
  <1>. QED BY <1>3 DEF IsIteration

-----------------------------------------------------------------------------
(* The sums of the weights.                                                *)

(* Before is the function its recursive definition describes.              *)
LEMMA BeforeDef ==
    ASSUME NEW d \in Distributions
    PROVE Before(d) = [i \in 0 .. server_count |-> IF i = 0 THEN 0 ELSE Before(d)[i - 1] + d.weights[i - 1]]
  <1>. DEFINE F(f) == [i \in 0 .. server_count |-> IF i = 0 THEN 0 ELSE f[i - 1] + d.weights[i - 1]]
  <1>1. \E f : f = F(f)
    <2>. DEFINE step == [x \in (1 .. server_count) \X Nat |-> x[2] + d.weights[x[1] - 1]]
    <2>1. server_count \in Nat
      BY DistributionAssumption
    <2>2. ASSUME NEW k \in 1 .. server_count PROVE d.weights[k - 1] \in Nat
      <3>1. k - 1 \in Servers /\ d.weights \in [Servers -> Weights]
        BY <2>1 DEF Distributions, Servers
      <3>2. d.weights[k - 1] \in Weights
        BY <3>1
      <3>. QED BY <3>2 DEF Weights
    <2>3. ASSUME NEW x \in (1 .. server_count) \X Nat PROVE x[2] + d.weights[x[1] - 1] \in Nat
      <3>1. x[1] \in 1 .. server_count /\ x[2] \in Nat
        OBVIOUS
      <3>. QED BY <2>2, <3>1
    <2>4. PICK f \in [0 .. server_count -> Nat] : IsIteration(f, server_count, 0, step)
      <3>1. step \in [(1 .. server_count) \X Nat -> Nat]
        BY <2>3
      <3>2. 0 \in Nat
        OBVIOUS
      <3>. HIDE DEF step
      <3>. QED BY <2>1, <3>1, <3>2, Iterates, Zenon
    <2>5. ASSUME NEW k \in 1 .. server_count PROVE f[k] = f[k - 1] + d.weights[k - 1]
      <3>1. k - 1 \in 0 .. server_count /\ f[k - 1] \in Nat
        BY <2>1
      <3>2. <<k, f[k - 1]>> \in (1 .. server_count) \X Nat
        BY <3>1
      <3>3. step[<<k, f[k - 1]>>] = <<k, f[k - 1]>>[2] + d.weights[<<k, f[k - 1]>>[1] - 1]
        BY <3>2
      <3>. QED BY <2>4, <3>3, Zenon DEF IsIteration
    <2>6. f = F(f)
      <3>1. ASSUME NEW i \in 0 .. server_count PROVE f[i] = F(f)[i]
        <4>1. i = 0 \/ i \in 1 .. server_count
          BY <2>1
        <4>. QED BY <2>4, <2>5, <4>1, Zenon DEF IsIteration
      <3>. QED BY <3>1
    <2>. QED BY <2>6, Zenon
  <1>2. Before(d) = CHOOSE f : f = F(f)
    BY DEF Before
  <1>. HIDE DEF F
  <1>3. Before(d) = F(Before(d))
    BY <1>1, <1>2
  <1>. QED BY <1>3, Zenon DEF F

(* The sums start at 0, and each adds the weight of one server.            *)
LEMMA BeforeSums ==
    ASSUME NEW d \in Distributions
    PROVE  /\ Before(d) \in [0 .. server_count -> Nat] /\ Before(d)[0] = 0
           /\ \A s \in Servers : /\ s \in 0 .. server_count /\ s + 1 \in 0 .. server_count
                                 /\ d.weights[s] \in Nat
                                 /\ Before(d)[s + 1] = Before(d)[s] + d.weights[s]
  <1>. DEFINE B == Before(d)
  <1>1. server_count \in Nat
    BY DistributionAssumption
  <1>2. ASSUME NEW s \in Servers
        PROVE  s \in 0 .. server_count /\ s + 1 \in 0 .. server_count /\ d.weights[s] \in Nat
    <2>1. d.weights[s] \in Weights
      BY DEF Distributions
    <2>. QED BY <1>1, <2>1 DEF Servers, Weights
  <1>3. B = [i \in 0 .. server_count |-> IF i = 0 THEN 0 ELSE B[i - 1] + d.weights[i - 1]]
    BY BeforeDef
  <1>. HIDE DEF B
  <1>4. B[0] = 0
    BY <1>1, <1>3
  <1>5. ASSUME NEW s \in Servers PROVE B[s + 1] = B[s] + d.weights[s]
    <2>1. s \in Int /\ s + 1 # 0 /\ (s + 1) - 1 = s
      BY <1>1 DEF Servers
    <2>2. B[s + 1] = B[(s + 1) - 1] + d.weights[(s + 1) - 1]
      BY <1>2, <1>3, <2>1
    <2>. QED BY <2>1, <2>2
  <1>6. \A k \in 0 .. server_count : B[k] \in Nat
    <2>. DEFINE P == {k \in Nat : k <= server_count => B[k] \in Nat}
    <2>1. 0 \in P
      BY <1>4
    <2>2. ASSUME NEW k \in Nat, k < server_count, k \in P PROVE k + 1 \in P
      <3>1. k \in Servers
        BY <1>1, <2>2 DEF Servers
      <3>. QED BY <1>1, <1>2, <1>5, <2>2, <3>1
    <2>3. \A k \in 0 .. server_count : k \in P
      <3>1. P \in SUBSET Nat
        OBVIOUS
      <3>. HIDE DEF P
      <3>. QED BY <1>1, <2>1, <2>2, <3>1, Climb
    <2>. QED BY <1>1, <2>3
  <1>7. B \in [0 .. server_count -> Nat]
    BY <1>3, <1>6
  <1>. QED BY <1>2, <1>4, <1>5, <1>7 DEF B

(* The sums never fall.                                                    *)
LEMMA BeforeGrows ==
    ASSUME NEW d \in Distributions, NEW i \in 0 .. server_count, NEW j \in i .. server_count
    PROVE  Before(d)[i] <= Before(d)[j]
  <1>. DEFINE B == Before(d)
              P == {k \in Nat : k \in i .. server_count => B[i] <= B[k]}
  <1>1. server_count \in Nat /\ i \in Nat
    BY DistributionAssumption
  <1>2. B \in [0 .. server_count -> Nat]
    BY BeforeSums
  <1>3. \A s \in Servers : B[s + 1] = B[s] + d.weights[s] /\ d.weights[s] \in Nat
    BY BeforeSums
  <1>. HIDE DEF B
  <1>4. 0 \in P
    BY <1>1, <1>2
  <1>5. ASSUME NEW k \in Nat, k < server_count, k \in P PROVE k + 1 \in P
    <2>1. CASE k + 1 <= i
      BY <1>1, <1>2, <2>1
    <2>2. CASE i <= k
      <3>1. k \in Servers /\ k \in 0 .. server_count /\ k + 1 \in 0 .. server_count
        BY <1>1, <1>5 DEF Servers
      <3>2. B[i] \in Nat /\ B[k] \in Nat /\ B[k + 1] \in Nat /\ B[i] <= B[k]
        BY <1>1, <1>2, <1>5, <2>2, <3>1
      <3>3. B[i] <= B[k + 1]
        BY <1>3, <3>1, <3>2
      <3>. QED BY <3>3
    <2>. QED BY <1>1, <2>1, <2>2
  <1>6. \A k \in 0 .. server_count : k \in P
    <2>1. P \in SUBSET Nat
      OBVIOUS
    <2>. HIDE DEF P
    <2>. QED BY <1>1, <1>4, <1>5, <2>1, Climb
  <1>. QED BY <1>1, <1>6 DEF B

(* Every block of a round belongs to exactly one server.                   *)
LEMMA OneServerPerBlock ==
    ASSUME NEW d \in Distributions, NEW b \in Nat, b < WeightSum(d)
    PROVE  /\ \E s \in Servers : Before(d)[s] <= b /\ b < Before(d)[s + 1]
           /\ \A s, t \in Servers :
                 /\ Before(d)[s] <= b /\ b < Before(d)[s + 1]
                 /\ Before(d)[t] <= b /\ b < Before(d)[t + 1]
                 => s = t
  <1>. DEFINE B == Before(d)
              P == {k \in Nat : k \in 0 .. server_count => B[k] <= b}
  <1>1. server_count \in Nat
    BY DistributionAssumption
  <1>2. B \in [0 .. server_count -> Nat] /\ B[0] = 0 /\ b < B[server_count]
    BY BeforeSums DEF WeightSum
  <1>3. \A i \in 0 .. server_count : \A j \in i .. server_count : B[i] <= B[j]
    BY BeforeGrows
  <1>. HIDE DEF B
  <1>4. \E s \in Servers : B[s] <= b /\ b < B[s + 1]
    <2>. SUFFICES ASSUME \A s \in Servers : B[s] <= b => ~(b < B[s + 1]) PROVE FALSE
      OBVIOUS
    <2>1. 0 \in P
      BY <1>2
    <2>2. ASSUME NEW k \in Nat, k < server_count, k \in P PROVE k + 1 \in P
      <3>1. k \in Servers /\ k \in 0 .. server_count /\ k + 1 \in 0 .. server_count
        BY <1>1, <2>2 DEF Servers
      <3>2. ~(b < B[k + 1])
        BY <2>2, <3>1
      <3>3. B[k + 1] \in Nat
        BY <1>2, <3>1
      <3>. QED BY <3>2, <3>3
    <2>3. server_count \in P
      <3>1. P \in SUBSET Nat
        OBVIOUS
      <3>. HIDE DEF P
      <3>. QED BY <1>1, <2>1, <2>2, <3>1, Climb
    <2>4. B[server_count] \in Nat /\ B[server_count] <= b
      BY <1>1, <1>2, <2>3
    <2>. QED BY <1>2, <2>4
  <1>5. ASSUME NEW s \in Servers, NEW t \in Servers, B[t] <= b, b < B[s + 1] PROVE ~(s < t)
    <2>. SUFFICES ASSUME s < t PROVE FALSE
      OBVIOUS
    <2>1. s + 1 \in 0 .. server_count /\ t \in s + 1 .. server_count /\ t \in 0 .. server_count
      BY <1>1 DEF Servers
    <2>2. B[s + 1] <= B[t] /\ B[s + 1] \in Nat /\ B[t] \in Nat
      BY <1>2, <1>3, <2>1
    <2>. QED BY <1>5, <2>2
  <1>6. ASSUME NEW s \in Servers, NEW t \in Servers,
               B[s] <= b, b < B[s + 1], B[t] <= b, b < B[t + 1]
        PROVE  s = t
    <2>1. s \in Int /\ t \in Int
      BY <1>1 DEF Servers
    <2>. QED BY <1>5, <1>6, <2>1
  <1>. QED BY <1>4, <1>6 DEF B

(* The sums depend on nothing but the weights.                             *)
LEMMA SameWeights ==
    ASSUME NEW d \in Distributions, NEW e \in Distributions, d.weights = e.weights
    PROVE  Before(d) = Before(e) /\ WeightSum(d) = WeightSum(e)
  <1>. DEFINE B == Before(d)
              C == Before(e)
              P == {k \in Nat : k \in 0 .. server_count => B[k] = C[k]}
  <1>1. server_count \in Nat
    BY DistributionAssumption
  <1>2. /\ B \in [0 .. server_count -> Nat] /\ C \in [0 .. server_count -> Nat]
        /\ B[0] = 0 /\ C[0] = 0
    BY BeforeSums
  <1>3. \A s \in Servers : B[s + 1] = B[s] + d.weights[s] /\ C[s + 1] = C[s] + d.weights[s]
    BY BeforeSums
  <1>. HIDE DEF B, C
  <1>4. 0 \in P
    BY <1>2
  <1>5. ASSUME NEW k \in Nat, k < server_count, k \in P PROVE k + 1 \in P
    <2>1. k \in Servers /\ k \in 0 .. server_count /\ k + 1 \in 0 .. server_count
      BY <1>1, <1>5 DEF Servers
    <2>2. B[k + 1] = C[k + 1]
      BY <1>3, <1>5, <2>1
    <2>. QED BY <2>2
  <1>6. \A k \in 0 .. server_count : k \in P
    <2>1. P \in SUBSET Nat
      OBVIOUS
    <2>. HIDE DEF P
    <2>. QED BY <1>1, <1>4, <1>5, <2>1, Climb
  <1>7. B = C
    <2>1. \A k \in 0 .. server_count : B[k] = C[k]
      BY <1>1, <1>6
    <2>2. B = [k \in 0 .. server_count |-> B[k]] /\ C = [k \in 0 .. server_count |-> C[k]]
      BY <1>2
    <2>. QED BY <2>1, <2>2, Zenon
  <1>8. Before(d) = Before(e)
    BY <1>7 DEF B, C
  <1>. QED BY <1>8 DEF WeightSum

-----------------------------------------------------------------------------
(* Where the bytes of the object lie.                                      *)

(* What may be asked where a byte lies: weights were set before.           *)
Usable == {d \in Distributions : d.type = "WEIGHTED" => WeightSum(d) > 0}

(* The fields of a distribution that is asked for one byte.                *)
LEMMA ResetFields ==
    ASSUME NEW d \in Distributions, NEW p \in Nat
    PROVE  /\ Reset(d, 1, p) \in Distributions
           /\ Reset(d, 1, p).type = d.type /\ Reset(d, 1, p).index = d.index
           /\ Reset(d, 1, p).block_size = d.block_size /\ Reset(d, 1, p).offset = p
           /\ Reset(d, 1, p).weights = d.weights
  BY Zenon DEF Reset, Distributions

(* The two distributions without recursion, spelled out.                   *)
LEMMA PlaceFields ==
    ASSUME NEW d \in Distributions, NEW p \in Nat
    PROVE  /\ d.type = "ROUND_ROBIN" =>
                PlaceOf(d, p) =
                  [index |-> (d.index + (p \div d.block_size)) % server_count,
                   offset |-> ((p \div d.block_size) \div server_count) * d.block_size
                                 + (p % d.block_size)]
           /\ d.type = "SINGLE_SERVER" => PlaceOf(d, p) = [index |-> d.index, offset |-> p]
  BY ResetFields DEF PlaceOf, Place, RoundRobin, SingleServer, Block, Displacement

(* The blocks of one round of a weighted distribution.                    *)
LEMMA WeightSumType ==
    ASSUME NEW d \in Usable, d.type = "WEIGHTED"
    PROVE  d \in Distributions /\ WeightSum(d) \in Nat \ {0}
  <1>1. d \in Distributions /\ WeightSum(d) > 0
    BY DEF Usable
  <1>2. server_count \in 0 .. server_count
    BY DistributionAssumption
  <1>3. WeightSum(d) \in Nat
    BY <1>1, <1>2, BeforeSums DEF WeightSum
  <1>. QED BY <1>1, <1>3

(* A weighted distribution puts the blocks of a round on the server whose  *)
(* interval of the sums they are in, one after the other.                  *)
LEMMA WeightedPlace ==
    ASSUME NEW d \in Usable, d.type = "WEIGHTED", NEW b \in Nat
    PROVE  \E s \in Servers : LET o == b % WeightSum(d)
                                  round == b \div WeightSum(d)
                              IN /\ Before(d)[s] <= o /\ o < Before(d)[s + 1]
                                 /\ \A e \in Distributions :
                                       e.weights = d.weights /\ Block(e) = b =>
                                          Weighted(e) =
                                            [index |-> s,
                                             offset |-> (round * d.weights[s] + o - Before(d)[s])
                                                           * e.block_size + Displacement(e)]
  <1>. DEFINE o == b % WeightSum(d)
  <1>1. d \in Distributions /\ WeightSum(d) > 0
    BY DEF Usable
  <1>2. WeightSum(d) \in Nat \ {0}
    BY WeightSumType
  <1>3. o \in Nat /\ o < WeightSum(d)
    <2>1. o \in 0 .. WeightSum(d) - 1 /\ o \in Int
      BY <1>2, DivMod
    <2>. HIDE DEF o
    <2>. QED BY <1>2, <2>1
  <1>. HIDE DEF o
  <1>4. PICK s \in Servers : Before(d)[s] <= o /\ o < Before(d)[s + 1]
    BY <1>1, <1>3, OneServerPerBlock
  <1>5. \A t \in Servers : Before(d)[t] <= o /\ o < Before(d)[t + 1] => t = s
    BY <1>1, <1>3, <1>4, OneServerPerBlock
  <1>6. ASSUME NEW e \in Distributions, e.weights = d.weights, Block(e) = b
        PROVE  Weighted(e) =
                 [index |-> s,
                  offset |-> ((b \div WeightSum(d)) * d.weights[s] + o - Before(d)[s])
                                * e.block_size + Displacement(e)]
    <2>1. Before(e) = Before(d) /\ WeightSum(e) = WeightSum(d)
      BY <1>1, <1>6, SameWeights
    <2>2. s = CHOOSE i \in Servers : Before(d)[i] <= o /\ o < Before(d)[i + 1]
      BY <1>4, <1>5
    <2>3. Block(e) % WeightSum(e) = o
      BY <1>6, <2>1 DEF o
    <2>. QED BY <1>6, <2>1, <2>2, <2>3, Zenon DEF Weighted
  <1>. QED BY <1>4, <1>6 DEF o

(* Block m of a server is block i of its share in a round.                 *)
LEMMA WeightedPlaceOf ==
    ASSUME NEW d \in Usable, d.type = "WEIGHTED", NEW p \in Nat
    PROVE  \E s \in Servers, m \in Nat, i \in Nat :
              LET b == p \div d.block_size
              IN /\ i < d.weights[s]
                 /\ PlaceOf(d, p) = [index |-> s, offset |-> m * d.block_size + (p % d.block_size)]
                 /\ m = d.weights[s] * (b \div WeightSum(d)) + i
                 /\ i = (b % WeightSum(d)) - Before(d)[s]
  <1>. DEFINE b == p \div d.block_size
              o == b % WeightSum(d)
              round == b \div WeightSum(d)
              e == Reset(d, 1, p)
  <1>1. d \in Distributions /\ WeightSum(d) \in Nat \ {0} /\ d.block_size \in Nat \ {0}
    BY WeightSumType DEF Distributions
  <1>2. b \in Nat /\ o \in Int /\ round \in Nat
    <2>1. b \in Nat
      BY <1>1, DivMod, Zenon
    <2>. HIDE DEF b
    <2>. QED BY <1>1, <2>1, DivMod, Zenon
  <1>3. /\ e \in Distributions /\ e.weights = d.weights /\ e.type = "WEIGHTED"
        /\ e.block_size = d.block_size /\ Block(e) = b /\ Displacement(e) = p % d.block_size
    BY <1>1, ResetFields, Zenon DEF Block, Displacement
  <1>4. PlaceOf(d, p) = Weighted(e)
    BY <1>3 DEF PlaceOf, Place, e
  <1>. HIDE DEF b, e
  <1>5. PICK s \in Servers :
           /\ Before(d)[s] <= o /\ o < Before(d)[s + 1]
           /\ Weighted(e) = [index |-> s,
                             offset |-> (round * d.weights[s] + o - Before(d)[s])
                                           * e.block_size + Displacement(e)]
    BY <1>2, <1>3, WeightedPlace
  <1>6. /\ d.weights[s] \in Nat /\ Before(d)[s] \in Nat
        /\ Before(d)[s + 1] = Before(d)[s] + d.weights[s]
    BY <1>1, BeforeSums, Zenon
  <1>. DEFINE i == o - Before(d)[s]
              m == d.weights[s] * round + i
  <1>. HIDE DEF o, round
  <1>7. i \in Nat /\ i < d.weights[s]
    BY <1>2, <1>5, <1>6
  <1>8. m \in Nat /\ round * d.weights[s] + o - Before(d)[s] = m
    <2>1. d.weights[s] * round \in Nat /\ round * d.weights[s] = d.weights[s] * round
      BY <1>2, <1>6
    <2>. QED BY <1>2, <1>6, <1>7, <2>1
  <1>9. PlaceOf(d, p) = [index |-> s, offset |-> m * d.block_size + (p % d.block_size)]
    BY <1>3, <1>4, <1>5, <1>8
  <1>. QED BY <1>7, <1>8, <1>9 DEF b, o, round

(* A piece is one contiguous range of one server's file: byte j of it lies *)
(* where the layout puts byte offset + j of the object, so a read through  *)
(* other pieces finds what a write has stored.                             *)
THEOREM PieceIsContiguous ==
    ASSUME NEW d \in Usable, d.length > 0,
           NEW j \in 0 .. PieceLength(d) - 1
    PROVE  /\ PlaceOf(d, d.offset + j).index = Piece(d).index
           /\ PlaceOf(d, d.offset + j).offset = Piece(d).offset + j
  <1>1. /\ d.offset \in Nat /\ d.block_size \in Nat \ {0} /\ j \in Nat
        /\ server_count \in Nat \ {0} /\ d.offset + j \in Nat
    <2>1. d \in Distributions /\ PieceLength(d) \in Nat
      BY PieceProgress DEF Usable
    <2>. QED BY <2>1, DistributionAssumption DEF Distributions
  <1>. d \in Distributions
    BY DEF Usable
  <1>2. (d.offset % d.block_size) + j < d.block_size
    <2>1. /\ PieceLength(d) \in Nat
          /\ (d.offset % d.block_size) + PieceLength(d) <= d.block_size
      BY PieceProgress DEF Displacement
    <2>2. (d.offset % d.block_size) \in Int
      BY <1>1, DivMod
    <2>. QED BY <1>1, <2>1, <2>2
  <1>3. /\ (d.offset + j) \div d.block_size = d.offset \div d.block_size
        /\ (d.offset + j) % d.block_size = (d.offset % d.block_size) + j
    BY <1>1, <1>2, SameBlock, Zenon
  <1>4. CASE d.type = "SINGLE_SERVER"
    <2>1. PlaceOf(d, d.offset + j) = [index |-> d.index, offset |-> d.offset + j]
      BY <1>1, <1>4, PlaceFields
    <2>2. Piece(d).index = d.index /\ Piece(d).offset = d.offset
      BY <1>4 DEF Piece, Place, SingleServer
    <2>. QED BY <2>1, <2>2
  <1>5. CASE d.type = "ROUND_ROBIN"
    <2>. DEFINE round == (d.offset \div d.block_size) \div server_count
    <2>1. PlaceOf(d, d.offset + j) =
             [index |-> (d.index + (d.offset \div d.block_size)) % server_count,
              offset |-> round * d.block_size + ((d.offset % d.block_size) + j)]
      BY <1>1, <1>3, <1>5, PlaceFields
    <2>2. /\ Piece(d).index = (d.index + (d.offset \div d.block_size)) % server_count
          /\ Piece(d).offset = round * d.block_size + (d.offset % d.block_size)
      BY <1>5 DEF Piece, Place, RoundRobin, Block, Displacement
    <2>3. round * d.block_size \in Int /\ (d.offset % d.block_size) \in Int
      <3>1. d.offset \div d.block_size \in Nat /\ (d.offset % d.block_size) \in Int
        BY <1>1, DivMod, Zenon
      <3>2. round \in Nat
        BY <1>1, <3>1, DivMod
      <3>. QED BY <1>1, <3>1, <3>2
    <2>4. round * d.block_size + ((d.offset % d.block_size) + j)
             = (round * d.block_size + (d.offset % d.block_size)) + j
      BY <1>1, <2>3
    <2>. HIDE DEF round
    <2>. QED BY <2>1, <2>2, <2>4
  <1>6. CASE d.type = "WEIGHTED"
    <2>. DEFINE e == Reset(d, 1, d.offset + j)
                b == d.offset \div d.block_size
                o == b % WeightSum(d)
                round == b \div WeightSum(d)
    <2>1. /\ e \in Distributions /\ e.type = "WEIGHTED" /\ e.weights = d.weights
          /\ e.block_size = d.block_size /\ e.offset = d.offset + j
      BY <1>1, <1>6, ResetFields, Zenon
    <2>2. /\ b \in Nat /\ Block(d) = b /\ Block(e) = b
          /\ Displacement(e) = Displacement(d) + j
          /\ Displacement(d) = d.offset % d.block_size
      BY <1>1, <1>3, <2>1, DivMod, Zenon DEF Block, Displacement
    <2>. HIDE DEF e, b
    <2>3. PICK s \in Servers :
             /\ Before(d)[s] <= o /\ o < Before(d)[s + 1]
             /\ \A f \in Distributions :
                   f.weights = d.weights /\ Block(f) = b =>
                      Weighted(f) = [index |-> s,
                                     offset |-> (round * d.weights[s] + o - Before(d)[s])
                                                   * f.block_size + Displacement(f)]
      BY <1>6, <2>2, WeightedPlace
    <2>. DEFINE n == round * d.weights[s] + o - Before(d)[s]
    <2>4. /\ n \in Int /\ Displacement(d) \in Int
      <3>1. WeightSum(d) \in Nat \ {0}
        BY <1>6, WeightSumType
      <3>2. o \in Int /\ round \in Nat
        BY <2>2, <3>1, DivMod, Zenon
      <3>3. d.weights[s] \in Nat /\ Before(d)[s] \in Nat
        BY BeforeSums, Zenon
      <3>4. round * d.weights[s] \in Nat
        BY <3>2, <3>3
      <3>. HIDE DEF o, round
      <3>5. n \in Int
        BY <3>2, <3>3, <3>4
      <3>6. (d.offset % d.block_size) \in Int
        BY <1>1, DivMod
      <3>. QED BY <2>2, <3>5, <3>6
    <2>5. /\ Weighted(d) = [index |-> s, offset |-> n * d.block_size + Displacement(d)]
          /\ Weighted(e) = [index |-> s, offset |-> n * d.block_size + (Displacement(d) + j)]
      BY <2>1, <2>2, <2>3
    <2>6. n * d.block_size + (Displacement(d) + j) = (n * d.block_size + Displacement(d)) + j
      <3>. HIDE DEF n
      <3>1. n * d.block_size \in Int
        BY <1>1, <2>4
      <3>. QED BY <1>1, <2>4, <3>1
    <2>. HIDE DEF n, o, round
    <2>7. Piece(d).index = s /\ Piece(d).offset = n * d.block_size + Displacement(d)
      BY <1>6, <2>5 DEF Piece, Place
    <2>8. PlaceOf(d, d.offset + j) = Weighted(e)
      BY <2>1 DEF PlaceOf, Place, e
    <2>. QED BY <2>5, <2>6, <2>7, <2>8
  <1>. QED BY <1>4, <1>5, <1>6 DEF Usable, Distributions, DistributionTypes

(* The servers take blocks in turn: among the blocks of one round, each    *)
(* server is used at most once.                                            *)
LEMMA OneBlockPerRound ==
    ASSUME NEW i \in Nat, NEW n \in Nat \ {0}, NEW b \in Nat, NEW c \in Nat,
           (i + b) % n = (i + c) % n, b \div n = c \div n
    PROVE  b = c
  <1>1. /\ b \div n \in Nat /\ (b % n) \in 0 .. n - 1 /\ b = n * (b \div n) + (b % n)
        /\ c \div n \in Nat /\ (c % n) \in 0 .. n - 1 /\ c = n * (c \div n) + (c % n)
    BY DivMod, Zenon
  <1>2. i + b \in Nat /\ i + c \in Nat
    OBVIOUS
  <1>3. /\ (i + b) \div n \in Nat /\ i + b = n * ((i + b) \div n) + ((i + b) % n)
        /\ (i + b) % n \in Int
    BY <1>2, DivMod, Zenon
  <1>4. (i + c) \div n \in Nat /\ i + c = n * ((i + c) \div n) + ((i + b) % n)
    BY <1>2, DivMod, Zenon
  <1>. DEFINE x == (i + b) \div n
              y == (i + c) \div n
              k == n * (b \div n)
              r == b % n
              s == c % n
              t == (i + b) % n
  <1>5. /\ x \in Nat /\ y \in Nat /\ n * x \in Int /\ n * y \in Int /\ k \in Int
        /\ r \in 0 .. n - 1 /\ s \in 0 .. n - 1 /\ t \in Int
        /\ i + b = n * x + t /\ i + c = n * y + t /\ b = k + r /\ c = k + s
    BY <1>1, <1>3, <1>4
  <1>. HIDE DEF x, y, k, r, s, t
  <1>6. n * x + s = n * y + r
    BY <1>5
  <1>7. ~(x < y)
    <2>. SUFFICES ASSUME x < y PROVE FALSE
      OBVIOUS
    <2>1. n * x + n <= n * y
      BY <1>5, NoMultipleBetween
    <2>. QED BY <1>5, <1>6, <2>1
  <1>8. ~(y < x)
    <2>. SUFFICES ASSUME y < x PROVE FALSE
      OBVIOUS
    <2>1. n * y + n <= n * x
      BY <1>5, NoMultipleBetween
    <2>. QED BY <1>5, <1>6, <2>1
  <1>9. x = y
    BY <1>5, <1>7, <1>8
  <1>. QED BY <1>5, <1>6, <1>9

(* No two bytes of the object share a place on a server, so no write       *)
(* through one handle can overwrite a byte outside its range.              *)
THEOREM PlacesDiffer ==
    ASSUME NEW d \in Usable, NEW p \in Nat, NEW q \in Nat,
           PlaceOf(d, p) = PlaceOf(d, q)
    PROVE  p = q
  <1>. d \in Distributions
    BY DEF Usable
  <1>1. d.block_size \in Nat \ {0} /\ d.index \in Nat /\ server_count \in Nat \ {0}
    BY DistributionAssumption DEF Distributions, Servers
  <1>2. CASE d.type = "SINGLE_SERVER"
    BY <1>2, PlaceFields
  <1>3. CASE d.type = "ROUND_ROBIN"
    <2>. DEFINE bs == d.block_size
                b == p \div bs
                c == q \div bs
    <2>1. /\ (d.index + b) % server_count = (d.index + c) % server_count
          /\ (b \div server_count) * bs + (p % bs) = (c \div server_count) * bs + (q % bs)
      <3>1. PlaceOf(d, p) = [index |-> (d.index + b) % server_count,
                             offset |-> (b \div server_count) * bs + (p % bs)]
        BY <1>3, PlaceFields
      <3>2. PlaceOf(d, q) = [index |-> (d.index + c) % server_count,
                             offset |-> (c \div server_count) * bs + (q % bs)]
        BY <1>3, PlaceFields
      <3>. HIDE DEF bs, b, c
      <3>3. [index |-> (d.index + b) % server_count,
             offset |-> (b \div server_count) * bs + (p % bs)]
              = [index |-> (d.index + c) % server_count,
                 offset |-> (c \div server_count) * bs + (q % bs)]
        BY <3>1, <3>2, Zenon
      <3>. QED BY <3>3
    <2>2. /\ b \in Nat /\ c \in Nat /\ (p % bs) \in 0 .. bs - 1 /\ (q % bs) \in 0 .. bs - 1
          /\ bs \in Nat \ {0}
      BY <1>1, DivMod, Zenon
    <2>3. b \div server_count \in Int /\ c \div server_count \in Int
      BY <1>1, <2>2, DivMod
    <2>4. bs * (b \div server_count) + (p % bs) = bs * (c \div server_count) + (q % bs)
      <3>. HIDE DEF bs, b, c
      <3>1. /\ (b \div server_count) * bs = bs * (b \div server_count)
            /\ (c \div server_count) * bs = bs * (c \div server_count)
        BY <2>2, <2>3
      <3>. QED BY <2>1, <3>1
    <2>5. b \div server_count = c \div server_count /\ p % bs = q % bs
      <3>. HIDE DEF bs, b, c
      <3>. QED BY <2>2, <2>3, <2>4, DivModUnique
    <2>6. b = c
      <3>. HIDE DEF bs, b, c
      <3>. QED BY <1>1, <2>1, <2>2, <2>5, OneBlockPerRound, Zenon
    <2>. QED BY <2>2, <2>5, <2>6, SameQuotientSameRemainder
  <1>4. CASE d.type = "WEIGHTED"
    <2>. DEFINE bs == d.block_size
                sum == WeightSum(d)
                b == p \div bs
                c == q \div bs
    <2>1. PICK s \in Servers, m \in Nat, i \in Nat :
             /\ i < d.weights[s]
             /\ PlaceOf(d, p) = [index |-> s, offset |-> m * bs + (p % bs)]
             /\ m = d.weights[s] * (b \div sum) + i /\ i = (b % sum) - Before(d)[s]
      BY <1>4, WeightedPlaceOf
    <2>2. PICK t \in Servers, n \in Nat, k \in Nat :
             /\ k < d.weights[t]
             /\ PlaceOf(d, q) = [index |-> t, offset |-> n * bs + (q % bs)]
             /\ n = d.weights[t] * (c \div sum) + k /\ k = (c % sum) - Before(d)[t]
      BY <1>4, WeightedPlaceOf, Zenon
    <2>3. /\ b \in Nat /\ c \in Nat /\ (p % bs) \in 0 .. bs - 1 /\ (q % bs) \in 0 .. bs - 1
          /\ bs \in Nat \ {0}
      BY <1>1, DivMod, Zenon
    <2>4. /\ sum \in Nat \ {0} /\ b \div sum \in Nat /\ c \div sum \in Nat
          /\ b % sum \in Int /\ c % sum \in Int
      BY <1>4, <2>3, WeightSumType, DivMod, Zenon
    <2>. HIDE DEF bs, sum, b, c
    <2>5. s = t /\ m * bs + (p % bs) = n * bs + (q % bs)
      <3>1. [index |-> s, offset |-> m * bs + (p % bs)] = [index |-> t, offset |-> n * bs + (q % bs)]
        BY <2>1, <2>2, Zenon
      <3>. QED BY <3>1
    <2>6. m = n /\ p % bs = q % bs
      <3>1. bs * m + (p % bs) = bs * n + (q % bs)
        BY <2>3, <2>5
      <3>. QED BY <2>3, <3>1, DivModUnique
    <2>7. d.weights[s] \in Nat \ {0} /\ Before(d)[s] \in Nat
      <3>1. d.weights[s] \in Nat /\ Before(d)[s] \in Nat
        BY BeforeSums, Zenon
      <3>. QED BY <2>1, <3>1
    <2>. DEFINE w == d.weights[s]
                u == b \div sum
                v == c \div sum
    <2>8. /\ w \in Nat \ {0} /\ u \in Int /\ v \in Int /\ i \in 0 .. w - 1 /\ k \in 0 .. w - 1
          /\ m = w * u + i /\ m = w * v + k
      BY <2>1, <2>2, <2>4, <2>5, <2>6, <2>7
    <2>9. u = v /\ i = k
      <3>. HIDE DEF w, u, v
      <3>. QED BY <2>8, DivModUnique, Zenon
    <2>10. b % sum = c % sum
      <3>1. i = (b % sum) - Before(d)[s] /\ k = (c % sum) - Before(d)[s]
        BY <2>1, <2>2, <2>5
      <3>2. i = k
        BY <2>9
      <3>. DEFINE x == b % sum
                  y == c % sum
                  z == Before(d)[s]
      <3>3. x \in Int /\ y \in Int /\ z \in Int /\ x - z = y - z
        BY <2>4, <2>7, <3>1, <3>2
      <3>. HIDE DEF x, y, z
      <3>4. x = y
        BY <3>3
      <3>. QED BY <3>4 DEF x, y
    <2>11. b = c
      BY <2>3, <2>4, <2>9, <2>10, SameQuotientSameRemainder, Zenon
    <2>. QED BY <2>3, <2>6, <2>11, SameQuotientSameRemainder, Zenon DEF b, c
  <1>. QED BY <1>2, <1>3, <1>4 DEF Distributions, DistributionTypes

(* j_distribution_new_from_bson gives back the layout that                 *)
(* j_distribution_serialize has stored, whatever index the new             *)
(* distribution has drawn: every client finds the same byte at the same    *)
(* place.                                                                  *)
THEOREM BsonKeepsLayout ==
    ASSUME NEW d \in Distributions, d.type \in Striped, NEW random \in Servers, NEW p \in Nat
    PROVE  /\ NewFromBson(Serialize(d), random) \in Distributions
           /\ NewFromBson(Serialize(d), random).type = d.type
           /\ PlaceOf(NewFromBson(Serialize(d), random), p) = PlaceOf(d, p)
  <1>. DEFINE e == NewFromBson(Serialize(d), random)
              n == RoundRobinNew(random)
  <1>1. n \in Distributions
    BY DistributionAssumption
       DEF RoundRobinNew, Created, Distributions, DistributionTypes, Weights
  <1>2. e = [n EXCEPT !.type = d.type, !.block_size = d.block_size, !.index = d.index]
    <2>1. CASE d.type = "ROUND_ROBIN"
      BY <1>1, <2>1, Zenon DEF NewFromBson, Deserialize, Serialize, RoundRobinSerialize,
                        RoundRobinDeserialize, Distributions
    <2>2. CASE d.type = "SINGLE_SERVER"
      BY <1>1, <2>2, Zenon DEF NewFromBson, Deserialize, Serialize, SingleServerSerialize,
                        SingleServerDeserialize, Distributions
    <2>. QED BY <2>1, <2>2 DEF Striped
  <1>. HIDE DEF e, n
  <1>4. e \in Distributions
    BY <1>1, <1>2, Zenon DEF Distributions
  <1>5. e.type = d.type /\ e.block_size = d.block_size /\ e.index = d.index
    BY <1>1, <1>2 DEF Distributions
  <1>6. PlaceOf(e, p) = PlaceOf(d, p)
    <2>1. CASE d.type = "ROUND_ROBIN"
      BY <1>4, <1>5, <2>1, PlaceFields
    <2>2. CASE d.type = "SINGLE_SERVER"
      BY <1>4, <1>5, <2>2, PlaceFields
    <2>. QED BY <2>1, <2>2 DEF Striped
  <1>. QED BY <1>4, <1>5, <1>6 DEF e

-----------------------------------------------------------------------------
(* Bounds of the layout.                                                  *)

(* Multiplication by a block size is monotone.                             *)
LEMMA TimesGrows ==
    ASSUME NEW m \in Nat, NEW n \in Nat, NEW b \in Nat, m <= n
    PROVE  m * b \in Nat /\ n * b \in Nat /\ m * b <= n * b
  <1>1. PICK k \in Nat : n = m + k
    <2>1. n - m \in Nat /\ n = m + (n - m)
      OBVIOUS
    <2>. QED BY <2>1
  <1>2. n * b = m * b + k * b /\ k * b \in Nat /\ m * b \in Nat
    BY <1>1
  <1>. QED BY <1>2

(* A server's share is no longer than the object up to there.              *)
LEMMA ShareShrinks ==
    ASSUME NEW p \in Nat, NEW b \in Nat \ {0}, NEW m \in Nat, m <= p \div b
    PROVE  m * b + (p % b) \in 0 .. p
  <1>. DEFINE q == p \div b
              r == p % b
  <1>1. q \in Nat /\ r \in 0 .. b - 1 /\ p = b * q + r
    BY DivMod
  <1>2. m <= q
    OBVIOUS
  <1>. HIDE DEF q, r
  <1>3. m * b \in Nat /\ q * b \in Nat /\ m * b <= q * b
    BY <1>1, <1>2, TimesGrows
  <1>4. b * q = q * b
    BY <1>1
  <1>5. m * b + r \in 0 .. p
    BY <1>1, <1>3, <1>4
  <1>. QED BY <1>5 DEF r

(* Every byte has a place on a server, no further from the start of the    *)
(* server's file than it is from the start of the object.                  *)
LEMMA PlaceBounds ==
    ASSUME NEW d \in Usable, NEW p \in Nat
    PROVE  /\ PlaceOf(d, p) \in [index : Servers, offset : Nat]
           /\ PlaceOf(d, p).offset <= p
  <1>. DEFINE bs == d.block_size
              b == p \div bs
  <1>1. /\ d \in Distributions /\ bs \in Nat \ {0} /\ d.index \in Servers
        /\ server_count \in Nat \ {0}
    BY DistributionAssumption DEF Usable, Distributions
  <1>2. b \in Nat
    BY <1>1, DivMod
  <1>. SUFFICES \E s \in Servers, m \in Nat :
                  m <= b /\ PlaceOf(d, p) = [index |-> s, offset |-> m * bs + (p % bs)]
    <2>1. PICK s \in Servers, m \in Nat :
             m <= b /\ PlaceOf(d, p) = [index |-> s, offset |-> m * bs + (p % bs)]
      OBVIOUS
    <2>2. m * bs + (p % bs) \in 0 .. p
      BY <1>1, <2>1, ShareShrinks, Zenon
    <2>. HIDE DEF bs, b
    <2>. QED BY <2>1, <2>2
  <1>3. CASE d.type = "SINGLE_SERVER"
    <2>1. PlaceOf(d, p) = [index |-> d.index, offset |-> p]
      BY <1>1, <1>3, PlaceFields
    <2>2. p = b * bs + (p % bs)
      <3>. DEFINE r == p % bs
      <3>1. p = bs * b + r /\ r \in Int
        BY <1>1, DivMod, Zenon
      <3>. HIDE DEF b, bs, r
      <3>2. p = b * bs + r
        BY <1>1, <1>2, <3>1
      <3>. QED BY <3>2 DEF r
    <2>. HIDE DEF b, bs
    <2>3. PlaceOf(d, p) = [index |-> d.index, offset |-> b * bs + (p % bs)]
      <3>. DEFINE o == b * bs + (p % bs)
      <3>1. o = p
        BY <2>2
      <3>. HIDE DEF o
      <3>2. PlaceOf(d, p) = [index |-> d.index, offset |-> o]
        BY <2>1, <3>1
      <3>. QED BY <3>2 DEF o
    <2>4. b <= b
      BY <1>2
    <2>. QED BY <1>1, <1>2, <2>3, <2>4, Zenon
  <1>4. CASE d.type = "ROUND_ROBIN"
    <2>1. PlaceOf(d, p) = [index |-> (d.index + b) % server_count,
                           offset |-> (b \div server_count) * bs + (p % bs)]
      BY <1>1, <1>4, PlaceFields, Zenon
    <2>. HIDE DEF b, bs
    <2>2. (d.index + b) % server_count \in Servers
      <3>1. d.index + b \in Nat
        BY <1>1, <1>2 DEF Servers
      <3>. QED BY <1>1, <3>1, DivMod, Zenon DEF Servers
    <2>3. b \div server_count \in Nat /\ b \div server_count <= b
      <3>. DEFINE q == b \div server_count
                  r == b % server_count
      <3>1. q \in Nat /\ r \in 0 .. server_count - 1 /\ b = server_count * q + r
        BY <1>1, <1>2, DivMod, Zenon
      <3>. HIDE DEF q, r
      <3>2. 1 * q <= server_count * q /\ server_count * q \in Nat
        BY <1>1, <3>1, TimesGrows
      <3>3. q <= b
        BY <1>1, <3>1, <3>2
      <3>. QED BY <3>1, <3>3 DEF q
    <2>. QED BY <2>1, <2>2, <2>3
  <1>5. CASE d.type = "WEIGHTED"
    <2>. DEFINE sum == WeightSum(d)
    <2>1. PICK s \in Servers, m \in Nat, i \in Nat :
             /\ i < d.weights[s]
             /\ PlaceOf(d, p) = [index |-> s, offset |-> m * bs + (p % bs)]
             /\ m = d.weights[s] * (b \div sum) + i /\ i = (b % sum) - Before(d)[s]
      BY <1>5, WeightedPlaceOf, Zenon
    <2>2. sum \in Nat \ {0}
      BY <1>5, WeightSumType
    <2>3. /\ b \div sum \in Nat /\ (b % sum) \in 0 .. sum - 1 /\ b % sum \in Int
          /\ b = sum * (b \div sum) + (b % sum)
      BY <1>2, <2>2, DivMod, Zenon
    <2>4. /\ Before(d)[s] \in Nat /\ d.weights[s] \in Nat /\ d.weights[s] <= sum
      <3>1. /\ Before(d) \in [0 .. server_count -> Nat] /\ d.weights[s] \in Nat
            /\ s \in 0 .. server_count /\ s + 1 \in 0 .. server_count
            /\ Before(d)[s + 1] = Before(d)[s] + d.weights[s]
        BY <1>1, BeforeSums, Zenon
      <3>2. Before(d)[s] \in Nat /\ Before(d)[s + 1] \in Nat
        BY <3>1
      <3>3. server_count \in s + 1 .. server_count
        BY <1>1, <3>1
      <3>4. Before(d)[s + 1] <= sum
        BY <1>1, <3>1, <3>3, BeforeGrows, Zenon DEF WeightSum
      <3>. HIDE DEF sum
      <3>. QED BY <2>2, <3>1, <3>2, <3>4
    <2>. HIDE DEF b, bs, sum
    <2>5. m <= b
      <3>. DEFINE q == b \div sum
                  r == b % sum
                  w == d.weights[s]
      <3>1. q \in Nat /\ r \in Int /\ w \in Nat /\ w <= sum /\ sum \in Nat
        BY <2>2, <2>3, <2>4
      <3>2. i <= r /\ m = w * q + i /\ b = sum * q + r
        BY <2>1, <2>3, <2>4
      <3>. HIDE DEF q, r, w
      <3>3. w * q <= sum * q /\ w * q \in Nat /\ sum * q \in Nat
        BY <3>1, TimesGrows
      <3>. QED BY <3>1, <3>2, <3>3
    <2>. QED BY <2>1, <2>5
  <1>. QED BY <1>1, <1>3, <1>4, <1>5 DEF Distributions, DistributionTypes

(* A distribution that differs in the request alone has the same layout.   *)
LEMMA SameLayout ==
    ASSUME NEW d \in Usable, NEW e \in Distributions, e.type = d.type, e.index = d.index,
           e.block_size = d.block_size, e.weights = d.weights
    PROVE  e \in Usable /\ \A p \in Nat : PlaceOf(e, p) = PlaceOf(d, p)
  <1>1. d \in Distributions /\ Before(e) = Before(d) /\ WeightSum(e) = WeightSum(d)
    BY SameWeights DEF Usable
  <1>2. e \in Usable
    BY <1>1 DEF Usable
  <1>3. ASSUME NEW p \in Nat PROVE PlaceOf(e, p) = PlaceOf(d, p)
    <2>1. CASE d.type \in Striped
      <3>1. CASE d.type = "ROUND_ROBIN"
        BY <1>1, <3>1, PlaceFields
      <3>2. CASE d.type = "SINGLE_SERVER"
        BY <1>1, <3>2, PlaceFields
      <3>. QED BY <2>1, <3>1, <3>2 DEF Striped
    <2>2. CASE d.type = "WEIGHTED"
      <3>. DEFINE f == Reset(d, 1, p)
                  g == Reset(e, 1, p)
                  b == Block(f)
      <3>1. /\ f \in Distributions /\ f.weights = d.weights /\ f.type = "WEIGHTED"
            /\ f.block_size = d.block_size /\ f.offset = p
            /\ g \in Distributions /\ g.weights = d.weights /\ g.type = "WEIGHTED"
            /\ g.block_size = d.block_size /\ g.offset = p
        BY <1>1, <2>2, ResetFields
      <3>2. Block(g) = b /\ Displacement(g) = Displacement(f)
        BY <3>1 DEF Block, Displacement
      <3>3. b \in Nat
        <4>1. d.block_size \in Nat \ {0}
          BY <1>1 DEF Distributions
        <4>. QED BY <3>1, <4>1, DivMod DEF Block
      <3>4. PlaceOf(d, p) = Weighted(f) /\ PlaceOf(e, p) = Weighted(g)
        BY <3>1 DEF PlaceOf, Place
      <3>. HIDE DEF f, g, b
      <3>5. PICK s \in Servers :
               \A h \in Distributions :
                  h.weights = d.weights /\ Block(h) = b =>
                     Weighted(h) =
                       [index |-> s,
                        offset |-> ((b \div WeightSum(d)) * d.weights[s] + (b % WeightSum(d)) - Before(d)[s])
                                      * h.block_size + Displacement(h)]
        BY <2>2, <3>3, WeightedPlace
      <3>6. Block(f) = b
        BY DEF b
      <3>. QED BY <3>1, <3>2, <3>4, <3>5, <3>6
    <2>. QED BY <1>1, <2>1, <2>2 DEF Striped, Distributions, DistributionTypes
  <1>. QED BY <1>2, <1>3

(* Setting a distribution up with the setters gives a distribution.        *)
LEMMA SetType ==
    ASSUME NEW d \in Distributions, NEW s \in Servers, NEW v \in Nat
    PROVE  SetWeight(d, s, v) \in Distributions
  BY DEF SetWeight, Distributions, Weights

(* An application can only configure a distribution.                      *)
LEMMA ConfiguredType ==
    ASSUME NEW k \in Configurations, NEW random \in Servers
    PROVE  Configured(k, random) \in Distributions
  <1>. DEFINE d == Set(Set(SetBlockSize(New(k.type, random), k.block_size), "start-index", k.index),
                       "index", k.index)
              F(f) == [i \in 0 .. server_count |->
                          IF i = 0 THEN d ELSE SetWeight(f[i - 1], i - 1, k.weights[i - 1])]
              after == CHOOSE f : f = F(f)
  <1>1. /\ k.type \in DistributionTypes /\ k.index \in Nat /\ k.block_size \in Nat
        /\ k.weights \in [Servers -> Nat] /\ server_count \in Nat \ {0}
    BY DistributedObjectAssumption, DistributionAssumption
  <1>2. d \in Distributions
    <2>1. New(k.type, random) \in Distributions
      <3>1. Created(k.type, random) \in Distributions /\ Created(k.type, 0) \in Distributions
        BY <1>1, DistributionAssumption DEF Created, Distributions, Servers, Weights
      <3>2. CASE k.type = "ROUND_ROBIN"
        BY <3>1, <3>2 DEF New, RoundRobinNew
      <3>3. CASE k.type = "SINGLE_SERVER"
        BY <3>1, <3>3 DEF New, SingleServerNew
      <3>4. CASE k.type = "WEIGHTED"
        BY <3>1, <3>4 DEF New, WeightedNew
      <3>. QED BY <1>1, <3>2, <3>3, <3>4 DEF DistributionTypes
    <2>2. ASSUME NEW e \in Distributions, NEW v \in Nat, v < server_count
          PROVE  /\ Set(e, "index", v) \in Distributions
                 /\ Set(e, "start-index", v) \in Distributions
      <3>1. v \in Servers
        BY <1>1, <2>2 DEF Servers
      <3>. QED BY <3>1 DEF Set, RoundRobinSet, SingleServerSet, WeightedSet, Distributions, DistributionTypes
    <2>3. ASSUME NEW e \in Distributions, NEW v \in Nat, ~(v < server_count)
          PROVE  /\ Set(e, "index", v) = e
                 /\ Set(e, "start-index", v) = e
      BY <2>3 DEF Set, RoundRobinSet, SingleServerSet, WeightedSet, Distributions, DistributionTypes
    <2>4. ASSUME NEW e \in Distributions
          PROVE SetBlockSize(e, k.block_size) \in Distributions
      BY <1>1 DEF SetBlockSize, Set, RoundRobinSet, SingleServerSet, WeightedSet, Distributions, DistributionTypes
    <2>. QED BY <1>1, <2>1, <2>2, <2>3, <2>4
  <1>. HIDE DEF d
  <1>3. after = F(after)
    <2>1. \E f : f = F(f)
      <3>. DEFINE step == [x \in (1 .. server_count) \X Distributions |->
                             SetWeight(x[2], x[1] - 1, k.weights[x[1] - 1])]
      <3>1. ASSUME NEW x \in (1 .. server_count) \X Distributions
            PROVE SetWeight(x[2], x[1] - 1, k.weights[x[1] - 1]) \in Distributions
        <4>1. x[2] \in Distributions /\ x[1] - 1 \in Servers
          BY <1>1 DEF Servers
        <4>2. k.weights[x[1] - 1] \in Nat
          BY <1>1, <4>1
        <4>. QED BY <4>1, <4>2, SetType
      <3>2. step \in [(1 .. server_count) \X Distributions -> Distributions]
        BY <3>1
      <3>3. PICK f \in [0 .. server_count -> Distributions] : IsIteration(f, server_count, d, step)
        <4>1. server_count \in Nat
          BY <1>1
        <4>. HIDE DEF step
        <4>. QED BY <1>2, <3>2, <4>1, Iterates, Zenon
      <3>4. ASSUME NEW i \in 1 .. server_count
            PROVE f[i] = SetWeight(f[i - 1], i - 1, k.weights[i - 1])
        <4>1. i - 1 \in 0 .. server_count
          BY <1>1
        <4>2. <<i, f[i - 1]>> \in (1 .. server_count) \X Distributions
          BY <4>1
        <4>3. step[<<i, f[i - 1]>>] = SetWeight(f[i - 1], i - 1, k.weights[i - 1])
          BY <4>2
        <4>. QED BY <3>3, <4>3, Zenon DEF IsIteration
      <3>5. ASSUME NEW i \in 0 .. server_count PROVE f[i] = F(f)[i]
        <4>1. i = 0 \/ i \in 1 .. server_count
          BY <1>1
        <4>. HIDE DEF step
        <4>. QED BY <3>3, <3>4, <4>1, Zenon DEF IsIteration
      <3>6. f = F(f)
        BY <3>5
      <3>. QED BY <3>6, Zenon
    <2>. HIDE DEF F
    <2>. QED BY <2>1
  <1>. HIDE DEF after
  <1>4. \A j \in 0 .. server_count : after[j] \in Distributions
    <2>. DEFINE P == {j \in Nat : j <= server_count => after[j] \in Distributions}
    <2>1. 0 \in P
      BY <1>1, <1>2, <1>3
    <2>2. ASSUME NEW j \in Nat, j < server_count, j \in P PROVE j + 1 \in P
      <3>1. j \in Servers /\ j + 1 \in 0 .. server_count /\ j + 1 # 0 /\ (j + 1) - 1 = j
        BY <1>1, <2>2 DEF Servers
      <3>2. after[j + 1] = SetWeight(after[j], j, k.weights[j])
        <4>1. after[j + 1] = SetWeight(after[(j + 1) - 1], (j + 1) - 1, k.weights[(j + 1) - 1])
          BY <1>3, <3>1, Zenon
        <4>. QED BY <3>1, <4>1
      <3>3. after[j] \in Distributions /\ k.weights[j] \in Nat
        BY <1>1, <2>2, <3>1
      <3>. QED BY <3>1, <3>2, <3>3, SetType
    <2>3. \A j \in 0 .. server_count : j \in P
      <3>1. P \in SUBSET Nat /\ server_count \in Nat
        BY <1>1
      <3>. HIDE DEF P
      <3>. QED BY <2>1, <2>2, <3>1, Climb
    <2>. QED BY <1>1, <2>3
  <1>5. Configured(k, random) = after[server_count]
    BY DEF Configured, d, after
  <1>. QED BY <1>1, <1>4, <1>5

-----------------------------------------------------------------------------
(* Sums and numbers of elements.                                          *)

(* Finite sets, one after the other.                                       *)
LEMMA CardinalityInduction ==
    ASSUME NEW S, IsFiniteSet(S), NEW P \in SUBSET SUBSET S, {} \in P,
           \A T \in SUBSET S : (T # {} /\ (\A x \in T : T \ {x} \in P)) => T \in P
    PROVE  \A T \in SUBSET S : T \in P
  <1>. DEFINE Q == {n \in Nat : \A T \in SUBSET S : Cardinality(T) = n => T \in P}
  <1>1. \A T \in SUBSET S : IsFiniteSet(T) /\ Cardinality(T) \in Nat
    BY FS_Subset, FS_CardinalityType
  <1>2. 0 \in Q
    BY <1>1, FS_EmptySet, Zenon
  <1>3. ASSUME NEW n \in Nat, n \in Q PROVE n + 1 \in Q
    <2>. SUFFICES ASSUME NEW T \in SUBSET S, Cardinality(T) = n + 1 PROVE T \in P
      OBVIOUS
    <2>1. T # {}
      BY FS_EmptySet
    <2>2. ASSUME NEW x \in T PROVE T \ {x} \in P
      <3>1. Cardinality(T \ {x}) = n
        BY <1>1, FS_RemoveElement
      <3>2. T \ {x} \in SUBSET S
        OBVIOUS
      <3>. QED BY <1>3, <3>1, <3>2
    <2>. QED BY <2>1, <2>2
  <1>4. ASSUME NEW T \in SUBSET S PROVE T \in P
    <2>1. Cardinality(T) \in Nat
      BY <1>1
    <2>2. Q \in SUBSET Nat
      OBVIOUS
    <2>. HIDE DEF Q
    <2>3. \A k \in 0 .. Cardinality(T) : k \in Q
      BY <1>2, <1>3, <2>1, <2>2, Climb
    <2>4. Cardinality(T) \in Q
      BY <2>1, <2>3
    <2>. QED BY <2>4 DEF Q
  <1>. QED BY <1>4

(* The counts of disjoint sets add up to the count of their union.         *)
LEMMA TotalIsCardinality ==
    ASSUME NEW D, IsFiniteSet(D), NEW S, NEW counts, DOMAIN counts = D,
           \A k \in D : IsFiniteSet(S[k]) /\ counts[k] = Cardinality(S[k]),
           \A k, l \in D : k # l => S[k] \cap S[l] = {}
    PROVE  /\ Total(counts) = Cardinality(UNION {S[k] : k \in D})
           /\ IsFiniteSet(UNION {S[k] : k \in D})
  <1>. DEFINE All(T) == UNION {S[k] : k \in T}
              F(f) == [T \in SUBSET D |-> IF T = {} THEN 0
                                          ELSE counts[CHOOSE x \in T : TRUE] + f[T \ {CHOOSE x \in T : TRUE}]]
              g == [T \in SUBSET D |-> Cardinality(All(T))]
              iter == CHOOSE f : f = F(f)
  <1>1. Total(counts) = iter[D]
    BY DEF Total, MapThenSumSet, MapThenFoldSet
  <1>2. \A T \in SUBSET D : IsFiniteSet(All(T))
    <2>. SUFFICES ASSUME NEW T \in SUBSET D PROVE IsFiniteSet(All(T))
      OBVIOUS
    <2>. DEFINE P == {V \in SUBSET D : IsFiniteSet(All(V))}
    <2>1. {} \in P
      <3>1. All({}) = {}
        OBVIOUS
      <3>. QED BY <3>1, FS_EmptySet
    <2>2. ASSUME NEW V \in SUBSET D, V # {}, \A x \in V : V \ {x} \in P PROVE V \in P
      <3>1. PICK x \in V : TRUE
        BY <2>2
      <3>2. All(V) = All(V \ {x}) \cup S[x]
        OBVIOUS
      <3>3. IsFiniteSet(All(V \ {x})) /\ IsFiniteSet(S[x])
        BY <2>2
      <3>. DEFINE X == All(V \ {x})
                  Y == S[x]
      <3>. HIDE DEF X, Y
      <3>4. IsFiniteSet(X \cup Y)
        BY <3>3, FS_Union, Zenon DEF X, Y
      <3>5. All(V) = X \cup Y
        BY <3>2 DEF X, Y
      <3>6. IsFiniteSet(All(V))
        <4>. HIDE DEF All
        <4>. QED BY <3>4, <3>5
      <3>. QED BY <3>6
    <2>3. P \in SUBSET SUBSET D
      OBVIOUS
    <2>4. \A V \in SUBSET D : V \in P
      <3>. HIDE DEF P
      <3>. QED BY <2>1, <2>2, <2>3, CardinalityInduction, Zenon
    <2>. QED BY <2>4
  <1>3. ASSUME NEW T \in SUBSET D, NEW x \in T
        PROVE  Cardinality(All(T)) = counts[x] + Cardinality(All(T \ {x}))
    <2>1. All(T) = All(T \ {x}) \cup S[x] /\ All(T \ {x}) \cap S[x] = {}
      OBVIOUS
    <2>2. IsFiniteSet(All(T \ {x})) /\ IsFiniteSet(S[x]) /\ counts[x] = Cardinality(S[x])
      BY <1>2, Zenon
    <2>. DEFINE X == All(T \ {x})
    <2>5. IsFiniteSet(X) /\ IsFiniteSet(S[x]) /\ All(T) = X \cup S[x] /\ X \cap S[x] = {}
      BY <2>1, <2>2
    <2>. HIDE DEF All, X
    <2>3. /\ Cardinality(All(T)) = Cardinality(X) + Cardinality(S[x]) - Cardinality(X \cap S[x])
          /\ Cardinality(X) \in Nat /\ Cardinality(S[x]) \in Nat
      BY <2>5, FS_Union, FS_CardinalityType
    <2>4. Cardinality(X \cap S[x]) = 0
      BY <2>5, FS_EmptySet, Zenon
    <2>. QED BY <2>2, <2>3, <2>4 DEF X
  <1>4. \E f : f = F(f)
    <2>1. ASSUME NEW T \in SUBSET D PROVE g[T] = F(g)[T]
      <3>1. CASE T = {}
        <4>1. All(T) = {}
          BY <3>1
        <4>. HIDE DEF All
        <4>. QED BY <3>1, <4>1, FS_EmptySet
      <3>2. CASE T # {}
        <4>. DEFINE x == CHOOSE y \in T : TRUE
        <4>1. x \in T
          BY <3>2
        <4>. HIDE DEF All
        <4>2. g[T \ {x}] = Cardinality(All(T \ {x})) /\ g[T] = Cardinality(All(T))
          OBVIOUS
        <4>. HIDE DEF g
        <4>3. F(g)[T] = counts[x] + g[T \ {x}]
          BY <3>2
        <4>. HIDE DEF x, F
        <4>. QED BY <1>3, <4>1, <4>2, <4>3
      <3>. QED BY <3>1, <3>2
    <2>2. g = F(g)
      <3>1. g = [T \in SUBSET D |-> g[T]]
        <4>. HIDE DEF All
        <4>. QED OBVIOUS
      <3>2. F(g) = [T \in SUBSET D |-> F(g)[T]]
        <4>. HIDE DEF g
        <4>. QED OBVIOUS
      <3>. HIDE DEF g, F
      <3>. QED BY <2>1, <3>1, <3>2, Zenon
    <2>. QED BY <2>2, Zenon
  <1>5. iter = F(iter)
    <2>. HIDE DEF F
    <2>. QED BY <1>4, Zenon
  <1>. HIDE DEF iter
  <1>6. \A T \in SUBSET D : iter[T] = Cardinality(All(T))
    <2>. DEFINE P == {V \in SUBSET D : iter[V] = Cardinality(All(V))}
    <2>1. {} \in P
      <3>1. All({}) = {} /\ iter[{}] = 0
        BY <1>5
      <3>. HIDE DEF All
      <3>. QED BY <3>1, FS_EmptySet
    <2>2. ASSUME NEW V \in SUBSET D, V # {}, \A x \in V : V \ {x} \in P PROVE V \in P
      <3>. DEFINE x == CHOOSE y \in V : TRUE
      <3>1. x \in V
        BY <2>2
      <3>2. iter[V] = counts[x] + iter[V \ {x}]
        BY <1>5, <2>2, Zenon
      <3>. HIDE DEF x, All
      <3>3. iter[V \ {x}] = Cardinality(All(V \ {x}))
        BY <2>2, <3>1
      <3>. QED BY <1>3, <3>1, <3>2, <3>3
    <2>3. P \in SUBSET SUBSET D
      OBVIOUS
    <2>4. \A T \in SUBSET D : T \in P
      <3>. HIDE DEF P
      <3>. QED BY <2>1, <2>2, <2>3, CardinalityInduction, Zenon
    <2>. QED BY <2>4, Zenon
  <1>. QED BY <1>1, <1>2, <1>6

(* A sum of numbers is a number.                                           *)
LEMMA TotalType ==
    ASSUME NEW D, IsFiniteSet(D), NEW counts \in [D -> Nat]
    PROVE  Total(counts) \in Nat
  <1>. DEFINE S == [k \in D |-> {k} \X (1 .. counts[k])]
  <1>1. ASSUME NEW k \in D PROVE IsFiniteSet(S[k]) /\ counts[k] = Cardinality(S[k])
    <2>. DEFINE n == counts[k]
                I == 1 .. n
                K == {k}
    <2>1. n \in Nat /\ 1 \in Int /\ n \in Int /\ S[k] = K \X I
      OBVIOUS
    <2>. HIDE DEF n, S
    <2>2. IsFiniteSet(I) /\ Cardinality(I) = n
      BY <2>1, FS_Interval
    <2>3. IsFiniteSet(K) /\ Cardinality(K) = 1
      BY FS_Singleton, Zenon
    <2>. HIDE DEF I, K
    <2>4. IsFiniteSet(K \X I) /\ Cardinality(K \X I) = 1 * n
      BY <2>2, <2>3, FS_Product
    <2>5. 1 * n = n
      BY <2>1
    <2>. QED BY <2>1, <2>4, <2>5 DEF n
  <1>2. ASSUME NEW k \in D, NEW l \in D, k # l PROVE S[k] \cap S[l] = {}
    BY <1>2
  <1>3. DOMAIN counts = D
    OBVIOUS
  <1>. HIDE DEF S
  <1>4. /\ Total(counts) = Cardinality(UNION {S[k] : k \in D})
        /\ IsFiniteSet(UNION {S[k] : k \in D})
    BY <1>1, <1>2, <1>3, TotalIsCardinality
  <1>. QED BY <1>4, FS_CardinalityType

-----------------------------------------------------------------------------
(* The inductive invariant.                                               *)

(* The types of the variables.                                            *)
AllRequests == UNION {Requests[c] : c \in Clients}
Pieces == [length : Nat \ {0}, offset : Nat, data : Nat]
Fragments == UNION {[D -> Values] : D \in SUBSET Bytes}
AnyReply == {NULL} \cup Seq(BOOLEAN) \cup Seq(Nat) \cup Seq(Fragments)
ClientStates ==
    [pc : {"idle", "distribute", "parallel"}, n : Nat, req : AllRequests \cup {NULL},
     op : Nat, data : Nat, bytes : Nat,
     buffer : [Bytes -> {NULL} \cup {<<v>> : v \in Values}], ret : BOOLEAN]
PartStates == [pc : {"none", "send", "wait", "done"}, pieces : Seq(Pieces), reply : AnyReply]
Messages == [server : Servers, id : Ids, req : AllRequests, pieces : Seq(Pieces)]
Files == [exists : BOOLEAN, size : Nat, bytes : [Bytes -> Values]]
Todos == [kind : {"WRITE", "DELETE", "OTHER"}, bytes : SUBSET Bytes]

(* Type correctness of the clients, the messages and the files.           *)
TypeOK ==
    /\ handle \in [Clients -> Usable]
    /\ client \in [Clients -> ClientStates]
    /\ part \in [Clients -> [Servers -> PartStates]]
    /\ net \subseteq Messages
    /\ file \in [Servers -> Files]
    /\ place \in [Bytes -> [index : Servers, offset : Nat]]
    /\ seen \in [Clients -> {NULL} \cup [Bytes -> SUBSET Values]]
    /\ todo \in [Ids -> {NULL} \cup Todos]
    /\ issued \in [Ids -> {NULL} \cup AllRequests]

(* All handles agree where a byte lies, and no two bytes lie in one place.*)
Layout ==
    /\ \A c \in Clients, p \in Bytes : PlaceOf(handle[c], p) = place[p]
    /\ \A p \in Bytes : place[p].offset <= p
    /\ \A p, q \in Bytes : place[p] = place[q] => p = q

(* The requests of c: those issued so far have been recorded.              *)
NumberedOf(c) ==
    /\ \A n \in 1 .. MaxRequests[c] :
          IF n > client[c].n THEN issued[<<c, n>>] = NULL /\ todo[<<c, n>>] = NULL
          ELSE /\ issued[<<c, n>>] \in Requests[c] /\ todo[<<c, n>>] \in Todos
               /\ todo[<<c, n>>].kind = Kind(issued[<<c, n>>])
               /\ todo[<<c, n>>].bytes \subseteq Reach(issued[<<c, n>>])
    /\ client[c].n <= MaxRequests[c]
    /\ client[c].req = NULL => client[c].pc = "idle"
    /\ client[c].req # NULL =>
          client[c].n >= 1 /\ client[c].req \in Requests[c] /\ issued[IdOf(c)] = client[c].req

Numbered == \A c \in Clients : NumberedOf(c)

(* The bytes of the object in a piece, and in all pieces.                 *)
BytesOf(piece) == piece.data .. piece.data + piece.length - 1
AllBytes(pieces) == UNION {BytesOf(pieces[k]) : k \in DOMAIN pieces}

(* Pieces of a request that belong to server s: every byte of them is     *)
(* asked for and lies on s where the layout puts it.                      *)
Cut(pieces, s, r) ==
    /\ AllBytes(pieces) \subseteq Covered(r.ops)
    /\ \A k \in DOMAIN pieces : \A j \in 0 .. pieces[k].length - 1 :
          place[pieces[k].data + j] = [index |-> s, offset |-> pieces[k].offset + j]

(* What a message is going to change may still be changed by its request. *)
Left(id, s, r, pieces) ==
    /\ r.type = "WRITE" => AllBytes(pieces) \subseteq todo[id].bytes
    /\ r.type = "DELETE" => Stored(s) \subseteq todo[id].bytes

(* The bytes of an operation, and those cut into pieces so far.           *)
OpBytes(op) == op.offset .. op.offset + op.length - 1
CutUpTo(ops, op, data) ==
    (UNION {OpBytes(ops[i]) : i \in 1 .. op - 1}) \cup (ops[op].offset .. data - 1)
CutSoFar(c) == CutUpTo(client[c].req.ops, client[c].op, client[c].data)

(* A client that cuts its request: the distribution holds what is left of *)
(* the operation, and nothing has been sent.                              *)
Distributing(c) ==
    LET r == client[c].req
        op == r.ops[client[c].op]
    IN /\ r.type \in {"READ", "WRITE"} /\ client[c].op \in DOMAIN r.ops
       /\ handle[c].offset = client[c].data /\ op.offset <= client[c].data
       /\ client[c].data + handle[c].length = op.offset + op.length
       /\ todo[IdOf(c)].bytes = Reach(r)
       /\ \A s \in Servers : /\ part[c][s].pc \in {"none", "send"}
                             /\ AllBytes(part[c][s].pieces) \subseteq CutSoFar(c)

(* The background operations of c: whatever waits to be sent is still to   *)
(* be done.                                                                *)
PartOf(c, s) ==
    /\ Cut(part[c][s].pieces, s, client[c].req)
    /\ part[c][s].pc # "wait" => part[c][s].reply = NULL
    /\ part[c][s].pc = "none" => part[c][s].pieces = <<>>
    /\ part[c][s].pc = "send" => Left(IdOf(c), s, client[c].req, part[c][s].pieces)

(* The background operations of c belong to what it executes.             *)
WorkingOf(c) ==
    /\ client[c].pc = "idle" => part[c] = [s \in Servers |-> NoPart]
    /\ client[c].pc = "distribute" => Distributing(c)
    /\ client[c].pc # "idle" => \A s \in Servers : PartOf(c, s)

Working == \A c \in Clients : WorkingOf(c)

(* A message on its way: nothing of it is done, and who expects a reply    *)
(* still waits for it.                                                     *)
Travels(m) ==
    LET c == m.id[1]
        p == part[c][m.server]
    IN /\ m.req = issued[m.id] /\ m.id[2] <= client[c].n
       /\ Cut(m.pieces, m.server, m.req)
       /\ Left(m.id, m.server, m.req, m.pieces)
       /\ m.id[2] = client[c].n /\ client[c].pc # "idle" =>
             client[c].pc = "parallel" /\ p.pc \in {"wait", "done"}
       /\ Expects(m.req) =>
             /\ m.id[2] = client[c].n /\ client[c].pc = "parallel"
             /\ p.pc = "wait" /\ p.reply = NULL /\ p.pieces = m.pieces

Travelling ==
    /\ \A m \in net : Travels(m)
    /\ \A m, o \in net : m.id = o.id /\ m.server = o.server => m = o

(* A file that does not exist holds nothing.                              *)
Emptied == \A s \in Servers : ~file[s].exists => \A q \in Bytes : file[s].bytes[q] = NULL

(* A reply fits the request: what a server returned for a byte was the    *)
(* value of that byte at some time since the read began.                  *)
Answers(c, s) ==
    LET r == client[c].req
        pieces == part[c][s].pieces
        reply == part[c][s].reply
    IN /\ r.type = "STATUS" => reply \in Seq(Nat) /\ reply # <<>>
       /\ r.type = "WRITE" => reply \in Seq(Nat)
       /\ r.type = "READ" => reply \in Seq(Fragments) /\
             \A k \in DOMAIN reply :
                /\ k \in DOMAIN pieces
                /\ \A j \in DOMAIN reply[k] : /\ j < pieces[k].length
                                              /\ reply[k][j] \in seen[c][pieces[k].data + j]

(* A read: what was seen of a byte includes its value now, and whatever    *)
(* came back was seen.                                                     *)
SeeingOf(c) ==
    /\ seen[c] # NULL => \A p \in Bytes : Content(file)[p] \in seen[c][p]
    /\ client[c].req # NULL =>
          /\ client[c].req.type = "READ" <=> seen[c] # NULL
          /\ client[c].req.type = "READ" => \A p \in Bytes : client[c].buffer[p] # NULL =>
                client[c].buffer[p][1] \in seen[c][p] /\ p \in Covered(client[c].req.ops)
          /\ \A s \in Servers : part[c][s].reply # NULL => Answers(c, s)

Seeing == \A c \in Clients : SeeingOf(c)

(* The inductive invariant.                                               *)
IInv == TypeOK /\ Layout /\ Numbered /\ Working /\ Travelling /\ Emptied /\ Seeing

-----------------------------------------------------------------------------
(* Requests and their numbers.                                             *)
LEMMA IdType ==
    ASSUME NEW c \in Clients, NEW n \in 1 .. MaxRequests[c]
    PROVE  <<c, n>> \in Ids
  BY DEF Ids

(* What a request number consists of.                                     *)
LEMMA IdParts ==
    ASSUME NEW id \in Ids
    PROVE  /\ id[1] \in Clients /\ id[2] \in 1 .. MaxRequests[id[1]] /\ id = <<id[1], id[2]>>
           /\ MaxRequests[id[1]] \in Nat /\ id[2] \in Nat
  <1>1. PICK c \in Clients : id \in {c} \X (1 .. MaxRequests[c])
    BY DEF Ids
  <1>2. id[1] = c /\ id[2] \in 1 .. MaxRequests[c] /\ id = <<id[1], id[2]>>
    BY <1>1
  <1>. QED BY <1>2, DistributedObjectAssumption

(* What the assumptions say of a request.                                 *)
LEMMA RequestType ==
    ASSUME NEW c \in Clients, NEW r \in Requests[c]
    PROVE  /\ r \in AllRequests /\ r # NULL /\ r.type \in Types /\ r.persistency \in Persistencies
           /\ r.ops \in Seq([length : Nat, offset : Nat])
           /\ r.type \in {"READ", "WRITE"} => r.ops # <<>> /\ Covered(r.ops) \subseteq Bytes
           /\ Reach(r) \subseteq Bytes
  <1>1. /\ r # NULL /\ r.type \in Types /\ r.persistency \in Persistencies
        /\ r.ops \in Seq([length : Nat, offset : Nat])
        /\ r.type \in {"READ", "WRITE"} => r.ops # <<>> /\ Covered(r.ops) \subseteq Bytes
    BY DistributedObjectAssumption
  <1>2. Reach(r) \subseteq Bytes
    BY <1>1 DEF Reach
  <1>. QED BY <1>1, <1>2 DEF AllRequests

(* The empty object.                                                       *)
LEMMA RestingType ==
    /\ Resting \in ClientStates /\ Resting.pc = "idle" /\ Resting.n = 0 /\ Resting.req = NULL
    /\ Resting.bytes = 0 /\ \A p \in Bytes : Resting.buffer[p] = NULL
    /\ NoPart \in PartStates /\ NoPart.pc = "none" /\ NoPart.pieces = <<>> /\ NoPart.reply = NULL
    /\ NoFile \in Files /\ ~NoFile.exists /\ \A q \in Bytes : NoFile.bytes[q] = NULL
  BY DEF Resting, ClientStates, NoPart, PartStates, AnyReply, NoFile, Files, Values

(* It holds at first.                                                     *)
LEMMA InitInv == Init => IInv
  <1>. SUFFICES ASSUME Init PROVE IInv
    OBVIOUS
  <1>1. PICK k \in Configurations, maker \in Clients, random \in [Clients -> Servers] :
           LET d == Configured(k, random[maker])
           IN /\ d.type = "WEIGHTED" => WeightSum(d) > 0
              /\ handle = [c \in Clients |-> IF c = maker THEN d ELSE Shared(d, random[c])]
    BY DEF Init
  <1>. DEFINE d == Configured(k, random[maker])
  <1>2. d \in Usable
    <2>1. random[maker] \in Servers
      OBVIOUS
    <2>. QED BY <1>1, <2>1, ConfiguredType DEF Usable
  <1>3. ASSUME NEW c \in Clients
        PROVE  handle[c] \in Usable /\ \A p \in Nat : PlaceOf(handle[c], p) = PlaceOf(d, p)
    <2>. HIDE DEF d
    <2>1. d \in Distributions /\ random[c] \in Servers
      BY <1>2 DEF Usable
    <2>2. handle[c] = d \/ handle[c] = Shared(d, random[c])
      BY <1>1 DEF d
    <2>3. CASE d.type = "WEIGHTED"
      BY <1>2, <2>2, <2>3 DEF Shared
    <2>4. CASE d.type \in Striped
      <3>1. d.type # "WEIGHTED"
        BY <2>4 DEF Striped
      <3>2. Shared(d, random[c]) = NewFromBson(Serialize(d), random[c])
        BY <3>1 DEF Shared
      <3>. DEFINE e == NewFromBson(Serialize(d), random[c])
      <3>3. e \in Distributions /\ e.type = d.type /\ \A p \in Nat : PlaceOf(e, p) = PlaceOf(d, p)
        BY <2>1, <2>4, BsonKeepsLayout
      <3>. HIDE DEF e
      <3>4. handle[c] = d \/ handle[c] = e
        BY <2>2, <3>2 DEF e
      <3>. QED BY <1>2, <3>1, <3>3, <3>4 DEF Usable
    <2>. QED BY <2>1, <2>3, <2>4 DEF Striped, Distributions, DistributionTypes
  <1>. HIDE DEF d
  <1>4. ASSUME NEW p \in Bytes PROVE p \in Nat /\ place[p] = PlaceOf(d, p)
    <2>1. p \in Nat
      BY DistributedObjectAssumption DEF Bytes
    <2>2. (CHOOSE c \in Clients : TRUE) \in Clients
      OBVIOUS
    <2>3. place[p] = PlaceOf(handle[CHOOSE c \in Clients : TRUE], p)
      BY DEF Init
    <2>. QED BY <1>3, <2>1, <2>2, <2>3
  <1>5. Layout
    <2>1. ASSUME NEW p \in Bytes, NEW q \in Bytes, place[p] = place[q] PROVE p = q
      BY <1>2, <1>4, <2>1, PlacesDiffer
    <2>2. ASSUME NEW p \in Bytes PROVE place[p].offset <= p
      BY <1>2, <1>4, PlaceBounds
    <2>. QED BY <1>3, <1>4, <2>1, <2>2 DEF Layout
  <1>6. place \in [Bytes -> [index : Servers, offset : Nat]]
    <2>1. \A p \in Bytes : place[p] \in [index : Servers, offset : Nat]
      BY <1>2, <1>4, PlaceBounds
    <2>2. place = [p \in Bytes |-> place[p]]
      BY DEF Init
    <2>. QED BY <2>1, <2>2
  <1>7. \A s \in Servers : file[s] \in Files /\ \A q \in Bytes : file[s].bytes[q] = NULL
    <2>1. PICK created \in BOOLEAN : file = [s \in Servers |-> [NoFile EXCEPT !.exists = created]]
      BY Zenon DEF Init
    <2>. QED BY <2>1, RestingType DEF Files
  <1>8. TypeOK
    <2>1. handle \in [Clients -> Usable]
      BY <1>1, <1>3
    <2>2. file \in [Servers -> Files]
      BY <1>7, Zenon DEF Init
    <2>. QED BY <1>6, <2>1, <2>2, RestingType, Zenon DEF Init, TypeOK
  <1>9. Numbered
    <2>1. ASSUME NEW c \in Clients
          PROVE  client[c].n = 0 /\ client[c].pc = "idle" /\ client[c].req = NULL /\ MaxRequests[c] \in Nat
      BY RestingType, DistributedObjectAssumption DEF Init
    <2>2. ASSUME NEW c \in Clients, NEW n \in 1 .. MaxRequests[c]
          PROVE  n > client[c].n /\ issued[<<c, n>>] = NULL /\ todo[<<c, n>>] = NULL
      <3>1. <<c, n>> \in Ids /\ n > 0
        BY <2>1, IdType
      <3>. QED BY <2>1, <3>1 DEF Init
    <2>. QED BY <2>1, <2>2 DEF Numbered, NumberedOf
  <1>10. Working
    BY RestingType DEF Init, Working, WorkingOf
  <1>11. Travelling /\ Emptied
    BY <1>7, Zenon DEF Init, Travelling, Emptied
  <1>12. Seeing
    BY RestingType DEF Init, Seeing, SeeingOf
  <1>. QED BY <1>5, <1>8, <1>9, <1>10, <1>11, <1>12 DEF IInv

-----------------------------------------------------------------------------
(* Steps of one client leave the others alone.                            *)

(* What does not change for a client that does nothing.                    *)
LEMMA Bystander ==
    ASSUME NEW c \in Clients, UNCHANGED <<place, file>>,
           handle'[c] = handle[c], client'[c] = client[c], part'[c] = part[c], seen'[c] = seen[c],
           client[c].n \in Nat,
           \A n \in 1 .. MaxRequests[c] : issued'[<<c, n>>] = issued[<<c, n>>] /\ todo'[<<c, n>>] = todo[<<c, n>>],
           MaxRequests[c] \in Nat, NumberedOf(c), WorkingOf(c), SeeingOf(c)
    PROVE  NumberedOf(c)' /\ WorkingOf(c)' /\ SeeingOf(c)'
  <1>1. /\ IdOf(c)' = IdOf(c)
        /\ client[c].req # NULL => issued'[IdOf(c)] = issued[IdOf(c)] /\ todo'[IdOf(c)] = todo[IdOf(c)]
    <2>1. client[c].req # NULL => client[c].n \in 1 .. MaxRequests[c]
      BY DEF NumberedOf
    <2>. QED BY <2>1 DEF IdOf
  <1>2. NumberedOf(c)'
    BY <1>1 DEF NumberedOf
  <1>3. WorkingOf(c)'
    <2>1. CutSoFar(c)' = CutSoFar(c)
      BY DEF CutSoFar
    <2>2. client[c].req # NULL => (Distributing(c)' <=> Distributing(c))
      BY <1>1, <2>1 DEF Distributing
    <2>3. ASSUME NEW s \in Servers, client[c].req # NULL PROVE PartOf(c, s)' <=> PartOf(c, s)
      BY <1>1, <2>3 DEF PartOf, Cut, Left, Stored
    <2>4. client[c].pc # "idle" => client[c].req # NULL
      BY DEF NumberedOf
    <2>. QED BY <2>2, <2>3, <2>4 DEF WorkingOf
  <1>4. SeeingOf(c)'
    <2>1. ASSUME NEW s \in Servers PROVE Answers(c, s)' <=> Answers(c, s)
      BY DEF Answers
    <2>2. Content(file)' = Content(file)
      BY DEF Content
    <2>. QED BY <2>1, <2>2 DEF SeeingOf
  <1>. QED BY <1>2, <1>3, <1>4

(* The same for the messages of such a client.                             *)
LEMMA BystandingMessage ==
    ASSUME NEW m \in Messages, UNCHANGED place,
           LET c == m.id[1] IN client'[c] = client[c] /\ part'[c] = part[c],
           issued'[m.id] = issued[m.id], todo'[m.id] = todo[m.id], Travels(m)
    PROVE  Travels(m)'
  BY DEF Travels, Cut, Left, Stored

(* A step of one client between the beginning and the end of a request.    *)
LEMMA LocalStep ==
    ASSUME IInv, NEW c \in Clients, UNCHANGED <<file, place, seen, todo, issued>>,
           handle' \in [Clients -> Usable], client' \in [Clients -> ClientStates],
           part' \in [Clients -> [Servers -> PartStates]], net' \subseteq Messages,
           \A d \in Clients \ {c} :
              handle'[d] = handle[d] /\ client'[d] = client[d] /\ part'[d] = part[d],
           \A p \in Bytes : PlaceOf(handle'[c], p) = place[p],
           client[c].req # NULL, client'[c].n = client[c].n, client'[c].req = client[c].req,
           \A m \in net' : (m \in net /\ m.id[1] # c) \/ (m.id[1] = c /\ Travels(m)'),
           \A m, o \in net' : m.id = o.id /\ m.server = o.server => m = o,
           WorkingOf(c)', SeeingOf(c)'
    PROVE  IInv'
  <1>1. ASSUME NEW d \in Clients \ {c} PROVE NumberedOf(d)' /\ WorkingOf(d)' /\ SeeingOf(d)'
    <2>1. /\ client[d].n \in Nat /\ MaxRequests[d] \in Nat
          /\ NumberedOf(d) /\ WorkingOf(d) /\ SeeingOf(d)
      BY DistributedObjectAssumption DEF IInv, TypeOK, ClientStates, Numbered, Working, Seeing
    <2>. QED BY <2>1, Bystander
  <1>2. NumberedOf(c)'
    BY DEF IInv, Numbered, NumberedOf, IdOf
  <1>3. TypeOK'
    BY DEF IInv, TypeOK
  <1>4. Layout'
    BY DEF IInv, Layout
  <1>5. Numbered' /\ Working' /\ Seeing'
    BY <1>1, <1>2 DEF Numbered, Working, Seeing
  <1>6. Travelling'
    <2>1. ASSUME NEW m \in net', m.id[1] # c PROVE Travels(m)'
      <3>1. m \in Messages /\ m.id[1] \in Clients \ {c} /\ Travels(m)
        BY <2>1, IdParts DEF IInv, Travelling, Messages
      <3>. QED BY <3>1, BystandingMessage
    <2>. QED BY <2>1 DEF Travelling
  <1>7. Emptied'
    BY DEF IInv, Emptied
  <1>. QED BY <1>3, <1>4, <1>5, <1>6, <1>7 DEF IInv

-----------------------------------------------------------------------------
(* A client receives.                                                     *)

(* A background operation has its reply: the thread is done.               *)
LEMMA ReceivedInv ==
    ASSUME IInv, NEW c \in Clients, NEW s \in Servers, NEW x \in ClientStates,
           client[c].req # NULL, part[c][s].pc = "wait", part[c][s].reply # NULL,
           Received(c, s, x), x.pc = client[c].pc, x.n = client[c].n, x.req = client[c].req,
           x.req.type = "READ" => \A p \in Bytes : x.buffer[p] # NULL =>
               x.buffer[p][1] \in seen[c][p] /\ p \in Covered(x.req.ops)
    PROVE  IInv'
  <1>1. /\ client \in [Clients -> ClientStates] /\ part \in [Clients -> [Servers -> PartStates]]
        /\ WorkingOf(c) /\ SeeingOf(c) /\ net \subseteq Messages
    BY DEF IInv, TypeOK, Working, Seeing
  <1>2. /\ client' = [client EXCEPT ![c] = x] /\ UNCHANGED <<handle, net, file, place, seen, todo, issued>>
        /\ part' = [part EXCEPT ![c][s].pc = "done", ![c][s].reply = NULL]
    BY DEF Received, history
  <1>3. client[c].pc = "parallel" /\ \A u \in Servers : PartOf(c, u)
    BY <1>1, RestingType, Zenon DEF WorkingOf, Distributing, ClientStates
  <1>4. /\ client'[c] = x /\ client' \in [Clients -> ClientStates]
        /\ \A d \in Clients \ {c} : client'[d] = client[d]
    BY <1>1, <1>2
  <1>5. /\ part'[c][s] = [part[c][s] EXCEPT !.pc = "done", !.reply = NULL]
        /\ \A u \in Servers \ {s} : part'[c][u] = part[c][u]
        /\ \A d \in Clients \ {c} : part'[d] = part[d]
        /\ part' = [d \in Clients |-> IF d = c THEN [u \in Servers |-> IF u = s THEN part'[c][s] ELSE part[c][u]] ELSE part[d]]
    BY <1>1, <1>2, Zenon
  <1>6. /\ part'[c][s].pc = "done" /\ part'[c][s].reply = NULL
        /\ part'[c][s].pieces = part[c][s].pieces /\ part'[c][s] \in PartStates
    <2>1. part[c][s] \in PartStates /\ NULL \in AnyReply
      BY <1>1 DEF AnyReply
    <2>. QED BY <1>5, <2>1, Zenon DEF PartStates
  <1>7. part' \in [Clients -> [Servers -> PartStates]]
    BY <1>1, <1>5, <1>6
  <1>8. IdOf(c)' = IdOf(c)
    BY <1>4 DEF IdOf
  <1>9. WorkingOf(c)'
    <2>1. ASSUME NEW u \in Servers PROVE PartOf(c, u)'
      <3>1. CASE u = s
        <4>1. /\ part'[c][s].pieces = part[c][s].pieces /\ part'[c][s].pc = "done"
              /\ part'[c][s].reply = NULL /\ client'[c].req = client[c].req /\ place' = place
          BY <1>2, <1>4, <1>6
        <4>2. PartOf(c, s)
          BY <1>3
        <4>. QED BY <3>1, <4>1, <4>2 DEF PartOf, Cut
      <3>2. CASE u # s
        <4>1. /\ part'[c][u] = part[c][u] /\ client'[c].req = client[c].req
              /\ place' = place /\ todo' = todo
          BY <1>2, <1>4, <1>5, <3>2, Zenon
        <4>2. PartOf(c, u)
          BY <1>3
        <4>. QED BY <1>8, <4>1, <4>2 DEF PartOf, Cut, Left, Stored
      <3>. QED BY <3>1, <3>2
    <2>. QED BY <1>3, <1>4, <2>1 DEF WorkingOf
  <1>10. SeeingOf(c)'
    <2>1. ASSUME NEW u \in Servers, part'[c][u].reply # NULL PROVE Answers(c, u)'
      <3>1. u # s /\ part'[c][u] = part[c][u]
        BY <1>5, <1>6, <2>1, Zenon
      <3>2. Answers(c, u)
        BY <1>1, <2>1, <3>1 DEF SeeingOf
      <3>. QED BY <1>2, <1>4, <3>1, <3>2, Zenon DEF Answers
    <2>2. Content(file)' = Content(file)
      BY <1>2 DEF Content
    <2>. QED BY <1>1, <1>2, <1>4, <2>1, <2>2 DEF SeeingOf
  <1>11. ASSUME NEW m \in net PROVE m.id[1] # c \/ Travels(m)'
    <2>. SUFFICES ASSUME m.id[1] = c PROVE Travels(m)'
      OBVIOUS
    <2>1. Travels(m) /\ m.server \in Servers
      BY <1>1 DEF IInv, Travelling, Messages
    <2>2. CASE m.server = s
      <3>1. ~Expects(m.req)
        BY <2>1, <2>2 DEF Travels
      <3>2. /\ part'[c][s].pc = "done" /\ client'[c].n = client[c].n /\ client'[c].pc = "parallel"
            /\ place' = place /\ todo' = todo /\ issued' = issued
        BY <1>2, <1>3, <1>4, <1>6
      <3>. QED BY <2>1, <2>2, <3>1, <3>2 DEF Travels, Cut, Left, Stored
    <2>3. CASE m.server # s
      <3>1. /\ part'[c][m.server] = part[c][m.server] /\ client'[c].n = client[c].n
            /\ client'[c].pc = client[c].pc
            /\ place' = place /\ todo' = todo /\ issued' = issued
        BY <1>2, <1>4, <1>5, <2>1, <2>3, Zenon
      <3>. QED BY <2>1, <3>1 DEF Travels, Cut, Left, Stored
    <2>. QED BY <2>2, <2>3
  <1>12. /\ handle' \in [Clients -> Usable] /\ \A p \in Bytes : PlaceOf(handle'[c], p) = place[p]
         /\ \A m, o \in net' : m.id = o.id /\ m.server = o.server => m = o
    BY <1>2 DEF IInv, TypeOK, Layout, Travelling
  <1>13. \A m \in net' : (m \in net /\ m.id[1] # c) \/ (m.id[1] = c /\ Travels(m)')
    BY <1>2, <1>11
  <1>14. net' \subseteq Messages /\ \A d \in Clients \ {c} : handle'[d] = handle[d]
    BY <1>1, <1>2
  <1>15. client[c].req # NULL /\ client'[c].n = client[c].n /\ client'[c].req = client[c].req
    BY <1>4
  <1>. QED BY <1>2, <1>4, <1>5, <1>7, <1>9, <1>10, <1>12, <1>13, <1>14, <1>15, LocalStep, Zenon

(* The reply of a background operation that waits for one.                 *)
LEMMA WaitingAnswers ==
    ASSUME IInv, NEW c \in Clients, NEW s \in Servers, NEW types, Waiting(c, s, types)
    PROVE  /\ client[c] \in ClientStates /\ client[c].req # NULL /\ client[c].req.type \in types
           /\ part[c][s].pc = "wait" /\ part[c][s].reply # NULL /\ Answers(c, s)
           /\ client[c].req.type = "READ" => \A p \in Bytes : client[c].buffer[p] # NULL =>
               client[c].buffer[p][1] \in seen[c][p] /\ p \in Covered(client[c].req.ops)
  BY DEF Waiting, IInv, TypeOK, Seeing, SeeingOf

(* The reply to a create or sync is ignored.                              *)
LEMMA ReceiveIgnoredInv ==
    ASSUME IInv, NEW c \in Clients, NEW s \in Servers, ReceiveIgnored(c, s) PROVE IInv'
  BY WaitingAnswers, ReceivedInv DEF ReceiveIgnored

(* The reply to a delete says whether it succeeded.                       *)
LEMMA ReceiveDeleteInv ==
    ASSUME IInv, NEW c \in Clients, NEW s \in Servers, ReceiveDelete(c, s) PROVE IInv'
  <1>. DEFINE x == [client[c] EXCEPT !.ret = @ /\ part[c][s].reply[1]]
  <1>1. Waiting(c, s, {"DELETE"}) /\ Received(c, s, x)
    BY DEF ReceiveDelete
  <1>2. /\ client[c] \in ClientStates /\ client[c].req # NULL /\ client[c].req.type = "DELETE"
        /\ part[c][s].pc = "wait" /\ part[c][s].reply # NULL
    BY <1>1, WaitingAnswers
  <1>3. x \in ClientStates /\ x.pc = client[c].pc /\ x.n = client[c].n /\ x.req = client[c].req
    BY <1>2, Zenon DEF ClientStates
  <1>. HIDE DEF x
  <1>. QED BY <1>1, <1>2, <1>3, ReceivedInv

(* The reply to a status adds the size and the time of one server.        *)
LEMMA ReceiveStatusInv ==
    ASSUME IInv, NEW c \in Clients, NEW s \in Servers, ReceiveStatus(c, s) PROVE IInv'
  <1>. DEFINE x == [client[c] EXCEPT !.bytes = @ + part[c][s].reply[1]]
  <1>1. Waiting(c, s, {"STATUS"}) /\ Received(c, s, x)
    BY DEF ReceiveStatus
  <1>2. /\ client[c] \in ClientStates /\ client[c].req # NULL /\ client[c].req.type = "STATUS"
        /\ part[c][s].pc = "wait" /\ part[c][s].reply # NULL /\ Answers(c, s)
    BY <1>1, WaitingAnswers
  <1>3. part[c][s].reply[1] \in Nat
    BY <1>2 DEF Answers
  <1>4. x \in ClientStates /\ x.pc = client[c].pc /\ x.n = client[c].n /\ x.req = client[c].req
    BY <1>2, <1>3 DEF ClientStates
  <1>. HIDE DEF x
  <1>. QED BY <1>1, <1>2, <1>4, ReceivedInv

(* The sum of a sequence of counts.                                       *)
LEMMA SeqTotal ==
    ASSUME NEW counts \in Seq(Nat) PROVE Total(counts) \in Nat
  <1>1. IsFiniteSet(1 .. Len(counts))
    BY FS_Interval
  <1>. QED BY <1>1, TotalType

(* The reply to a write adds the counts of one server.                    *)
LEMMA ReceiveWriteInv ==
    ASSUME IInv, NEW c \in Clients, NEW s \in Servers, ReceiveWrite(c, s) PROVE IInv'
  <1>. DEFINE x == IF part[c][s].reply = <<>> THEN [client[c] EXCEPT !.ret = FALSE]
                   ELSE [client[c] EXCEPT !.bytes = @ + Total(part[c][s].reply)]
  <1>1. Waiting(c, s, {"WRITE"}) /\ Received(c, s, x)
    BY DEF ReceiveWrite
  <1>2. /\ client[c] \in ClientStates /\ client[c].req # NULL /\ client[c].req.type = "WRITE"
        /\ part[c][s].pc = "wait" /\ part[c][s].reply # NULL /\ Answers(c, s)
    BY <1>1, WaitingAnswers
  <1>3. PICK t \in Nat : t = Total(part[c][s].reply)
    BY <1>2, SeqTotal DEF Answers
  <1>4. x \in ClientStates /\ x.pc = client[c].pc /\ x.n = client[c].n /\ x.req = client[c].req
    <2>1. x = [client[c] EXCEPT !.ret = FALSE] \/ x = [client[c] EXCEPT !.bytes = @ + t]
      BY <1>3
    <2>. HIDE DEF x
    <2>2. CASE x = [client[c] EXCEPT !.ret = FALSE]
      BY <1>2, <2>2, Zenon DEF ClientStates
    <2>3. CASE x = [client[c] EXCEPT !.bytes = @ + t]
      <3>1. client[c].bytes + t \in Nat
        BY <1>2, <1>3 DEF ClientStates
      <3>. QED BY <1>2, <2>3, <3>1 DEF ClientStates
    <2>. QED BY <2>1, <2>2, <2>3
  <1>. HIDE DEF x
  <1>. QED BY <1>1, <1>2, <1>4, ReceivedInv

(* What has come back of a read, and where it belongs.                     *)
LEMMA ReadReply ==
    ASSUME IInv, NEW c \in Clients, NEW s \in Servers, Waiting(c, s, {"READ"}),
           NEW k \in DOMAIN part[c][s].reply
    PROVE  /\ part[c][s].reply \in Seq(Fragments) /\ k \in DOMAIN part[c][s].pieces
           /\ part[c][s].pieces[k] \in Pieces
           /\ IsFiniteSet(DOMAIN part[c][s].reply[k])
           /\ DOMAIN part[c][s].reply[k] \subseteq Bytes
           /\ \A j \in DOMAIN part[c][s].reply[k] :
                 LET p == BufferPosition(part[c][s].pieces[k], j)
                 IN /\ p \in Bytes /\ p \in Covered(client[c].req.ops) /\ place[p].index = s
                    /\ j \in Nat /\ j < part[c][s].pieces[k].length
                    /\ part[c][s].reply[k][j] \in Values
                    /\ part[c][s].reply[k][j] \in seen[c][p]
  <1>. DEFINE reply == part[c][s].reply
              pieces == part[c][s].pieces
              r == client[c].req
  <1>1. /\ client[c] \in ClientStates /\ r # NULL /\ r.type = "READ"
        /\ part[c][s].pc = "wait" /\ Answers(c, s)
    BY WaitingAnswers
  <1>2. /\ reply \in Seq(Fragments) /\ k \in DOMAIN pieces
        /\ \A j \in DOMAIN reply[k] : j < pieces[k].length /\ reply[k][j] \in seen[c][pieces[k].data + j]
    BY <1>1 DEF Answers
  <1>3. pieces \in Seq(Pieces) /\ pieces[k] \in Pieces
    <2>1. part[c][s] \in PartStates
      BY DEF IInv, TypeOK
    <2>2. pieces \in Seq(Pieces)
      BY <2>1 DEF PartStates
    <2>. QED BY <1>2, <2>2
  <1>4. PICK D \in SUBSET Bytes : reply[k] \in [D -> Values]
    <2>1. reply[k] \in Fragments
      BY <1>2
    <2>. QED BY <2>1, Zenon DEF Fragments
  <1>5. IsFiniteSet(Bytes) /\ \A j \in Bytes : j \in Nat
    BY DistributedObjectAssumption, FS_Interval DEF Bytes
  <1>6. IsFiniteSet(D)
    BY <1>4, <1>5, FS_Subset
  <1>7. PartOf(c, s)
    BY <1>1, RestingType DEF IInv, Working, WorkingOf
  <1>8. r.ops \in Seq([length : Nat, offset : Nat]) /\ Covered(r.ops) \subseteq Bytes
    <2>1. r \in Requests[c]
      BY <1>1 DEF IInv, Numbered, NumberedOf
    <2>. QED BY <1>1, <2>1, RequestType
  <1>9. ASSUME NEW j \in DOMAIN reply[k]
        PROVE  LET p == BufferPosition(pieces[k], j)
               IN /\ p \in Bytes /\ p \in Covered(r.ops) /\ place[p].index = s
                  /\ j \in Nat /\ j < pieces[k].length
                  /\ reply[k][j] \in Values /\ reply[k][j] \in seen[c][p]
    <2>1. j \in Nat /\ j \in Bytes /\ j < pieces[k].length /\ reply[k][j] \in Values
          /\ reply[k][j] \in seen[c][pieces[k].data + j]
      BY <1>2, <1>4, <1>5
    <2>2. pieces[k].data \in Nat /\ pieces[k].length \in Nat
      BY <1>3, Zenon DEF Pieces
    <2>3. j \in 0 .. pieces[k].length - 1
      BY <2>1, <2>2
    <2>4. place[pieces[k].data + j] = [index |-> s, offset |-> pieces[k].offset + j]
      BY <1>2, <1>7, <2>3 DEF PartOf, Cut
    <2>5. pieces[k].data + j \in BytesOf(pieces[k])
      BY <2>2, <2>3 DEF BytesOf
    <2>6. pieces[k].data + j \in Covered(r.ops)
      BY <1>2, <1>7, <2>5 DEF PartOf, Cut, AllBytes
    <2>. QED BY <1>8, <2>1, <2>4, <2>6 DEF BufferPosition
  <1>. QED BY <1>2, <1>3, <1>4, <1>6, <1>9

(* The reply to a read copies what one server returned into the buffer.   *)
LEMMA ReceiveReadInv ==
    ASSUME IInv, NEW c \in Clients, NEW s \in Servers, ReceiveRead(c, s) PROVE IInv'
  <1>. DEFINE reply == part[c][s].reply
              pieces == part[c][s].pieces
              At(p) == {kj \in (DOMAIN reply) \X Bytes :
                           kj[2] \in DOMAIN reply[kj[1]] /\ p = BufferPosition(pieces[kj[1]], kj[2])}
              value(p) == IF At(p) = {} THEN client[c].buffer[p]
                          ELSE LET kj == CHOOSE x \in At(p) : TRUE IN <<reply[kj[1]][kj[2]]>>
              total == Total([k \in DOMAIN reply |-> Cardinality(DOMAIN reply[k])])
              x == IF reply = <<>> THEN [client[c] EXCEPT !.ret = FALSE]
                   ELSE [client[c] EXCEPT !.bytes = @ + total, !.buffer = [p \in Bytes |-> value(p)]]
  <1>1. Waiting(c, s, {"READ"}) /\ Received(c, s, x)
    BY Zenon DEF ReceiveRead
  <1>2. /\ client[c] \in ClientStates /\ client[c].req # NULL /\ client[c].req.type = "READ"
        /\ part[c][s].pc = "wait" /\ part[c][s].reply # NULL /\ Answers(c, s)
        /\ \A p \in Bytes : client[c].buffer[p] # NULL =>
               client[c].buffer[p][1] \in seen[c][p] /\ p \in Covered(client[c].req.ops)
    <2>. HIDE DEF x
    <2>. QED BY <1>1, WaitingAnswers
  <1>3. total \in Nat
    <2>1. reply \in Seq(Fragments)
      BY <1>2 DEF Answers
    <2>2. IsFiniteSet(DOMAIN reply)
      <3>1. DOMAIN reply = 1 .. Len(reply) /\ Len(reply) \in Int /\ 1 \in Int
        BY <2>1
      <3>2. IsFiniteSet(1 .. Len(reply))
        BY <3>1, FS_Interval
      <3>. QED BY <3>1, <3>2
    <2>3. \A k \in DOMAIN reply : Cardinality(DOMAIN reply[k]) \in Nat
      BY <1>1, ReadReply, FS_CardinalityType, Zenon
    <2>4. [k \in DOMAIN reply |-> Cardinality(DOMAIN reply[k])] \in [DOMAIN reply -> Nat]
      BY <2>3
    <2>. QED BY <2>2, <2>4, TotalType
  <1>4. ASSUME NEW p \in Bytes
        PROVE  /\ value(p) \in {NULL} \cup {<<v>> : v \in Values}
               /\ value(p) # NULL => value(p)[1] \in seen[c][p] /\ p \in Covered(client[c].req.ops)
    <2>1. CASE At(p) = {}
      BY <1>2, <2>1, Zenon DEF ClientStates
    <2>2. CASE At(p) # {}
      <3>. DEFINE kj == CHOOSE y \in At(p) : TRUE
      <3>1. kj \in At(p)
        BY <2>2, Zenon
      <3>3. value(p) = <<reply[kj[1]][kj[2]]>>
        BY <2>2, Zenon
      <3>. HIDE DEF kj
      <3>2. /\ kj[1] \in DOMAIN reply /\ kj[2] \in DOMAIN reply[kj[1]]
            /\ p = BufferPosition(pieces[kj[1]], kj[2])
        BY <3>1
      <3>. HIDE DEF value
      <3>4. /\ reply[kj[1]][kj[2]] \in Values /\ reply[kj[1]][kj[2]] \in seen[c][p]
            /\ p \in Covered(client[c].req.ops)
        BY <1>1, <3>2, ReadReply, Zenon
      <3>. QED BY <3>3, <3>4
    <2>. QED BY <2>1, <2>2, Zenon
  <1>. HIDE DEF value, total
  <1>5. x \in ClientStates /\ x.pc = client[c].pc /\ x.n = client[c].n /\ x.req = client[c].req
    <2>1. [p \in Bytes |-> value(p)] \in [Bytes -> {NULL} \cup {<<v>> : v \in Values}]
      BY <1>4
    <2>. DEFINE b == [p \in Bytes |-> value(p)]
    <2>2. x = [client[c] EXCEPT !.ret = FALSE] \/ x = [client[c] EXCEPT !.bytes = @ + total, !.buffer = b]
      OBVIOUS
    <2>3. b \in [Bytes -> {NULL} \cup {<<v>> : v \in Values}]
      BY <2>1
    <2>. HIDE DEF x, b
    <2>4. CASE x = [client[c] EXCEPT !.ret = FALSE]
      BY <1>2, <2>4, Zenon DEF ClientStates
    <2>5. CASE x = [client[c] EXCEPT !.bytes = @ + total, !.buffer = b]
      <3>1. client[c].bytes + total \in Nat
        BY <1>2, <1>3 DEF ClientStates
      <3>. QED BY <1>2, <2>3, <2>5, <3>1, Zenon DEF ClientStates
    <2>. QED BY <2>2, <2>4, <2>5
  <1>6. \A p \in Bytes : x.buffer[p] # NULL =>
               x.buffer[p][1] \in seen[c][p] /\ p \in Covered(x.req.ops)
    <2>1. CASE reply = <<>>
      BY <1>2, <2>1 DEF ClientStates
    <2>2. CASE reply # <<>>
      <3>1. \A p \in Bytes : x.buffer[p] = value(p)
        BY <1>2, <2>2 DEF ClientStates
      <3>. QED BY <1>4, <1>5, <3>1
    <2>. QED BY <2>1, <2>2
  <1>. HIDE DEF x
  <1>. QED BY <1>1, <1>2, <1>5, <1>6, ReceivedInv

-----------------------------------------------------------------------------
(* A client sends and finishes.                                           *)

(* The request a client is working on.                                     *)
LEMMA AtWork ==
    ASSUME IInv, NEW c \in Clients, client[c].req # NULL
    PROVE  /\ client[c] \in ClientStates /\ client[c].n \in Nat
           /\ client[c].req \in Requests[c] /\ client[c].req \in AllRequests
           /\ IdOf(c) \in Ids /\ IdOf(c)[1] = c /\ IdOf(c)[2] = client[c].n
           /\ issued[IdOf(c)] = client[c].req /\ todo[IdOf(c)] \in Todos
           /\ todo[IdOf(c)].kind = Kind(client[c].req)
           /\ todo[IdOf(c)].bytes \subseteq Reach(client[c].req)
           /\ client[c].pc # "idle" => \A s \in Servers : PartOf(c, s)
           /\ \A s \in Servers : part[c][s] \in PartStates
  <1>1. client[c] \in ClientStates /\ \A s \in Servers : part[c][s] \in PartStates
    BY DEF IInv, TypeOK
  <1>2. NumberedOf(c) /\ WorkingOf(c)
    BY DEF IInv, Numbered, Working
  <1>3. MaxRequests[c] \in Nat /\ client[c].n \in Nat
    BY <1>1, DistributedObjectAssumption DEF ClientStates
  <1>4. client[c].n \in 1 .. MaxRequests[c] /\ ~(client[c].n > client[c].n)
    BY <1>2, <1>3 DEF NumberedOf
  <1>5. IdOf(c) \in Ids /\ IdOf(c)[1] = c /\ IdOf(c)[2] = client[c].n
    BY <1>4, IdType DEF IdOf
  <1>6. /\ todo[IdOf(c)] \in Todos
        /\ todo[IdOf(c)].kind = Kind(issued[IdOf(c)])
        /\ todo[IdOf(c)].bytes \subseteq Reach(issued[IdOf(c)])
        /\ issued[IdOf(c)] = client[c].req
    BY <1>2, <1>4 DEF NumberedOf, IdOf
  <1>. QED BY <1>1, <1>2, <1>3, <1>5, <1>6, RequestType DEF WorkingOf, NumberedOf

(* Nothing is being sent for a part that has not been sent.                *)
LEMMA Unsent ==
    ASSUME IInv, NEW c \in Clients, NEW m \in net, m.id[1] = c, client[c].pc # "idle",
           client[c].pc = "distribute" \/ part[c][m.server].pc \in {"none", "send"}
    PROVE  m.id[2] # client[c].n /\ ~Expects(m.req)
  BY DEF IInv, Travelling, Travels

(* A message keeps travelling while its client waits as it should.         *)
LEMMA StillTravels ==
    ASSUME NEW m, NEW c, c = m.id[1], UNCHANGED place,
           issued'[m.id] = issued[m.id], todo'[m.id].bytes = todo[m.id].bytes, Travels(m),
           client'[c].n = client[c].n,
           m.id[2] = client[c].n /\ client'[c].pc # "idle" =>
             client'[c].pc = "parallel" /\ part'[c][m.server].pc \in {"wait", "done"},
           Expects(m.req) =>
             /\ client'[c].pc = "parallel"
             /\ part'[c][m.server].pc = "wait" /\ part'[c][m.server].reply = part[c][m.server].reply
             /\ part'[c][m.server].pieces = part[c][m.server].pieces
    PROVE  Travels(m)'
  <1>1. Cut(m.pieces, m.server, m.req)' /\ Left(m.id, m.server, m.req, m.pieces)'
    BY DEF Travels, Cut, Left, Stored
  <1>. QED BY <1>1 DEF Travels

(* A background operation sends its message.                              *)
LEMMA SendInv ==
    ASSUME IInv, NEW c \in Clients, NEW s \in Servers, Send(c, s) PROVE IInv'
  <1>. DEFINE r == client[c].req
              next == IF Expects(r) THEN "wait" ELSE "done"
  <1>0. PICK m0 : m0 = [server |-> s, id |-> IdOf(c), req |-> r, pieces |-> part[c][s].pieces]
    BY Zenon
  <1>1. /\ client[c].pc = "parallel" /\ part[c][s].pc = "send" /\ net' = net \cup {m0}
        /\ part' = [part EXCEPT ![c][s].pc = next]
        /\ UNCHANGED <<handle, client, file, place, seen, todo, issued>>
    BY <1>0 DEF Send, history
  <1>2. /\ client \in [Clients -> ClientStates] /\ part \in [Clients -> [Servers -> PartStates]]
        /\ NumberedOf(c) /\ SeeingOf(c) /\ net \subseteq Messages
    BY DEF IInv, TypeOK, Numbered, Seeing
  <1>3. r # NULL
    BY <1>1, <1>2 DEF NumberedOf
  <1>4. /\ r \in AllRequests /\ IdOf(c) \in Ids /\ IdOf(c)[1] = c /\ IdOf(c)[2] = client[c].n
        /\ client[c].n \in Nat /\ issued[IdOf(c)] = r /\ \A u \in Servers : PartOf(c, u)
    BY <1>1, <1>3, AtWork
  <1>. HIDE DEF next
  <1>5. /\ part'[c][s] = [part[c][s] EXCEPT !.pc = next]
        /\ \A u \in Servers \ {s} : part'[c][u] = part[c][u]
        /\ \A d \in Clients \ {c} : part'[d] = part[d]
        /\ part' = [d \in Clients |-> IF d = c THEN [u \in Servers |-> IF u = s THEN part'[c][s] ELSE part[c][u]] ELSE part[d]]
    BY <1>1, <1>2, Zenon
  <1>6. /\ part'[c][s].pc = next /\ part'[c][s].reply = part[c][s].reply /\ next \in {"wait", "done"}
        /\ part'[c][s].pieces = part[c][s].pieces /\ part'[c][s] \in PartStates
        /\ part[c][s].reply = NULL /\ part[c][s].pieces \in Seq(Pieces)
    <2>1. part[c][s] \in PartStates /\ next \in {"wait", "done"}
      BY <1>2 DEF next
    <2>2. part[c][s].reply = NULL
      BY <1>1, <1>4 DEF PartOf
    <2>. QED BY <1>5, <2>1, <2>2 DEF PartStates
  <1>7. part' \in [Clients -> [Servers -> PartStates]]
    BY <1>2, <1>5, <1>6
  <1>8. m0 \in Messages /\ m0.server = s /\ m0.id = IdOf(c) /\ m0.req = r /\ m0.pieces = part[c][s].pieces
    BY <1>0, <1>4, <1>6 DEF Messages
  <1>. HIDE DEF r
  <1>9. Travels(m0)'
    <2>1. Cut(part[c][s].pieces, s, r) /\ Left(IdOf(c), s, r, part[c][s].pieces)
      BY <1>1, <1>4 DEF PartOf, r
    <2>2. Cut(m0.pieces, s, r)' /\ Left(m0.id, s, r, m0.pieces)'
      BY <1>1, <1>8, <2>1 DEF Cut, Left, Stored, r
    <2>3. Expects(r) => next = "wait"
      BY DEF next, r
    <2>. QED BY <1>1, <1>4, <1>6, <1>8, <2>2, <2>3 DEF Travels, r
  <1>10. ASSUME NEW m \in net, m.id[1] = c PROVE Travels(m)' /\ ~(m.id = m0.id /\ m.server = m0.server)
    <2>1. Travels(m) /\ m.server \in Servers
      BY <1>2 DEF IInv, Travelling, Messages
    <2>2. CASE m.server = s
      <3>1. m.id[2] # client[c].n /\ ~Expects(m.req)
        BY <1>1, <1>10, <2>2, Unsent
      <3>2. m.id # m0.id
        BY <1>4, <1>8, <3>1
      <3>3. Travels(m)'
        BY <1>1, <1>10, <2>1, <3>1, StillTravels
      <3>. QED BY <3>2, <3>3
    <2>3. CASE m.server # s
      <3>1. part'[c][m.server] = part[c][m.server]
        BY <1>5, <2>1, <2>3
      <3>2. m.id[2] = client[c].n => client[c].pc = "parallel" /\ part[c][m.server].pc \in {"wait", "done"}
        BY <1>1, <1>10, <2>1 DEF Travels
      <3>3. Expects(m.req) => part[c][m.server].pc = "wait"
        BY <1>10, <2>1 DEF Travels
      <3>4. Travels(m)'
        BY <1>1, <1>10, <2>1, <3>1, <3>2, <3>3, StillTravels
      <3>. QED BY <1>8, <2>3, <3>4
    <2>. QED BY <2>2, <2>3
  <1>11. WorkingOf(c)'
    <2>1. ASSUME NEW u \in Servers PROVE PartOf(c, u)'
      <3>1. PartOf(c, u) /\ IdOf(c)' = IdOf(c)
        BY <1>1, <1>4 DEF IdOf
      <3>2. CASE u = s
        <4>1. Cut(part[c][s].pieces, s, client[c].req)' /\ (part'[c][s].pc # "wait" => part'[c][s].reply = NULL)
          BY <1>1, <1>6, <3>1, <3>2 DEF PartOf, Cut
        <4>. QED BY <1>6, <3>2, <4>1 DEF PartOf
      <3>3. CASE u # s
        <4>1. part'[c][u] = part[c][u]
          BY <1>5, <3>3
        <4>2. client'[c].req = client[c].req /\ place' = place /\ todo' = todo
          BY <1>1
        <4>. QED BY <3>1, <4>1, <4>2 DEF PartOf, Cut, Left, Stored
      <3>. QED BY <3>2, <3>3
    <2>. QED BY <1>1, <2>1 DEF WorkingOf
  <1>12. SeeingOf(c)'
    <2>1. ASSUME NEW u \in Servers, part'[c][u].reply # NULL PROVE Answers(c, u)'
      <3>1. u # s /\ part'[c][u] = part[c][u]
        BY <1>5, <1>6, <2>1, Zenon
      <3>2. Answers(c, u)
        BY <1>2, <1>3, <2>1, <3>1 DEF SeeingOf, r
      <3>. QED BY <1>1, <3>1, <3>2 DEF Answers
    <2>2. Content(file)' = Content(file)
      BY <1>1 DEF Content
    <2>. QED BY <1>1, <1>2, <2>1, <2>2 DEF SeeingOf
  <1>13. /\ handle' \in [Clients -> Usable] /\ \A p \in Bytes : PlaceOf(handle'[c], p) = place[p]
         /\ client' \in [Clients -> ClientStates]
    BY <1>1, <1>2 DEF IInv, TypeOK, Layout
  <1>14. \A m \in net' : (m \in net /\ m.id[1] # c) \/ (m.id[1] = c /\ Travels(m)')
    BY <1>1, <1>4, <1>8, <1>9, <1>10
  <1>15. net' \subseteq Messages
    BY <1>1, <1>2, <1>8
  <1>16. \A m, o \in net' : m.id = o.id /\ m.server = o.server => m = o
    <2>1. \A m, o \in net : m.id = o.id /\ m.server = o.server => m = o
      BY DEF IInv, Travelling
    <2>2. \A m \in net : ~(m.id = m0.id /\ m.server = m0.server)
      BY <1>4, <1>8, <1>10
    <2>. QED BY <1>1, <2>1, <2>2
  <1>17. /\ client'[c].n = client[c].n /\ client'[c].req = client[c].req /\ client[c].req # NULL
         /\ \A d \in Clients \ {c} : handle'[d] = handle[d] /\ client'[d] = client[d] /\ part'[d] = part[d]
    BY <1>1, <1>3, <1>5 DEF r
  <1>. QED BY <1>1, <1>7, <1>11, <1>12, <1>13, <1>14, <1>15, <1>16, <1>17, LocalStep

(* All background operations are done.                                    *)
LEMMA FinishInv ==
    ASSUME IInv, NEW c \in Clients, Finish(c) PROVE IInv'
  <1>1. /\ client[c].pc = "parallel" /\ \A s \in Servers : part[c][s].pc \in {"none", "done"}
        /\ client' = [client EXCEPT ![c].pc = "idle"]
        /\ part' = [part EXCEPT ![c] = [s \in Servers |-> NoPart]]
        /\ UNCHANGED <<handle, net, file, place, seen, todo, issued>>
    BY DEF Finish, history
  <1>2. /\ client \in [Clients -> ClientStates] /\ part \in [Clients -> [Servers -> PartStates]]
        /\ NumberedOf(c) /\ SeeingOf(c) /\ net \subseteq Messages
    BY DEF IInv, TypeOK, Numbered, Seeing
  <1>3. client[c].req # NULL
    BY <1>1, <1>2 DEF NumberedOf
  <1>4. /\ part'[c] = [s \in Servers |-> NoPart] /\ part' \in [Clients -> [Servers -> PartStates]]
        /\ \A s \in Servers : part'[c][s].reply = NULL
        /\ \A d \in Clients \ {c} : part'[d] = part[d]
    BY <1>1, <1>2, RestingType
  <1>5. /\ client'[c] = [client[c] EXCEPT !.pc = "idle"] /\ \A d \in Clients \ {c} : client'[d] = client[d]
        /\ client' = [d \in Clients |-> IF d = c THEN client'[c] ELSE client[d]]
    BY <1>1, <1>2, Zenon
  <1>6. /\ client'[c] \in ClientStates /\ client'[c].pc = "idle" /\ client'[c].n = client[c].n
        /\ client'[c].req = client[c].req /\ client'[c].buffer = client[c].buffer
    <2>1. client[c] \in ClientStates
      BY <1>2
    <2>. QED BY <1>5, <2>1 DEF ClientStates
  <1>7. client' \in [Clients -> ClientStates]
    BY <1>2, <1>5, <1>6, Zenon
  <1>8. WorkingOf(c)'
    BY <1>4, <1>6 DEF WorkingOf
  <1>9. SeeingOf(c)'
    <2>2. Content(file)' = Content(file)
      BY <1>1 DEF Content
    <2>. QED BY <1>1, <1>2, <1>4, <1>6, <2>2 DEF SeeingOf
  <1>10. ASSUME NEW m \in net, m.id[1] = c PROVE Travels(m)'
    <2>1. Travels(m) /\ m.server \in Servers
      BY <1>2 DEF IInv, Travelling, Messages
    <2>2. ~Expects(m.req)
      BY <1>1, <1>10, <2>1 DEF Travels
    <2>. QED BY <1>1, <1>6, <1>10, <2>1, <2>2, StillTravels
  <1>11. /\ handle' \in [Clients -> Usable] /\ \A p \in Bytes : PlaceOf(handle'[c], p) = place[p]
         /\ \A m, o \in net' : m.id = o.id /\ m.server = o.server => m = o
    BY <1>1 DEF IInv, TypeOK, Layout, Travelling
  <1>12. /\ \A m \in net' : (m \in net /\ m.id[1] # c) \/ (m.id[1] = c /\ Travels(m)')
         /\ net' \subseteq Messages
         /\ \A d \in Clients \ {c} : handle'[d] = handle[d] /\ client'[d] = client[d] /\ part'[d] = part[d]
    BY <1>1, <1>2, <1>4, <1>5, <1>10
  <1>. QED BY <1>1, <1>3, <1>4, <1>6, <1>7, <1>8, <1>9, <1>11, <1>12, LocalStep

-----------------------------------------------------------------------------
(* A client cuts a request into pieces.                                   *)

(* A piece starts where its first byte lies.                               *)
LEMMA PieceStart ==
    ASSUME NEW d \in Usable
    PROVE  Place(d) = PlaceOf(d, d.offset)
  <1>. DEFINE e == Reset(d, 1, d.offset)
  <1>1. d \in Distributions /\ d.offset \in Nat
    BY DEF Usable, Distributions
  <1>2. /\ e \in Distributions /\ e.type = d.type /\ e.index = d.index
        /\ e.block_size = d.block_size /\ e.offset = d.offset /\ e.weights = d.weights
    BY <1>1, ResetFields, Zenon
  <1>. HIDE DEF e
  <1>3. Before(e) = Before(d) /\ WeightSum(e) = WeightSum(d)
    BY <1>1, <1>2, SameWeights
  <1>4. Block(e) = Block(d) /\ Displacement(e) = Displacement(d)
    BY <1>2 DEF Block, Displacement
  <1>5. Place(e) = Place(d)
    BY <1>2, <1>3, <1>4 DEF Place, RoundRobin, SingleServer, Weighted
  <1>. QED BY <1>5 DEF PlaceOf, e

(* A distribution keeps its layout when it is moved on or reset.           *)
LEMMA AdvanceLayout ==
    ASSUME NEW d \in Usable, d.length > 0
    PROVE  Advance(d) \in Usable /\ \A p \in Nat : PlaceOf(Advance(d), p) = PlaceOf(d, p)
  <1>1. d \in Distributions
    BY DEF Usable
  <1>2. Advance(d) \in Distributions
    BY <1>1, PieceProgress
  <1>3. /\ Advance(d).type = d.type /\ Advance(d).index = d.index
        /\ Advance(d).block_size = d.block_size /\ Advance(d).weights = d.weights
    BY <1>1 DEF Advance, Distributions
  <1>. QED BY <1>2, <1>3, SameLayout

(* j_distribution_reset changes the request and not the layout.           *)
LEMMA ResetLayout ==
    ASSUME NEW d \in Usable, NEW l \in Nat, NEW o \in Nat
    PROVE  /\ Reset(d, l, o) \in Usable /\ Reset(d, l, o).length = l /\ Reset(d, l, o).offset = o
           /\ \A p \in Nat : PlaceOf(Reset(d, l, o), p) = PlaceOf(d, p)
  <1>1. d \in Distributions
    BY DEF Usable
  <1>2. /\ Reset(d, l, o) \in Distributions /\ Reset(d, l, o).length = l /\ Reset(d, l, o).offset = o
        /\ Reset(d, l, o).type = d.type /\ Reset(d, l, o).index = d.index
        /\ Reset(d, l, o).block_size = d.block_size /\ Reset(d, l, o).weights = d.weights
    BY <1>1, Zenon DEF Reset, Distributions
  <1>. QED BY <1>2, SameLayout

(* The bytes of the pieces after one more.                                 *)
LEMMA AppendBytes ==
    ASSUME NEW pieces \in Seq(Pieces), NEW new \in Pieces
    PROVE  /\ Append(pieces, new) \in Seq(Pieces)
           /\ AllBytes(Append(pieces, new)) = AllBytes(pieces) \cup BytesOf(new)
           /\ \A k \in DOMAIN Append(pieces, new) :
                 (k \in DOMAIN pieces /\ Append(pieces, new)[k] = pieces[k])
                 \/ (k = Len(pieces) + 1 /\ Append(pieces, new)[k] = new)
  <1>. DEFINE all == Append(pieces, new)
  <1>1. /\ all \in Seq(Pieces) /\ DOMAIN all = 1 .. Len(pieces) + 1
        /\ DOMAIN pieces = 1 .. Len(pieces) /\ Len(pieces) \in Nat
        /\ \A k \in DOMAIN pieces : k \in DOMAIN all /\ all[k] = pieces[k]
        /\ Len(pieces) + 1 \in DOMAIN all /\ all[Len(pieces) + 1] = new
    OBVIOUS
  <1>2. \A k \in DOMAIN all : k \in DOMAIN pieces \/ k = Len(pieces) + 1
    BY <1>1
  <1>. HIDE DEF all
  <1>3. AllBytes(all) = AllBytes(pieces) \cup BytesOf(new)
    BY <1>1, <1>2 DEF AllBytes
  <1>. QED BY <1>1, <1>2, <1>3 DEF all

(* The operation that is being distributed.                                *)
LEMMA Operation ==
    ASSUME IInv, NEW c \in Clients, client[c].pc = "distribute"
    PROVE  LET r == client[c].req
               op == r.ops[client[c].op]
               d == handle[c]
           IN /\ r # NULL /\ Distributing(c) /\ r.ops \in Seq([length : Nat, offset : Nat])
              /\ Covered(r.ops) \subseteq Bytes /\ r.type \in {"READ", "WRITE"}
              /\ client[c].op \in DOMAIN r.ops /\ client[c].op \in Nat
              /\ op.offset \in Nat /\ op.length \in Nat /\ OpBytes(op) \subseteq Covered(r.ops)
              /\ client[c].data \in Nat /\ d \in Usable /\ d.offset = client[c].data
              /\ d.length \in Nat /\ op.offset <= client[c].data
              /\ client[c].data + d.length = op.offset + op.length
              /\ \A p \in Bytes : p \in Nat /\ PlaceOf(d, p) = place[p]
  <1>. DEFINE r == client[c].req
              op == r.ops[client[c].op]
              d == handle[c]
  <1>1. client[c] \in ClientStates /\ d \in Usable /\ Distributing(c) /\ NumberedOf(c)
        /\ \A p \in Bytes : PlaceOf(d, p) = place[p]
    BY DEF IInv, TypeOK, Working, WorkingOf, Numbered, Layout
  <1>2. r # NULL /\ r \in Requests[c]
    BY <1>1 DEF NumberedOf
  <1>3. /\ r.type \in {"READ", "WRITE"} /\ client[c].op \in DOMAIN r.ops
        /\ d.offset = client[c].data /\ op.offset <= client[c].data
        /\ client[c].data + d.length = op.offset + op.length
    BY <1>1 DEF Distributing
  <1>4. r.ops \in Seq([length : Nat, offset : Nat]) /\ Covered(r.ops) \subseteq Bytes
    BY <1>2, <1>3, RequestType, Zenon
  <1>5. op \in [length : Nat, offset : Nat]
    <2>1. \A S, ops : ops \in Seq(S) => \A i \in DOMAIN ops : ops[i] \in S
      OBVIOUS
    <2>. HIDE DEF r
    <2>. QED BY <1>3, <1>4, <2>1, Zenon
  <1>6. OpBytes(op) \subseteq Covered(r.ops)
    BY <1>3 DEF OpBytes, Covered
  <1>7. client[c].data \in Nat /\ client[c].op \in Nat /\ d.length \in Nat
    BY <1>1 DEF ClientStates, Usable, Distributions
  <1>8. \A p \in Bytes : p \in Nat
    BY DistributedObjectAssumption DEF Bytes
  <1>. QED BY <1>1, <1>2, <1>3, <1>4, <1>5, <1>6, <1>7, <1>8, Zenon

(* The piece that is cut next, and where its bytes lie.                    *)
LEMMA NextPiece ==
    ASSUME IInv, NEW c \in Clients, client[c].pc = "distribute", handle[c].length > 0
    PROVE  LET d == handle[c]
               r == client[c].req
               new == [length |-> Piece(d).length, offset |-> Piece(d).offset, data |-> client[c].data]
           IN /\ new \in Pieces /\ Piece(d).index \in Servers
              /\ new.length \in 1 .. d.length /\ Piece(d).length = PieceLength(d)
              /\ BytesOf(new) = client[c].data .. client[c].data + new.length - 1
              /\ BytesOf(new) \subseteq OpBytes(r.ops[client[c].op])
              /\ \A j \in 0 .. new.length - 1 :
                    place[new.data + j] = [index |-> Piece(d).index, offset |-> new.offset + j]
  <1>. DEFINE d == handle[c]
              r == client[c].req
              op == r.ops[client[c].op]
              data == client[c].data
              L == PieceLength(d)
              new == [length |-> Piece(d).length, offset |-> Piece(d).offset, data |-> data]
  <1>1. /\ Covered(r.ops) \subseteq Bytes /\ op.offset \in Nat /\ op.length \in Nat
        /\ OpBytes(op) \subseteq Covered(r.ops) /\ data \in Nat /\ d \in Usable /\ d.offset = data
        /\ d.length \in Nat /\ op.offset <= data /\ data + d.length = op.offset + op.length
        /\ \A p \in Bytes : p \in Nat /\ PlaceOf(d, p) = place[p]
    BY Operation, Zenon
  <1>2. d \in Distributions /\ L \in 1 .. d.length
    BY <1>1, PieceProgress DEF Usable
  <1>3. Piece(d).length = L
    BY DEF Piece
  <1>. HIDE DEF op, d, data
  <1>4. BytesOf(new) = data .. data + L - 1
    BY <1>3 DEF BytesOf
  <1>5. BytesOf(new) \subseteq OpBytes(op)
    BY <1>1, <1>2, <1>4 DEF OpBytes
  <1>6. ASSUME NEW j \in 0 .. L - 1
        PROVE  /\ data + j \in Bytes
               /\ PlaceOf(d, data + j).index = Piece(d).index
               /\ PlaceOf(d, data + j).offset = Piece(d).offset + j
               /\ PlaceOf(d, data + j) \in [index : Servers, offset : Nat]
    <2>1. data + j \in data .. data + L - 1
      BY <1>1, <1>2
    <2>2. data + j \in Bytes
      BY <1>1, <1>4, <1>5, <2>1, Zenon
    <2>3. d.length > 0 /\ data + j = d.offset + j /\ d.length # 0
      BY <1>1 DEF d
    <2>4. /\ PlaceOf(d, data + j).index = Piece(d).index
          /\ PlaceOf(d, data + j).offset = Piece(d).offset + j
      BY <1>1, <2>3, PieceIsContiguous
    <2>. QED BY <1>1, <2>2, <2>4, PlaceBounds
  <1>7. 0 \in 0 .. L - 1
    BY <1>1, <1>2
  <1>8. Piece(d).index \in Servers /\ Piece(d).offset \in Nat
    <2>1. Place(d) \in [index : Servers, offset : Nat]
      BY <1>1, PieceStart, PlaceBounds
    <2>. QED BY <2>1 DEF Piece
  <1>9. new \in Pieces
    BY <1>1, <1>2, <1>3, <1>8 DEF Pieces
  <1>10. ASSUME NEW j \in 0 .. L - 1
         PROVE  place[new.data + j] = [index |-> Piece(d).index, offset |-> new.offset + j]
    BY <1>1, <1>6
  <1>. QED BY <1>2, <1>3, <1>4, <1>5, <1>8, <1>9, <1>10 DEF op, d, data

(* What is cut comes after what was cut of the operation before.           *)
LEMMA CutGrows ==
    ASSUME IInv, NEW c \in Clients, client[c].pc = "distribute", NEW l \in Nat,
           client'[c].req = client[c].req, client'[c].op = client[c].op,
           client'[c].data = client[c].data + l
    PROVE  CutSoFar(c)' = CutSoFar(c) \cup (client[c].data .. client[c].data + l - 1)
  <1>. DEFINE ops == client[c].req.ops
              op == client[c].op
              data == client[c].data
  <1>1. ops[op].offset \in Nat /\ data \in Nat /\ ops[op].offset <= data
    BY Operation
  <1>2. ops[op].offset .. data + l - 1 = (ops[op].offset .. data - 1) \cup (data .. data + l - 1)
    BY <1>1
  <1>3. CutSoFar(c)' = CutUpTo(ops, op, data + l)
    BY DEF CutSoFar
  <1>. HIDE DEF ops, op, data
  <1>4. CutUpTo(ops, op, data + l) = CutUpTo(ops, op, data) \cup (data .. data + l - 1)
    <2>. DEFINE next == data + l
    <2>1. next - 1 = data + l - 1
      BY <1>1
    <2>. HIDE DEF next
    <2>2. CutUpTo(ops, op, next) = CutUpTo(ops, op, data) \cup (data .. data + l - 1)
      BY <1>2, <2>1 DEF CutUpTo
    <2>. QED BY <2>2 DEF next
  <1>. QED BY <1>3, <1>4 DEF CutSoFar, ops, op, data

(* A client that works alone, with nothing of the request on its way yet.  *)
LEMMA DistributingStep ==
    ASSUME IInv, NEW c \in Clients, client[c].pc = "distribute",
           NEW d \in Usable, \A p \in Bytes : PlaceOf(d, p) = place[p],
           NEW x \in ClientStates, x.n = client[c].n, x.req = client[c].req,
           x.buffer = client[c].buffer, NEW parts \in [Servers -> PartStates],
           handle' = [handle EXCEPT ![c] = d], client' = [client EXCEPT ![c] = x],
           part' = [part EXCEPT ![c] = parts], \A s \in Servers : parts[s].reply = NULL,
           UNCHANGED <<net, file, history>>,
           x.pc = "parallel" => \A m \in net : m.id[1] = c => m.id[2] # x.n,
           WorkingOf(c)'
    PROVE  IInv'
  <1>1. /\ handle \in [Clients -> Usable] /\ client \in [Clients -> ClientStates]
        /\ part \in [Clients -> [Servers -> PartStates]] /\ net \subseteq Messages
        /\ NumberedOf(c) /\ SeeingOf(c)
    BY DEF IInv, TypeOK, Numbered, Seeing
  <1>2. UNCHANGED <<net, file, place, seen, todo, issued>>
    BY DEF history
  <1>3. client[c].req # NULL
    BY Operation
  <1>4. /\ handle'[c] = d /\ client'[c] = x /\ part'[c] = parts
        /\ handle' \in [Clients -> Usable] /\ client' \in [Clients -> ClientStates]
        /\ part' \in [Clients -> [Servers -> PartStates]]
        /\ \A e \in Clients \ {c} : handle'[e] = handle[e] /\ client'[e] = client[e] /\ part'[e] = part[e]
    BY <1>1
  <1>5. SeeingOf(c)'
    <2>1. Content(file)' = Content(file)
      BY <1>2 DEF Content
    <2>. QED BY <1>1, <1>2, <1>4, <2>1 DEF SeeingOf
  <1>6. ASSUME NEW m \in net, m.id[1] = c PROVE Travels(m)'
    <2>1. Travels(m)
      BY DEF IInv, Travelling
    <2>2. m.id[2] # client[c].n /\ ~Expects(m.req)
      BY <1>6, Unsent
    <2>. QED BY <1>2, <1>4, <1>6, <2>1, <2>2, StillTravels
  <1>7. /\ \A m \in net' : (m \in net /\ m.id[1] # c) \/ (m.id[1] = c /\ Travels(m)')
        /\ net' \subseteq Messages
        /\ \A m, o \in net' : m.id = o.id /\ m.server = o.server => m = o
    BY <1>1, <1>2, <1>6 DEF IInv, Travelling
  <1>8. \A p \in Bytes : PlaceOf(handle'[c], p) = place[p]
    BY <1>4
  <1>. QED BY <1>2, <1>3, <1>4, <1>5, <1>7, <1>8, LocalStep

(* The pieces of a server with the one that is cut next.                   *)
LEMMA PieceAdded ==
    ASSUME IInv, NEW c \in Clients, client[c].pc = "distribute", handle[c].length > 0,
           NEW new, new = [length |-> Piece(handle[c]).length, offset |-> Piece(handle[c]).offset,
                           data |-> client[c].data],
           NEW pieces, pieces = Append(part[c][Piece(handle[c]).index].pieces, new)
    PROVE  LET s == Piece(handle[c]).index
               r == client[c].req
           IN /\ pieces \in Seq(Pieces) /\ Cut(pieces, s, r)
              /\ AllBytes(pieces) = AllBytes(part[c][s].pieces) \cup BytesOf(new)
  <1>. DEFINE s == Piece(handle[c]).index
              r == client[c].req
              old == part[c][s].pieces
  <1>1. /\ new \in Pieces /\ s \in Servers
        /\ BytesOf(new) \subseteq OpBytes(r.ops[client[c].op])
        /\ \A j \in 0 .. new.length - 1 : place[new.data + j] = [index |-> s, offset |-> new.offset + j]
    BY NextPiece, Zenon
  <1>2. OpBytes(r.ops[client[c].op]) \subseteq Covered(r.ops) /\ r # NULL
    BY Operation, Zenon
  <1>3. Cut(old, s, r) /\ old \in Seq(Pieces)
    <2>1. part[c][s] \in PartStates /\ PartOf(c, s)
      BY <1>1, <1>2, AtWork, Zenon
    <2>. QED BY <2>1, Zenon DEF PartOf, PartStates
  <1>. HIDE DEF s, r, old
  <1>4. /\ pieces \in Seq(Pieces)
        /\ AllBytes(pieces) = AllBytes(old) \cup BytesOf(new)
        /\ \A k \in DOMAIN pieces : (k \in DOMAIN old /\ pieces[k] = old[k]) \/ pieces[k] = new
    <2>1. pieces = Append(old, new)
      BY DEF old, s
    <2>2. new \in Pieces /\ old \in Seq(Pieces)
      BY <1>1, <1>3
    <2>3. /\ Append(old, new) \in Seq(Pieces)
          /\ AllBytes(Append(old, new)) = AllBytes(old) \cup BytesOf(new)
          /\ \A k \in DOMAIN Append(old, new) :
                (k \in DOMAIN old /\ Append(old, new)[k] = old[k])
                \/ (k = Len(old) + 1 /\ Append(old, new)[k] = new)
      BY <2>2, AppendBytes, Zenon
    <2>4. \A k \in DOMAIN pieces : (k \in DOMAIN old /\ pieces[k] = old[k]) \/ pieces[k] = new
      BY <2>1, <2>3, Zenon
    <2>. QED BY <2>1, <2>3, <2>4, Zenon
  <1>5. Cut(pieces, s, r)
    <2>1. AllBytes(pieces) \subseteq Covered(r.ops)
      BY <1>1, <1>2, <1>3, <1>4, Zenon DEF Cut
    <2>2. ASSUME NEW k \in DOMAIN pieces, NEW j \in 0 .. pieces[k].length - 1
          PROVE  place[pieces[k].data + j] = [index |-> s, offset |-> pieces[k].offset + j]
      <3>1. CASE k \in DOMAIN old /\ pieces[k] = old[k]
        BY <1>3, <2>2, <3>1, Zenon DEF Cut
      <3>2. CASE pieces[k] = new
        BY <1>1, <2>2, <3>2, Zenon
      <3>. QED BY <1>4, <3>1, <3>2, Zenon
    <2>. QED BY <2>1, <2>2, Zenon DEF Cut
  <1>. QED BY <1>4, <1>5, Zenon DEF s, r, old

(* One piece is cut and added to the message of its server.               *)
LEMMA AddPieceInv ==
    ASSUME IInv, NEW c \in Clients, AddPiece(c) PROVE IInv'
  <1>. DEFINE d == handle[c]
              r == client[c].req
              L == Piece(d).length
              i == Piece(d).index
              new == [length |-> L, offset |-> Piece(d).offset, data |-> client[c].data]
              pieces == Append(part[c][i].pieces, new)
              changed == [part[c][i] EXCEPT !.pc = "send", !.pieces = pieces]
              parts == [part[c] EXCEPT ![i] = changed]
              count == IF CountsAtOnce(r) THEN client[c].bytes + L ELSE client[c].bytes
              x == [client[c] EXCEPT !.data = client[c].data + L, !.bytes = count]
  <1>1. client[c].pc = "distribute" /\ d.length > 0
    BY DEF AddPiece
  <1>2. /\ r # NULL /\ Distributing(c) /\ Covered(r.ops) \subseteq Bytes /\ r.type \in {"READ", "WRITE"}
        /\ client[c].op \in DOMAIN r.ops /\ client[c].data \in Nat
        /\ d \in Usable /\ d.offset = client[c].data /\ d.length \in Nat
        /\ r.ops[client[c].op].offset \in Nat /\ r.ops[client[c].op].length \in Nat
        /\ r.ops[client[c].op].offset <= client[c].data
        /\ client[c].data + d.length = r.ops[client[c].op].offset + r.ops[client[c].op].length
        /\ \A p \in Bytes : p \in Nat /\ PlaceOf(d, p) = place[p]
    BY <1>1, Operation
  <1>3. /\ client[c] \in ClientStates /\ IdOf(c) \in Ids /\ \A s \in Servers : PartOf(c, s) /\ part[c][s] \in PartStates
    BY <1>1, <1>2, AtWork
  <1>4. /\ new \in Pieces /\ i \in Servers /\ L \in 1 .. d.length /\ L = PieceLength(d)
        /\ BytesOf(new) = client[c].data .. client[c].data + L - 1
    BY <1>1, NextPiece
  <1>5. /\ pieces \in Seq(Pieces) /\ Cut(pieces, i, r)
        /\ AllBytes(pieces) = AllBytes(part[c][i].pieces) \cup BytesOf(new)
    BY <1>1, PieceAdded, Zenon
  <1>6. L \in Nat \ {0}
    BY <1>2, <1>4
  <1>7. /\ handle' = [handle EXCEPT ![c] = Advance(d)]
        /\ part' = [part EXCEPT ![c] = parts] /\ client' = [client EXCEPT ![c] = x]
        /\ UNCHANGED <<net, file, history>>
    <2>1. /\ part \in [Clients -> [Servers -> PartStates]] /\ client \in [Clients -> ClientStates]
      BY DEF IInv, TypeOK
    <2>2. part' = [part EXCEPT ![c][i].pc = "send", ![c][i].pieces = Append(@, new)]
      BY DEF AddPiece
    <2>3. part' = [part EXCEPT ![c] = parts]
      <3>. HIDE DEF new
      <3>1. part[c] \in [Servers -> PartStates] /\ part[c][i] \in PartStates
        BY <1>4, <2>1
      <3>2. part' = [part EXCEPT ![c][i].pc = "send", ![c][i].pieces = pieces]
        BY <2>2
      <3>. HIDE DEF pieces
      <3>. QED BY <3>1, <3>2, Zenon
    <2>4. client' = [client EXCEPT ![c].data = @ + L, ![c].bytes = IF CountsAtOnce(r) THEN @ + L ELSE @]
      BY DEF AddPiece
    <2>5. client' = [client EXCEPT ![c] = x]
      BY <2>1, <2>4, Zenon
    <2>. QED BY <2>3, <2>5, Zenon DEF AddPiece
  <1>8. Advance(d) \in Usable /\ \A p \in Bytes : PlaceOf(Advance(d), p) = place[p]
    BY <1>1, <1>2, AdvanceLayout
  <1>9. /\ Advance(d).offset = client[c].data + L
        /\ Advance(d).length = d.length - L
    <2>1. d \in Distributions
      BY <1>2 DEF Usable
    <2>. QED BY <1>2, <1>4, <2>1 DEF Advance, Distributions
  <1>. HIDE DEF L, d, i, r
  <1>10. /\ x \in ClientStates /\ x.n = client[c].n /\ x.req = r /\ x.pc = "distribute"
         /\ x.buffer = client[c].buffer /\ x.op = client[c].op /\ x.data = client[c].data + L
    <2>1. count \in Nat /\ client[c].data + L \in Nat
      BY <1>3, <1>6 DEF ClientStates
    <2>. HIDE DEF count
    <2>. QED BY <1>1, <1>3, <2>1, Zenon DEF ClientStates, r
  <1>. HIDE DEF pieces, new
  <1>11. /\ changed \in PartStates /\ changed.pc = "send" /\ changed.pieces = pieces
         /\ changed.reply = part[c][i].reply
    BY <1>3, <1>4, <1>5, Zenon DEF PartStates
  <1>. HIDE DEF changed
  <1>12. /\ parts \in [Servers -> PartStates] /\ parts[i] = changed
         /\ \A s \in Servers \ {i} : parts[s] = part[c][s]
    <2>1. part[c] \in [Servers -> PartStates]
      BY DEF IInv, TypeOK
    <2>. QED BY <1>4, <1>11, <2>1
  <1>. HIDE DEF parts, x
  <1>13. \A s \in Servers : part[c][s].pc \in {"none", "send"} /\ part[c][s].reply = NULL
    BY <1>2, <1>3 DEF Distributing, PartOf
  <1>14. \A s \in Servers : parts[s].pc \in {"none", "send"} /\ parts[s].reply = NULL
    BY <1>4, <1>11, <1>12, <1>13
  <1>15. /\ client'[c] = x /\ part'[c] = parts /\ handle'[c] = Advance(d) /\ IdOf(c)' = IdOf(c)
         /\ place' = place /\ todo' = todo
    <2>1. client'[c] = x /\ part'[c] = parts /\ handle'[c] = Advance(d) /\ place' = place /\ todo' = todo
      BY <1>7 DEF IInv, TypeOK, history
    <2>. QED BY <1>10, <2>1 DEF IdOf
  <1>16. CutSoFar(c)' = CutSoFar(c) \cup BytesOf(new)
    <2>1. client'[c].req = client[c].req /\ client'[c].op = client[c].op /\ client'[c].data = client[c].data + L
      BY <1>10, <1>15 DEF r
    <2>. QED BY <1>1, <1>4, <1>6, <2>1, CutGrows
  <1>17. \A s \in Servers : AllBytes(parts[s].pieces) \subseteq CutSoFar(c) \cup BytesOf(new)
    <2>1. \A s \in Servers : AllBytes(part[c][s].pieces) \subseteq CutSoFar(c)
      BY <1>2 DEF Distributing
    <2>. QED BY <1>4, <1>5, <1>11, <1>12, <2>1
  <1>18. Distributing(c)'
    <2>1. todo[IdOf(c)].bytes = Reach(r)
      BY <1>2 DEF Distributing, r
    <2>2. r.ops[x.op].offset <= x.data /\ x.data + Advance(d).length = r.ops[x.op].offset + r.ops[x.op].length
      <3>1. client[c].op = x.op /\ client[c].data + L = x.data /\ Advance(d).length = d.length - L
        BY <1>9, <1>10
      <3>. HIDE DEF x
      <3>2. /\ r.ops[x.op].offset \in Nat /\ r.ops[x.op].length \in Nat /\ r.ops[x.op].offset <= client[c].data
            /\ client[c].data + d.length = r.ops[x.op].offset + r.ops[x.op].length
            /\ client[c].data \in Nat /\ d.length \in Nat /\ L \in Nat
        BY <1>2, <1>6, <3>1 DEF r, d
      <3>3. PICK a \in Nat, e \in Nat, b \in Nat, l \in Nat, k \in Nat :
               /\ a = r.ops[x.op].offset /\ e = r.ops[x.op].length
               /\ b = client[c].data /\ l = d.length /\ k = L
        BY <3>2
      <3>4. x.data = b + k /\ Advance(d).length = l - k
        BY <3>1, <3>3
      <3>5. a <= b /\ b + l = a + e
        BY <3>2, <3>3
      <3>. QED BY <3>3, <3>4, <3>5
    <2>3. r.type \in {"READ", "WRITE"} /\ x.op \in DOMAIN r.ops /\ Advance(d).offset = x.data
      BY <1>2, <1>9, <1>10
    <2>. QED BY <1>10, <1>14, <1>15, <1>16, <1>17, <2>1, <2>2, <2>3 DEF Distributing
  <1>19. ASSUME NEW s \in Servers PROVE PartOf(c, s)'
    <2>1. Cut(parts[s].pieces, s, r)
      <3>1. CASE s = i
        BY <1>5, <1>11, <1>12, <3>1
      <3>2. CASE s # i
        BY <1>3, <1>12, <3>2 DEF PartOf, r
      <3>. QED BY <3>1, <3>2
    <2>2. parts[s].pc = "none" => parts[s].pieces = <<>>
      <3>1. CASE s = i
        BY <1>11, <1>12, <3>1
      <3>2. CASE s # i
        BY <1>3, <1>12, <3>2 DEF PartOf
      <3>. QED BY <3>1, <3>2
    <2>3. Left(IdOf(c), s, r, parts[s].pieces)
      <3>1. todo[IdOf(c)].bytes = Reach(r)
        BY <1>2 DEF Distributing, r
      <3>2. r.type = "WRITE" => Reach(r) = Covered(r.ops)
        BY DEF Reach
      <3>. QED BY <1>2, <2>1, <3>1, <3>2 DEF Left, Cut
    <2>4. /\ client'[c].req = r /\ part'[c][s] = parts[s] /\ IdOf(c)' = IdOf(c)
          /\ place' = place /\ todo' = todo /\ parts[s].reply = NULL
      BY <1>10, <1>14, <1>15
    <2>. QED BY <2>1, <2>2, <2>3, <2>4 DEF PartOf, Cut, Left, Stored
  <1>20. WorkingOf(c)'
    BY <1>10, <1>15, <1>18, <1>19 DEF WorkingOf
  <1>. QED BY <1>1, <1>7, <1>8, <1>10, <1>12, <1>14, <1>20, DistributingStep, Zenon DEF r

(* The next operation of the request is begun, or the background          *)
(* operations are.                                                        *)
LEMMA NextOperationInv ==
    ASSUME IInv, NEW c \in Clients, NextOperation(c) PROVE IInv'
  <1>. DEFINE d == handle[c]
              r == client[c].req
              ops == r.ops
              op == client[c].op
              next == op + 1
  <1>1. client[c].pc = "distribute" /\ d.length = 0
    BY DEF NextOperation
  <1>2. /\ r # NULL /\ Distributing(c) /\ ops \in Seq([length : Nat, offset : Nat])
        /\ r.type \in {"READ", "WRITE"} /\ op \in DOMAIN ops /\ op \in Nat
        /\ ops[op].offset \in Nat /\ ops[op].length \in Nat
        /\ client[c].data \in Nat /\ d \in Usable
        /\ client[c].data + d.length = ops[op].offset + ops[op].length
        /\ \A p \in Bytes : p \in Nat /\ PlaceOf(d, p) = place[p]
    BY <1>1, Operation, Zenon
  <1>3. /\ client[c] \in ClientStates /\ IdOf(c) \in Ids /\ \A s \in Servers : PartOf(c, s)
    BY <1>1, <1>2, AtWork, Zenon
  <1>4. /\ handle \in [Clients -> Usable] /\ client \in [Clients -> ClientStates]
        /\ part \in [Clients -> [Servers -> PartStates]]
    BY DEF IInv, TypeOK
  <1>5. part' = [part EXCEPT ![c] = part[c]] /\ part[c] \in [Servers -> PartStates]
        /\ UNCHANGED <<part, net, file, history>>
    BY <1>4 DEF NextOperation
  <1>6. \A s \in Servers : part[c][s].pc \in {"none", "send"} /\ part[c][s].reply = NULL
    BY <1>2, <1>3, Zenon DEF Distributing, PartOf
  <1>7. CASE next <= Len(ops)
    <2>. DEFINE x == [client[c] EXCEPT !.op = next, !.data = ops[next].offset]
                e == Reset(d, ops[next].length, ops[next].offset)
    <2>1. client' = [client EXCEPT ![c] = x] /\ handle' = [handle EXCEPT ![c] = e]
      <3>1. /\ client' = [client EXCEPT ![c].op = next, ![c].data = ops[next].offset]
            /\ handle' = [handle EXCEPT ![c] = Reset(@, ops[next].length, ops[next].offset)]
        BY <1>7 DEF NextOperation
      <3>. HIDE DEF next, ops
      <3>. QED BY <1>4, <3>1, Zenon
    <2>2. next \in DOMAIN ops /\ next \in Nat /\ next - 1 = op
      <3>1. DOMAIN ops = 1 .. Len(ops) /\ Len(ops) \in Nat
        BY <1>2
      <3>. HIDE DEF ops, op
      <3>. QED BY <1>2, <1>7, <3>1, SMTT(40)
    <2>3. ops[next] \in [length : Nat, offset : Nat]
      <3>1. \A S, o : o \in Seq(S) => \A i \in DOMAIN o : o[i] \in S
        OBVIOUS
      <3>2. ops \in Seq([length : Nat, offset : Nat])
        BY <1>2
      <3>. HIDE DEF ops, next
      <3>3. next \in DOMAIN ops
        BY <2>2
      <3>. QED BY <3>1, <3>2, <3>3, Zenon
    <2>4. /\ e \in Usable /\ e.length = ops[next].length /\ e.offset = ops[next].offset
          /\ \A p \in Bytes : PlaceOf(e, p) = place[p]
      <3>1. ops[next].length \in Nat /\ ops[next].offset \in Nat
        BY <2>3
      <3>2. d \in Usable /\ \A p \in Bytes : p \in Nat /\ PlaceOf(d, p) = place[p]
        BY <1>2
      <3>3. PICK l \in Nat, o \in Nat : l = ops[next].length /\ o = ops[next].offset
        BY <3>1, Zenon
      <3>4. /\ Reset(d, l, o) \in Usable /\ Reset(d, l, o).length = l /\ Reset(d, l, o).offset = o
            /\ \A p \in Nat : PlaceOf(Reset(d, l, o), p) = PlaceOf(d, p)
        <4>1. d \in Usable /\ l \in Nat /\ o \in Nat
          BY <3>2
        <4>. HIDE DEF d
        <4>. QED BY <4>1, ResetLayout, Zenon
      <3>5. e = Reset(d, l, o)
        BY <3>3
      <3>. HIDE DEF ops, next, d, e
      <3>. QED BY <3>2, <3>3, <3>4, <3>5
    <2>5. /\ x \in ClientStates /\ x.n = client[c].n /\ x.req = client[c].req /\ x.pc = "distribute"
          /\ x.buffer = client[c].buffer /\ x.op = next /\ x.data = ops[next].offset
      <3>1. next \in Nat /\ ops[next].offset \in Nat
        BY <2>2, <2>3
      <3>. HIDE DEF next, ops
      <3>. QED BY <1>1, <1>3, <3>1, Zenon DEF ClientStates
    <2>6. CutUpTo(ops, op, client[c].data) \subseteq CutUpTo(ops, next, ops[next].offset)
      <3>1. ops[op].offset .. client[c].data - 1 = OpBytes(ops[op])
        <4>1. client[c].data = ops[op].offset + ops[op].length
          BY <1>1, <1>2
        <4>2. ops[op].offset \in Nat /\ ops[op].length \in Nat
          BY <1>2
        <4>. HIDE DEF ops, op
        <4>3. client[c].data - 1 = ops[op].offset + ops[op].length - 1
          BY <4>1, <4>2
        <4>. QED BY <4>3 DEF OpBytes
      <3>2. op \in 1 .. next - 1 /\ \A i \in 1 .. op - 1 : i \in 1 .. next - 1
        BY <1>2, SMTT(40)
      <3>. HIDE DEF ops, op, next
      <3>. QED BY <3>1, <3>2, Zenon DEF CutUpTo
    <2>. HIDE DEF x, e
    <2>7. /\ client'[c] = x /\ handle'[c] = e /\ IdOf(c)' = IdOf(c)
          /\ place' = place /\ todo' = todo /\ part' = part
      <3>1. client'[c] = x /\ handle'[c] = e /\ place' = place /\ todo' = todo /\ part' = part
        BY <1>4, <1>5, <2>1 DEF history
      <3>. QED BY <2>5, <3>1 DEF IdOf
    <2>8. Distributing(c)'
      <3>1. \A s \in Servers : AllBytes(part[c][s].pieces) \subseteq CutUpTo(ops, op, client[c].data)
        BY <1>2 DEF Distributing, CutSoFar
      <3>2. CutSoFar(c)' = CutUpTo(ops, next, ops[next].offset)
        BY <2>5, <2>7 DEF CutSoFar
      <3>3. \A s \in Servers : AllBytes(part[c][s].pieces) \subseteq CutSoFar(c)'
        BY <2>6, <3>1, <3>2
      <3>4. todo[IdOf(c)].bytes = Reach(r)
        BY <1>2 DEF Distributing
      <3>5. x.op \in DOMAIN ops /\ e.offset = x.data /\ ops[x.op].offset <= x.data
            /\ x.data + e.length = ops[x.op].offset + ops[x.op].length /\ x.req = r
        BY <2>2, <2>3, <2>4, <2>5
      <3>. HIDE DEF next, op
      <3>. QED BY <1>2, <1>6, <2>7, <3>3, <3>4, <3>5 DEF Distributing
    <2>9. ASSUME NEW s \in Servers PROVE PartOf(c, s)'
      <3>1. PartOf(c, s) /\ client'[c].req = client[c].req
        BY <1>3, <2>5, <2>7
      <3>. QED BY <2>7, <3>1, Zenon DEF PartOf, Cut, Left, Stored
    <2>10. WorkingOf(c)'
      BY <2>5, <2>7, <2>8, <2>9 DEF WorkingOf
    <2>. QED BY <1>1, <1>5, <1>6, <2>1, <2>4, <2>5, <2>10, DistributingStep, Zenon
  <1>8. CASE ~(next <= Len(ops))
    <2>. DEFINE x == [client[c] EXCEPT !.pc = "parallel"]
    <2>1. client' = [client EXCEPT ![c] = x] /\ handle' = [handle EXCEPT ![c] = d]
      BY <1>4, <1>8 DEF NextOperation
    <2>2. /\ x \in ClientStates /\ x.n = client[c].n /\ x.req = client[c].req /\ x.pc = "parallel"
          /\ x.buffer = client[c].buffer
      BY <1>3 DEF ClientStates
    <2>. HIDE DEF x
    <2>3. /\ client'[c] = x /\ IdOf(c)' = IdOf(c)
          /\ place' = place /\ todo' = todo /\ part' = part
      <3>1. client'[c] = x /\ place' = place /\ todo' = todo /\ part' = part
        BY <1>4, <1>5, <2>1 DEF history
      <3>. QED BY <2>2, <3>1 DEF IdOf
    <2>4. ASSUME NEW s \in Servers PROVE PartOf(c, s)'
      <3>1. PartOf(c, s) /\ client'[c].req = client[c].req
        BY <1>3, <2>2, <2>3
      <3>. QED BY <2>3, <3>1 DEF PartOf, Cut, Left, Stored
    <2>5. WorkingOf(c)'
      BY <2>2, <2>3, <2>4 DEF WorkingOf
    <2>6. \A m \in net : m.id[1] = c => m.id[2] # x.n
      BY <1>1, <2>2, Unsent
    <2>7. d \in Usable /\ \A p \in Bytes : PlaceOf(d, p) = place[p]
      BY <1>2
    <2>. QED BY <1>1, <1>5, <1>6, <2>1, <2>2, <2>5, <2>6, <2>7, DistributingStep, Zenon
  <1>. QED BY <1>7, <1>8

-----------------------------------------------------------------------------
(* The object as an array.                                                *)

(* The object is an array of written values.                              *)
LEMMA ContentType == IInv => Content(file) \in [Bytes -> Values]
  <1>. SUFFICES ASSUME IInv, NEW p \in Bytes
                PROVE  file[place[p].index].bytes[place[p].offset] \in Values
    BY DEF Content
  <1>1. place[p] \in [index : Servers, offset : Nat] /\ place[p].offset <= p
    BY DEF IInv, TypeOK, Layout
  <1>2. place[p].offset \in Bytes
    BY <1>1, DistributedObjectAssumption DEF Bytes
  <1>3. file[place[p].index] \in Files
    BY <1>1 DEF IInv, TypeOK
  <1>. QED BY <1>2, <1>3 DEF Files

(* A client begins with request r.                                         *)
LEMMA BeginInv ==
    ASSUME IInv, NEW c \in Clients, NEW r \in Requests[c], Begin(c, r),
           NEW d \in Usable, \A p \in Bytes : PlaceOf(d, p) = place[p],
           NEW x \in ClientStates, x.n = client[c].n + 1, x.req = r, x.pc # "idle",
           \A p \in Bytes : x.buffer[p] = NULL,
           NEW parts \in [Servers -> PartStates], \A s \in Servers : parts[s].reply = NULL,
           handle' = [handle EXCEPT ![c] = d], client' = [client EXCEPT ![c] = x],
           part' = [part EXCEPT ![c] = parts],
           WorkingOf(c)'
    PROVE  IInv'
  <1>. DEFINE n1 == client[c].n + 1
              id == <<c, n1>>
              new == [kind |-> Kind(r), bytes |-> Reach(r)]
              now == Content(file)
              view == IF r.type = "READ" THEN [p \in Bytes |-> {now[p]}] ELSE NULL
  <1>1. /\ client[c].pc = "idle" /\ client[c].n < MaxRequests[c] /\ UNCHANGED <<net, file, place>>
        /\ issued' = [issued EXCEPT ![id] = r] /\ seen' = [seen EXCEPT ![c] = view]
        /\ todo' = [todo EXCEPT ![id] = new]
    BY DEF Begin
  <1>2. /\ handle \in [Clients -> Usable] /\ client \in [Clients -> ClientStates]
        /\ part \in [Clients -> [Servers -> PartStates]] /\ net \subseteq Messages
        /\ seen \in [Clients -> {NULL} \cup [Bytes -> SUBSET Values]]
        /\ todo \in [Ids -> {NULL} \cup Todos] /\ issued \in [Ids -> {NULL} \cup AllRequests]
    BY DEF IInv, TypeOK
  <1>3. client[c].n \in Nat /\ MaxRequests[c] \in Nat /\ n1 \in Nat /\ n1 \in 1 .. MaxRequests[c]
    BY <1>1, <1>2, DistributedObjectAssumption DEF ClientStates
  <1>4. id \in Ids
    BY <1>3, IdType
  <1>5. r \in AllRequests /\ r # NULL /\ Reach(r) \subseteq Bytes /\ r.type \in Types
    BY RequestType
  <1>6. new \in Todos /\ new.kind = Kind(r) /\ new.bytes = Reach(r)
    BY <1>5 DEF Todos, Kind
  <1>7. now \in [Bytes -> Values] /\ now' = now
    BY <1>1, ContentType DEF Content
  <1>8. view \in {NULL} \cup [Bytes -> SUBSET Values]
        /\ (r.type = "READ" <=> view # NULL)
        /\ (view # NULL => \A p \in Bytes : now[p] \in view[p])
    <2>. HIDE DEF now
    <2>1. [p \in Bytes |-> {now[p]}] \in [Bytes -> SUBSET Values]
      BY <1>7
    <2>2. NULL \notin [Bytes -> SUBSET Values]
      BY DistributedObjectAssumption
    <2>. QED BY <2>1, <2>2
  <1>. HIDE DEF view, new, now
  <1>9. /\ handle'[c] = d /\ client'[c] = x /\ part'[c] = parts /\ seen'[c] = view
        /\ issued'[id] = r /\ todo'[id] = new
        /\ handle' \in [Clients -> Usable] /\ client' \in [Clients -> ClientStates]
        /\ part' \in [Clients -> [Servers -> PartStates]]
        /\ seen' \in [Clients -> {NULL} \cup [Bytes -> SUBSET Values]]
        /\ todo' \in [Ids -> {NULL} \cup Todos] /\ issued' \in [Ids -> {NULL} \cup AllRequests]
    BY <1>1, <1>2, <1>4, <1>5, <1>6, <1>8
  <1>10. /\ \A e \in Clients \ {c} : /\ handle'[e] = handle[e] /\ client'[e] = client[e]
                                     /\ part'[e] = part[e] /\ seen'[e] = seen[e]
         /\ \A i \in Ids \ {id} : issued'[i] = issued[i] /\ todo'[i] = todo[i]
    BY <1>1, <1>2
  <1>11. TypeOK'
    BY <1>1, <1>9 DEF IInv, TypeOK
  <1>12. Layout'
    BY <1>1, <1>9, <1>10 DEF IInv, Layout
  <1>13. ASSUME NEW e \in Clients \ {c} PROVE NumberedOf(e)' /\ WorkingOf(e)' /\ SeeingOf(e)'
    <2>1. /\ client[e].n \in Nat /\ MaxRequests[e] \in Nat
          /\ NumberedOf(e) /\ WorkingOf(e) /\ SeeingOf(e)
      BY DistributedObjectAssumption, Zenon DEF IInv, TypeOK, ClientStates, Numbered, Working, Seeing
    <2>2. ASSUME NEW n \in 1 .. MaxRequests[e]
          PROVE  issued'[<<e, n>>] = issued[<<e, n>>] /\ todo'[<<e, n>>] = todo[<<e, n>>]
      <3>1. <<e, n>> \in Ids /\ <<e, n>> # id
        BY IdType
      <3>. QED BY <1>10, <3>1
    <2>. QED BY <1>1, <1>10, <2>1, <2>2, Bystander
  <1>14. NumberedOf(c)'
    <2>1. NumberedOf(c)
      BY DEF IInv, Numbered
    <2>2. IdOf(c)' = id
      BY <1>9 DEF IdOf
    <2>3. ASSUME NEW n \in 1 .. MaxRequests[c]
          PROVE  IF n > n1 THEN issued'[<<c, n>>] = NULL /\ todo'[<<c, n>>] = NULL
                 ELSE /\ issued'[<<c, n>>] \in Requests[c] /\ todo'[<<c, n>>] \in Todos
                      /\ todo'[<<c, n>>].kind = Kind(issued'[<<c, n>>])
                      /\ todo'[<<c, n>>].bytes \subseteq Reach(issued'[<<c, n>>])
      <3>1. CASE n = n1
        BY <1>3, <1>6, <1>9, <3>1, SMTT(40)
      <3>2. CASE n # n1
        <4>1. <<c, n>> \in Ids \ {id} /\ (n > n1 <=> n > client[c].n)
          BY <1>3, <3>2, IdType
        <4>2. issued'[<<c, n>>] = issued[<<c, n>>] /\ todo'[<<c, n>>] = todo[<<c, n>>]
          BY <1>10, <4>1
        <4>. HIDE DEF n1
        <4>. QED BY <2>1, <4>1, <4>2 DEF NumberedOf
      <3>. QED BY <3>1, <3>2
    <2>4. client'[c].n = n1 /\ client'[c].req = r
      BY <1>9
    <2>. HIDE DEF n1
    <2>. QED BY <1>3, <1>5, <1>9, <2>2, <2>3, <2>4 DEF NumberedOf, Kind, Reach
  <1>15. SeeingOf(c)'
    <2>1. \A s \in Servers : part'[c][s].reply = NULL
      BY <1>9
    <2>2. client'[c].req = r /\ \A p \in Bytes : client'[c].buffer[p] = NULL
      BY <1>9
    <2>3. seen'[c] # NULL => \A p \in Bytes : Content(file)'[p] \in seen'[c][p]
      BY <1>7, <1>8, <1>9 DEF now
    <2>. QED BY <1>8, <1>9, <2>1, <2>2, <2>3 DEF SeeingOf
  <1>16. ASSUME NEW m \in net PROVE Travels(m)'
    <2>1. m \in Messages /\ Travels(m) /\ m.id \in Ids
      BY <1>2 DEF IInv, Travelling, Messages
    <2>2. m.id[1] \in Clients /\ m.id[2] \in Nat /\ m.id = <<m.id[1], m.id[2]>>
      BY <2>1, IdParts
    <2>3. CASE m.id[1] # c
      <3>1. m.id # id
        BY <2>3
      <3>2. issued'[m.id] = issued[m.id] /\ todo'[m.id] = todo[m.id]
        BY <1>10, <2>1, <3>1
      <3>. QED BY <1>1, <1>10, <2>1, <2>2, <2>3, <3>2, BystandingMessage
    <2>4. CASE m.id[1] = c
      <3>1. m.id[2] <= client[c].n /\ ~Expects(m.req) /\ m.req = issued[m.id]
            /\ Cut(m.pieces, m.server, m.req) /\ Left(m.id, m.server, m.req, m.pieces)
        BY <1>1, <2>1, <2>4 DEF Travels
      <3>2. m.id[2] <= n1 /\ m.id[2] # n1
        BY <1>3, <2>2, <3>1
      <3>3. issued'[m.id] = issued[m.id] /\ todo'[m.id] = todo[m.id]
        BY <1>10, <2>1, <3>2
      <3>4. Cut(m.pieces, m.server, m.req)' /\ Left(m.id, m.server, m.req, m.pieces)'
        BY <1>1, <3>1, <3>3 DEF Cut, Left, Stored
      <3>5. client'[c].n = n1
        BY <1>9
      <3>. HIDE DEF n1
      <3>. QED BY <2>4, <3>1, <3>2, <3>3, <3>4, <3>5 DEF Travels
    <2>. QED BY <2>3, <2>4
  <1>17. Travelling'
    BY <1>1, <1>16 DEF IInv, Travelling
  <1>18. Emptied'
    BY <1>1 DEF IInv, Emptied
  <1>19. Numbered' /\ Working' /\ Seeing'
    BY <1>13, <1>14, <1>15 DEF Numbered, Working, Seeing
  <1>. QED BY <1>11, <1>12, <1>17, <1>18, <1>19 DEF IInv

-----------------------------------------------------------------------------
(* A client executes a request.                                           *)

(* What Begin records of a request.                                        *)
LEMMA Begun ==
    ASSUME IInv, NEW c \in Clients, NEW r \in Requests[c], Begin(c, r)
    PROVE  LET n1 == client[c].n + 1
           IN /\ n1 \in Nat /\ todo'[<<c, n1>>].bytes = Reach(r) /\ UNCHANGED <<net, file, place>>
              /\ handle[c] \in Usable /\ \A p \in Bytes : p \in Nat /\ PlaceOf(handle[c], p) = place[p]
  <1>. DEFINE n1 == client[c].n + 1
              id == <<c, n1>>
              new == [kind |-> Kind(r), bytes |-> Reach(r)]
  <1>1. /\ client[c].n < MaxRequests[c] /\ UNCHANGED <<net, file, place>>
        /\ todo' = [todo EXCEPT ![id] = new]
    BY DEF Begin
  <1>2. client[c] \in ClientStates /\ todo \in [Ids -> {NULL} \cup Todos] /\ handle[c] \in Usable
    BY DEF IInv, TypeOK
  <1>3. client[c].n \in Nat /\ MaxRequests[c] \in Nat /\ n1 \in Nat /\ n1 \in 1 .. MaxRequests[c]
    BY <1>1, <1>2, DistributedObjectAssumption DEF ClientStates
  <1>4. id \in Ids
    BY <1>3, IdType
  <1>5. todo'[id] = new
    BY <1>1, <1>2, <1>4
  <1>6. \A p \in Bytes : p \in Nat /\ PlaceOf(handle[c], p) = place[p]
    BY DistributedObjectAssumption DEF IInv, Layout, Bytes
  <1>. QED BY <1>1, <1>2, <1>3, <1>5, <1>6

(* A message without pieces covers nothing.                               *)
LEMMA NoPieces == AllBytes(<<>>) = {} /\ DOMAIN <<>> = {}
  <1>1. DOMAIN <<>> = {}
    OBVIOUS
  <1>. QED BY <1>1 DEF AllBytes

(* A request without ranges goes to every server, or nowhere.             *)
LEMMA ExecEverywhereInv ==
    ASSUME IInv, NEW c \in Clients, NEW r \in Requests[c], r.type \notin {"READ", "WRITE"},
           ExecEverywhere(c, r)
    PROVE  IInv'
  <1>. DEFINE n1 == client[c].n + 1
              x == [Resting EXCEPT !.pc = "parallel", !.n = n1, !.req = r]
              start == [NoPart EXCEPT !.pc = "send"]
              parts == [s \in Servers |-> start]
  <1>1. /\ Begin(c, r) /\ client' = [client EXCEPT ![c] = x]
        /\ part' = [part EXCEPT ![c] = parts] /\ handle' = handle
    BY DEF ExecEverywhere
  <1>2. /\ n1 \in Nat /\ todo'[<<c, n1>>].bytes = Reach(r) /\ place' = place
        /\ handle[c] \in Usable /\ \A p \in Bytes : PlaceOf(handle[c], p) = place[p]
    BY <1>1, Begun
  <1>3. r \in AllRequests /\ r.type \in Types
    BY RequestType
  <1>. HIDE DEF n1
  <1>4. /\ x \in ClientStates /\ x.n = n1 /\ x.req = r /\ x.pc = "parallel"
        /\ \A p \in Bytes : x.buffer[p] = NULL
    BY <1>2, <1>3, RestingType, Zenon DEF ClientStates
  <1>5. start \in PartStates /\ start.pc = "send" /\ start.pieces = <<>> /\ start.reply = NULL
    BY RestingType DEF PartStates
  <1>6. parts \in [Servers -> PartStates] /\ \A s \in Servers : parts[s] = start
    BY <1>5
  <1>. HIDE DEF x, start, parts
  <1>7. client'[c] = x /\ part'[c] = parts /\ handle' = [handle EXCEPT ![c] = handle[c]]
    BY <1>1 DEF IInv, TypeOK
  <1>8. ASSUME NEW s \in Servers PROVE PartOf(c, s)'
    <2>1. part'[c][s] = start /\ client'[c].req = r /\ IdOf(c)' = <<c, n1>>
      BY <1>4, <1>6, <1>7 DEF IdOf
    <2>2. r.type = "DELETE" => Reach(r) = Bytes
      BY DEF Reach
    <2>3. Stored(s)' \subseteq Bytes
      BY DEF Stored
    <2>4. Left(IdOf(c), s, client[c].req, part[c][s].pieces)'
      BY <1>2, <2>1, <2>2, <2>3 DEF Left
    <2>5. Cut(part[c][s].pieces, s, client[c].req)'
      BY <1>5, <2>1, NoPieces DEF Cut
    <2>. QED BY <1>5, <2>1, <2>4, <2>5 DEF PartOf
  <1>9. WorkingOf(c)'
    BY <1>4, <1>7, <1>8 DEF WorkingOf
  <1>. QED BY <1>1, <1>2, <1>4, <1>5, <1>6, <1>7, <1>9, BeginInv, Zenon DEF n1

(* A read or write begins to cut its first operation.                     *)
LEMMA ExecRangeInv ==
    ASSUME IInv, NEW c \in Clients, NEW r \in Requests[c], r.type \in {"READ", "WRITE"},
           ExecRange(c, r)
    PROVE  IInv'
  <1>. DEFINE n1 == client[c].n + 1
              first == r.ops[1]
              x == [Resting EXCEPT !.pc = "distribute", !.n = n1, !.req = r,
                                   !.op = 1, !.data = first.offset]
              parts == [s \in Servers |-> NoPart]
              d == Reset(handle[c], first.length, first.offset)
  <1>1. /\ Begin(c, r) /\ client' = [client EXCEPT ![c] = x]
        /\ part' = [part EXCEPT ![c] = parts] /\ handle' = [handle EXCEPT ![c] = d]
    <2>1. handle' = [handle EXCEPT ![c] = Reset(@, first.length, first.offset)]
      BY DEF ExecRange
    <2>2. handle' = [handle EXCEPT ![c] = d]
      BY <2>1 DEF IInv, TypeOK
    <2>. QED BY <2>2 DEF ExecRange
  <1>2. /\ n1 \in Nat /\ todo'[<<c, n1>>].bytes = Reach(r) /\ place' = place
        /\ handle[c] \in Usable /\ \A p \in Bytes : p \in Nat /\ PlaceOf(handle[c], p) = place[p]
    BY <1>1, Begun
  <1>3. /\ r \in AllRequests /\ r.ops \in Seq([length : Nat, offset : Nat]) /\ r.ops # <<>>
    BY RequestType
  <1>4. 1 \in DOMAIN r.ops /\ first.length \in Nat /\ first.offset \in Nat
    <2>1. 1 \in DOMAIN r.ops
      BY <1>3
    <2>2. \A S, o : o \in Seq(S) => \A i \in DOMAIN o : o[i] \in S
      OBVIOUS
    <2>3. r.ops[1] \in [length : Nat, offset : Nat]
      BY <1>3, <2>1, <2>2, Zenon
    <2>. QED BY <2>1, <2>3
  <1>. HIDE DEF n1, first
  <1>5. d \in Usable /\ d.length = first.length /\ d.offset = first.offset
        /\ \A p \in Bytes : PlaceOf(d, p) = place[p]
    <2>1. PICK l \in Nat, o \in Nat : l = first.length /\ o = first.offset
      BY <1>4
    <2>2. PICK h \in Usable : h = handle[c]
      BY <1>2
    <2>3. /\ Reset(h, l, o) \in Usable /\ Reset(h, l, o).length = l /\ Reset(h, l, o).offset = o
          /\ \A p \in Nat : PlaceOf(Reset(h, l, o), p) = PlaceOf(h, p)
      BY ResetLayout, Zenon
    <2>4. d = Reset(h, l, o)
      BY <2>1, <2>2
    <2>. HIDE DEF d
    <2>. QED BY <1>2, <2>1, <2>2, <2>3, <2>4
  <1>6. /\ x \in ClientStates /\ x.n = n1 /\ x.req = r /\ x.pc = "distribute"
        /\ x.op = 1 /\ x.data = first.offset
        /\ \A p \in Bytes : x.buffer[p] = NULL
    BY <1>2, <1>3, <1>4, RestingType, Zenon DEF ClientStates
  <1>7. parts \in [Servers -> PartStates] /\ \A s \in Servers : parts[s] = NoPart
    BY RestingType
  <1>. HIDE DEF x, parts, d
  <1>8. client'[c] = x /\ part'[c] = parts /\ handle'[c] = d
    BY <1>1 DEF IInv, TypeOK
  <1>9. IdOf(c)' = <<c, n1>>
    BY <1>6, <1>8 DEF IdOf
  <1>10. ASSUME NEW s \in Servers PROVE PartOf(c, s)'
    <2>1. part'[c][s] = NoPart /\ client'[c].req = r
      BY <1>6, <1>7, <1>8
    <2>2. Cut(part[c][s].pieces, s, client[c].req)'
      BY <2>1, NoPieces, RestingType DEF Cut
    <2>. QED BY <2>1, <2>2, RestingType DEF PartOf
  <1>11. Distributing(c)'
    <2>1. \A s \in Servers : part'[c][s] = NoPart
      BY <1>7, <1>8
    <2>2. client'[c].req = r /\ client'[c].op = 1 /\ client'[c].data = r.ops[1].offset
      BY <1>6, <1>8 DEF first
    <2>3. handle'[c].offset = r.ops[1].offset /\ handle'[c].length = r.ops[1].length
      BY <1>5, <1>8 DEF first
    <2>4. r.ops[1].offset <= r.ops[1].offset
          /\ r.ops[1].offset + r.ops[1].length = r.ops[1].offset + r.ops[1].length
      BY <1>4 DEF first
    <2>. QED BY <1>2, <1>4, <1>9, <2>1, <2>2, <2>3, <2>4, NoPieces, RestingType DEF Distributing
  <1>12. WorkingOf(c)'
    BY <1>6, <1>8, <1>10, <1>11 DEF WorkingOf
  <1>13. x.n = client[c].n + 1 /\ x.pc # "idle" /\ \A s \in Servers : parts[s].reply = NULL
    BY <1>6, <1>7, RestingType DEF n1
  <1>. QED BY <1>1, <1>5, <1>6, <1>7, <1>12, <1>13, BeginInv, Zenon

(* A client executes a request.                                           *)
LEMMA ExecInv ==
    ASSUME IInv, NEW c \in Clients, Exec(c) PROVE IInv'
  BY ExecEverywhereInv, ExecRangeInv
     DEF Exec, CreateExec, DeleteExec, StatusExec, SyncExec, ReadExec, WriteExec

-----------------------------------------------------------------------------
(* What a server may change.                                              *)

(* The bytes of pieces that were cut for a server are stored there.        *)
LEMMA CoveredBytes ==
    ASSUME NEW r \in AllRequests PROVE Covered(r.ops) \subseteq Bytes
  <1>1. PICK c \in Clients : r \in Requests[c]
    BY DEF AllRequests
  <1>2. r.type \notin {"READ", "WRITE"} => r.ops = <<>>
    BY <1>1, DistributedObjectAssumption
  <1>3. DOMAIN <<>> = {}
    OBVIOUS
  <1>. QED BY <1>1, <1>2, <1>3, RequestType, Zenon DEF Covered

(* The pieces for a server cover bytes stored there.                      *)
LEMMA CutStored ==
    ASSUME NEW r \in AllRequests, NEW pieces \in Seq(Pieces), NEW s, Cut(pieces, s, r)
    PROVE  AllBytes(pieces) \subseteq Stored(s)
  <1>. SUFFICES ASSUME NEW k \in DOMAIN pieces, NEW p \in BytesOf(pieces[k])
                PROVE  p \in Stored(s)
    BY DEF AllBytes
  <1>1. p \in Bytes
    BY CoveredBytes DEF Cut, AllBytes
  <1>2. pieces[k] \in Pieces
    OBVIOUS
  <1>3. pieces[k].data \in Nat /\ pieces[k].length \in Nat
    BY <1>2 DEF Pieces
  <1>4. PICK j \in 0 .. pieces[k].length - 1 : p = pieces[k].data + j
    <2>1. p - pieces[k].data \in 0 .. pieces[k].length - 1 /\ p = pieces[k].data + (p - pieces[k].data)
      BY <1>3 DEF BytesOf
    <2>. QED BY <2>1
  <1>5. place[pieces[k].data + j] = [index |-> s, offset |-> pieces[k].offset + j]
    BY DEF Cut
  <1>6. place[p].index = s
    BY <1>4, <1>5
  <1>. QED BY <1>1, <1>6 DEF Stored

(* What is left elsewhere is not touched by a server.                      *)
LEMMA LeftElsewhere ==
    ASSUME NEW r \in AllRequests, NEW pieces \in Seq(Pieces), NEW s, NEW t, s # t,
           Cut(pieces, s, r), NEW id, Left(id, s, r, pieces), UNCHANGED place,
           NEW changed \in SUBSET Stored(t), todo'[id].bytes = todo[id].bytes \ changed
    PROVE  Left(id, s, r, pieces)'
  <1>1. AllBytes(pieces) \subseteq Stored(s)
    BY CutStored
  <1>2. Stored(s) \cap changed = {} /\ Stored(s)' = Stored(s)
    BY DEF Stored
  <1>. QED BY <1>1, <1>2 DEF Left

(* So is the object as any files would have it.                           *)
LEMMA ContentOf ==
    ASSUME IInv, NEW files \in [Servers -> Files] PROVE Content(files) \in [Bytes -> Values]
  <1>. SUFFICES ASSUME NEW p \in Bytes
                PROVE  files[place[p].index].bytes[place[p].offset] \in Values
    BY DEF Content
  <1>1. place[p] \in [index : Servers, offset : Nat] /\ place[p].offset <= p
    BY DEF IInv, TypeOK, Layout
  <1>2. place[p].offset \in Bytes
    BY <1>1, DistributedObjectAssumption DEF Bytes
  <1>3. files[place[p].index] \in Files
    BY <1>1
  <1>. QED BY <1>2, <1>3 DEF Files

(* A message on its way, and whose it is.                                  *)
Sent(m) ==
    /\ m \in Messages /\ Travels(m) /\ m.id \in Ids /\ m.id[1] \in Clients
    /\ m.server \in Servers /\ m.pieces \in Seq(Pieces) /\ m.req \in AllRequests
    /\ todo[m.id] \in Todos
    /\ (IdOf(m.id[1]) = m.id) <=> (m.id[2] = client[m.id[1]].n)

(* What is changed by a server, of the files and of the client's part.     *)
ServedFiles(m, f, changed) ==
    /\ net' = net \ {m} /\ UNCHANGED <<handle, client, place, issued>>
    /\ file' \in [Servers -> Files] /\ file'[m.server] = f
    /\ \A s \in Servers \ {m.server} : file'[s] = file[s]
    /\ todo' \in [Ids -> {NULL} \cup Todos]
    /\ todo'[m.id] \in Todos /\ todo'[m.id].kind = todo[m.id].kind
    /\ todo'[m.id].bytes = todo[m.id].bytes \ changed
    /\ \A id \in Ids \ {m.id} : todo'[id] = todo[id]
    /\ Content(file)' \in [Bytes -> Values]
    /\ \A p \in Bytes : Content(file)'[p] = file'[place[p].index].bytes[place[p].offset]
    /\ seen' \in [Clients -> {NULL} \cup [Bytes -> SUBSET Values]]
    /\ \A c \in Clients : /\ seen'[c] = NULL <=> seen[c] = NULL
                          /\ seen[c] # NULL => \A p \in Bytes :
                                seen'[c][p] = seen[c][p] \cup {Content(file)'[p]}

(* A reply reaches the background operation that waits for it, and changes*)
(* no other.                                                              *)
ServedPart(m, reply) ==
    /\ part' \in [Clients -> [Servers -> PartStates]]
    /\ \A c \in Clients, s \in Servers :
          IF Replies(m.req) /\ c = m.id[1] /\ s = m.server
          THEN /\ part'[c][s].pc = part[c][s].pc /\ part'[c][s].pieces = part[c][s].pieces
               /\ part'[c][s].reply = reply
          ELSE part'[c][s] = part[c][s]

(* What serving a message changes.                                        *)
LEMMA ServedState ==
    ASSUME IInv, NEW m \in net, NEW f \in Files, NEW changed \in SUBSET Bytes,
           NEW reply \in AnyReply, Served(m, f, changed, reply)
    PROVE  Sent(m) /\ ServedFiles(m, f, changed) /\ ServedPart(m, reply)
  <1>1. /\ net' = net \ {m} /\ UNCHANGED <<handle, client, place, issued>>
        /\ file' = [file EXCEPT ![m.server] = f]
        /\ todo' = [todo EXCEPT ![m.id].bytes = @ \ changed]
        /\ part' = IF Replies(m.req) THEN [part EXCEPT ![m.id[1]][m.server].reply = reply] ELSE part
    BY DEF Served
  <1>2. /\ net \subseteq Messages /\ file \in [Servers -> Files]
        /\ part \in [Clients -> [Servers -> PartStates]]
        /\ seen \in [Clients -> {NULL} \cup [Bytes -> SUBSET Values]]
        /\ todo \in [Ids -> {NULL} \cup Todos]
    BY DEF IInv, TypeOK
  <1>3. /\ m \in Messages /\ Travels(m) /\ m.id \in Ids
        /\ m.server \in Servers /\ m.pieces \in Seq(Pieces) /\ m.req \in AllRequests
    BY <1>2 DEF IInv, Travelling, Messages
  <1>4. /\ m.id[1] \in Clients /\ m.id[2] \in 1 .. MaxRequests[m.id[1]] /\ m.id[2] \in Nat
        /\ m.id = <<m.id[1], m.id[2]>>
    BY <1>3, IdParts
  <1>5. (IdOf(m.id[1]) = m.id) <=> (m.id[2] = client[m.id[1]].n)
    BY <1>4 DEF IdOf
  <1>6. todo[m.id] \in Todos
    <2>1. NumberedOf(m.id[1]) /\ client[m.id[1]].n \in Nat /\ m.id[2] <= client[m.id[1]].n
      BY <1>3, <1>4 DEF IInv, Numbered, Travels, TypeOK, ClientStates
    <2>2. ~(m.id[2] > client[m.id[1]].n)
      BY <1>4, <2>1
    <2>3. todo[<<m.id[1], m.id[2]>>] \in Todos
      BY <1>4, <2>1, <2>2 DEF NumberedOf
    <2>. QED BY <1>4, <2>3
  <1>7. file' \in [Servers -> Files] /\ file'[m.server] = f
        /\ \A s \in Servers \ {m.server} : file'[s] = file[s]
    BY <1>1, <1>2, <1>3
  <1>8. /\ todo'[m.id] \in Todos /\ todo'[m.id].kind = todo[m.id].kind
        /\ todo'[m.id].bytes = todo[m.id].bytes \ changed
        /\ \A id \in Ids \ {m.id} : todo'[id] = todo[id]
        /\ todo' \in [Ids -> {NULL} \cup Todos]
    <2>. DEFINE rest == [todo[m.id] EXCEPT !.bytes = @ \ changed]
    <2>1. todo' = [todo EXCEPT ![m.id] = rest]
      BY <1>1
    <2>2. rest \in Todos /\ rest.kind = todo[m.id].kind /\ rest.bytes = todo[m.id].bytes \ changed
      BY <1>6 DEF Todos
    <2>. HIDE DEF rest
    <2>. QED BY <1>2, <1>3, <2>1, <2>2
  <1>9. Content(file)' \in [Bytes -> Values] /\ Content(file') = Content(file)'
        /\ \A p \in Bytes : Content(file)'[p] = file'[place[p].index].bytes[place[p].offset]
    <2>1. Content(file)' = Content(file') 
      BY <1>1 DEF Content
    <2>2. Content(file') \in [Bytes -> Values]
      BY <1>7, ContentOf
    <2>3. \A p \in Bytes : Content(file')[p] = file'[place[p].index].bytes[place[p].offset]
      BY DEF Content
    <2>. QED BY <2>1, <2>2, <2>3
  <1>10. /\ seen' \in [Clients -> {NULL} \cup [Bytes -> SUBSET Values]]
         /\ \A c \in Clients : /\ seen'[c] = NULL <=> seen[c] = NULL
                               /\ seen[c] # NULL => \A p \in Bytes :
                                     seen'[c][p] = seen[c][p] \cup {Content(file)'[p]}
    <2>1. PICK now : now = Content(file')
      OBVIOUS
    <2>2. seen' = [c \in Clients |-> IF seen[c] = NULL THEN NULL
                                     ELSE [p \in Bytes |-> seen[c][p] \cup {now[p]}]]
      BY <2>1 DEF Served
    <2>3. ASSUME NEW c \in Clients, seen[c] # NULL
          PROVE  [p \in Bytes |-> seen[c][p] \cup {now[p]}] \in [Bytes -> SUBSET Values]
      BY <1>2, <1>9, <2>1, <2>3
    <2>4. NULL \notin [Bytes -> SUBSET Values]
      BY DistributedObjectAssumption
    <2>5. ASSUME NEW c \in Clients
          PROVE  seen'[c] \in {NULL} \cup [Bytes -> SUBSET Values] /\ (seen'[c] = NULL <=> seen[c] = NULL)
      <3>1. CASE seen[c] = NULL
        BY <2>2, <3>1
      <3>2. CASE seen[c] # NULL
        <4>1. seen'[c] = [p \in Bytes |-> seen[c][p] \cup {now[p]}]
          BY <2>2, <3>2
        <4>. QED BY <2>3, <2>4, <3>2, <4>1
      <3>. QED BY <3>1, <3>2
    <2>6. \A c \in Clients : seen[c] # NULL => \A p \in Bytes :
              seen'[c][p] = seen[c][p] \cup {Content(file)'[p]}
      BY <1>9, <2>1, <2>2
    <2>7. seen' = [c \in Clients |-> seen'[c]]
      BY <2>2
    <2>. QED BY <2>5, <2>6, <2>7
  <1>11. /\ part' \in [Clients -> [Servers -> PartStates]]
         /\ \A c \in Clients, s \in Servers :
                 IF Replies(m.req) /\ c = m.id[1] /\ s = m.server
                 THEN /\ part'[c][s].pc = part[c][s].pc /\ part'[c][s].pieces = part[c][s].pieces
                      /\ part'[c][s].reply = reply
                 ELSE part'[c][s] = part[c][s]
    <2>1. CASE ~Replies(m.req)
      BY <1>1, <1>2, <2>1
    <2>2. CASE Replies(m.req)
      <3>. DEFINE answered == [part[m.id[1]][m.server] EXCEPT !.reply = reply]
      <3>1. part' = [part EXCEPT ![m.id[1]][m.server] = answered]
        BY <1>1, <2>2
      <3>2. part[m.id[1]] \in [Servers -> PartStates] /\ part[m.id[1]][m.server] \in PartStates
        BY <1>2, <1>3, <1>4
      <3>3. /\ answered \in PartStates /\ answered.pc = part[m.id[1]][m.server].pc
            /\ answered.pieces = part[m.id[1]][m.server].pieces /\ answered.reply = reply
        BY <3>2 DEF PartStates
      <3>. HIDE DEF answered
      <3>4. part' = [part EXCEPT ![m.id[1]] = [part[m.id[1]] EXCEPT ![m.server] = answered]]
        BY <3>1, <3>2
      <3>5. PICK row : row = [part[m.id[1]] EXCEPT ![m.server] = answered]
        BY Zenon
      <3>6. /\ row \in [Servers -> PartStates] /\ row[m.server] = answered
            /\ \A s \in Servers \ {m.server} : row[s] = part[m.id[1]][s]
        BY <1>3, <3>2, <3>3, <3>5
      <3>7. part' = [part EXCEPT ![m.id[1]] = row]
        BY <3>4, <3>5
      <3>8. /\ part' \in [Clients -> [Servers -> PartStates]] /\ part'[m.id[1]] = row
            /\ \A c \in Clients \ {m.id[1]} : part'[c] = part[c]
        BY <1>2, <1>4, <3>6, <3>7
      <3>. QED BY <2>2, <3>3, <3>6, <3>8
    <2>. QED BY <2>1, <2>2
  <1>12. Sent(m)
    BY <1>3, <1>4, <1>5, <1>6 DEF Sent
  <1>13. ServedFiles(m, f, changed)
    BY <1>1, <1>7, <1>8, <1>9, <1>10, Zenon DEF ServedFiles
  <1>14. ServedPart(m, reply)
    BY <1>11 DEF ServedPart
  <1>. QED BY <1>12, <1>13, <1>14

(* What a reply of a server must be for the client that waits.             *)
Fitting(m, f, reply) ==
    /\ m.req.type = "STATUS" => reply \in Seq(Nat) /\ reply # <<>>
    /\ m.req.type = "WRITE" => reply \in Seq(Nat)
    /\ m.req.type = "READ" => reply \in Seq(Fragments) /\
          \A k \in DOMAIN reply :
             /\ k \in DOMAIN m.pieces
             /\ \A j \in DOMAIN reply[k] : /\ j < m.pieces[k].length
                                           /\ reply[k][j] = f.bytes[m.pieces[k].offset + j]

(* Whatever a server changes within these limits keeps the invariant.     *)
LEMMA ServedInv ==
    ASSUME IInv, NEW m \in net, NEW f \in Files, NEW changed \in SUBSET Stored(m.server),
           NEW reply \in AnyReply, Served(m, f, changed, reply),
           ~f.exists => \A q \in Bytes : f.bytes[q] = NULL, Fitting(m, f, reply)
    PROVE  IInv'
  <1>. DEFINE c0 == m.id[1]
              s0 == m.server
  <1>0. changed \in SUBSET Bytes
    BY DEF Stored
  <1>00. Sent(m) /\ ServedFiles(m, f, changed) /\ ServedPart(m, reply)
    BY <1>0, ServedState, Zenon
  <1>1. /\ m \in Messages /\ Travels(m) /\ m.id \in Ids /\ c0 \in Clients
        /\ s0 \in Servers /\ m.pieces \in Seq(Pieces) /\ m.req \in AllRequests
        /\ todo[m.id] \in Todos
        /\ IdOf(c0) = m.id <=> m.id[2] = client[c0].n
    BY <1>00 DEF Sent
  <1>2. /\ net' = net \ {m} /\ UNCHANGED <<handle, client, place, issued>>
        /\ file' \in [Servers -> Files] /\ file'[s0] = f
        /\ \A s \in Servers \ {s0} : file'[s] = file[s]
        /\ todo' \in [Ids -> {NULL} \cup Todos]
        /\ todo'[m.id] \in Todos /\ todo'[m.id].kind = todo[m.id].kind
        /\ todo'[m.id].bytes = todo[m.id].bytes \ changed
        /\ \A id \in Ids \ {m.id} : todo'[id] = todo[id]
    BY <1>00 DEF ServedFiles
  <1>3. /\ Content(file)' \in [Bytes -> Values]
        /\ \A p \in Bytes : Content(file)'[p] = file'[place[p].index].bytes[place[p].offset]
        /\ seen' \in [Clients -> {NULL} \cup [Bytes -> SUBSET Values]]
        /\ \A c \in Clients : /\ seen'[c] = NULL <=> seen[c] = NULL
                              /\ seen[c] # NULL => \A p \in Bytes :
                                    seen'[c][p] = seen[c][p] \cup {Content(file)'[p]}
    BY <1>00 DEF ServedFiles
  <1>4. /\ part' \in [Clients -> [Servers -> PartStates]]
        /\ \A c \in Clients, s \in Servers :
              IF Replies(m.req) /\ c = c0 /\ s = s0
              THEN /\ part'[c][s].pc = part[c][s].pc /\ part'[c][s].pieces = part[c][s].pieces
                   /\ part'[c][s].reply = reply
              ELSE part'[c][s] = part[c][s]
    BY <1>00 DEF ServedPart
  <1>5. /\ handle \in [Clients -> Usable] /\ client \in [Clients -> ClientStates]
        /\ part \in [Clients -> [Servers -> PartStates]] /\ net \subseteq Messages
        /\ place \in [Bytes -> [index : Servers, offset : Nat]]
        /\ issued \in [Ids -> {NULL} \cup AllRequests]
    BY DEF IInv, TypeOK
  <1>6. TypeOK'
    BY <1>2, <1>3, <1>4, <1>5 DEF TypeOK
  <1>7. Layout'
    BY <1>2 DEF IInv, Layout
  <1>8. Emptied'
    BY <1>2 DEF IInv, Emptied
  <1>9. ASSUME NEW c \in Clients
        PROVE  /\ NumberedOf(c) /\ WorkingOf(c) /\ SeeingOf(c) /\ client[c] \in ClientStates
               /\ client'[c] = client[c] /\ IdOf(c)' = IdOf(c)
    BY <1>2, <1>5 DEF IInv, Numbered, Working, Seeing, IdOf
  <1>10. ASSUME NEW c \in Clients PROVE NumberedOf(c)'
    <2>1. ASSUME NEW n \in 1 .. MaxRequests[c]
          PROVE  /\ todo[<<c, n>>] = NULL => todo'[<<c, n>>] = NULL
                 /\ todo[<<c, n>>] \in Todos => /\ todo'[<<c, n>>] \in Todos
                                               /\ todo'[<<c, n>>].kind = todo[<<c, n>>].kind
                                               /\ todo'[<<c, n>>].bytes \subseteq todo[<<c, n>>].bytes
      <3>1. <<c, n>> \in Ids
        BY IdType
      <3>2. NULL \notin Todos
        BY DistributedObjectAssumption DEF Todos
      <3>3. CASE <<c, n>> = m.id
        <4>1. todo[<<c, n>>] # NULL
          BY <1>1, <3>2, <3>3
        <4>. QED BY <1>2, <3>3, <4>1
      <3>4. CASE <<c, n>> # m.id
        BY <1>2, <3>1, <3>4
      <3>. QED BY <3>3, <3>4
    <2>. QED BY <1>2, <1>9, <2>1 DEF NumberedOf
  <1>11. /\ \A c \in Clients, s \in Servers : /\ part'[c][s].pc = part[c][s].pc
                                              /\ part'[c][s].pieces = part[c][s].pieces
         /\ \A c \in Clients, s \in Servers : part'[c][s] # part[c][s] =>
               /\ Replies(m.req) /\ c = c0 /\ s = s0 /\ part'[c][s].reply = reply
    BY <1>4
  <1>12. Replies(m.req) =>
            /\ IdOf(c0) = m.id /\ m.req = client[c0].req /\ client[c0].req # NULL
            /\ client[c0].pc = "parallel"
            /\ part[c0][s0].pc = "wait" /\ part[c0][s0].pieces = m.pieces
    <2>. SUFFICES ASSUME Replies(m.req)
                  PROVE  /\ IdOf(c0) = m.id /\ m.req = client[c0].req /\ client[c0].req # NULL
                         /\ client[c0].pc = "parallel"
                         /\ part[c0][s0].pc = "wait" /\ part[c0][s0].pieces = m.pieces
      OBVIOUS
    <2>1. /\ m.req = issued[m.id] /\ m.id[2] = client[c0].n /\ client[c0].pc = "parallel"
          /\ part[c0][s0].pc = "wait" /\ part[c0][s0].pieces = m.pieces
      BY <1>1 DEF Travels, Expects, Replies
    <2>2. client[c0].req # NULL /\ issued[IdOf(c0)] = client[c0].req
      BY <1>1, <1>9, <2>1 DEF NumberedOf
    <2>. QED BY <1>1, <2>1, <2>2
  <1>. HIDE DEF c0, s0
  <1>13. ASSUME NEW c \in Clients PROVE WorkingOf(c)'
    <2>1. CASE client[c].pc = "idle"
      <3>1. \A s \in Servers : part'[c][s] = part[c][s]
        BY <1>11, <1>12, <2>1
      <3>2. part'[c] = part[c]
        BY <1>4, <1>5, <3>1
      <3>. QED BY <1>9, <2>1, <3>2 DEF WorkingOf
    <2>2. CASE client[c].pc # "idle"
      <3>1. /\ client[c].req # NULL /\ \A s \in Servers : PartOf(c, s)
            /\ client[c].req \in AllRequests /\ IdOf(c) \in Ids /\ IdOf(c)[1] = c
        BY <1>9, <2>2, AtWork DEF NumberedOf
      <3>2. ASSUME NEW s \in Servers PROVE PartOf(c, s)'
        <4>1. PartOf(c, s) /\ part[c][s].pieces \in Seq(Pieces)
          BY <1>5, <3>1 DEF PartStates
        <4>2. /\ client'[c].req = client[c].req /\ place' = place /\ IdOf(c)' = IdOf(c)
              /\ part'[c][s].pc = part[c][s].pc /\ part'[c][s].pieces = part[c][s].pieces
              /\ part[c][s].pc # "wait" => part'[c][s].reply = part[c][s].reply
          BY <1>2, <1>9, <1>11, <1>12
        <4>3. ASSUME part[c][s].pc = "send"
              PROVE  Left(IdOf(c), s, client[c].req, part[c][s].pieces)'
          <5>. DEFINE id == IdOf(c)
                      r == client[c].req
                      pieces == part[c][s].pieces
          <5>1. Cut(pieces, s, r) /\ Left(id, s, r, pieces)
            BY <4>1, <4>3 DEF PartOf
          <5>2. PICK i, q, ps : i = id /\ q = r /\ ps = pieces
            OBVIOUS
          <5>3. Left(i, s, q, ps)'
            <6>1. CASE i # m.id
              <7>1. todo'[i] = todo[i] /\ place' = place
                BY <1>2, <3>1, <5>2, <6>1
              <7>. QED BY <5>1, <5>2, <7>1 DEF Left, Stored
            <6>2. CASE i = m.id
              <7>1. s # s0
                BY <1>1, <2>2, <3>1, <4>3, <5>2, <6>2, Unsent, Zenon DEF c0, s0
              <7>2. todo'[i].bytes = todo[i].bytes \ changed /\ changed \in SUBSET Stored(s0)
                BY <1>2, <6>2 DEF s0
              <7>3. Cut(ps, s, q) /\ Left(i, s, q, ps) /\ q \in AllRequests /\ ps \in Seq(Pieces)
                BY <3>1, <4>1, <5>1, <5>2
              <7>. QED BY <1>2, <7>1, <7>2, <7>3, LeftElsewhere, Zenon
            <6>. QED BY <6>1, <6>2
          <5>. QED BY <4>2, <5>2, <5>3
        <4>. QED BY <4>1, <4>2, <4>3 DEF PartOf, Cut
      <3>3. client[c].pc = "distribute" => Distributing(c)'
        <4>. SUFFICES ASSUME client[c].pc = "distribute" PROVE Distributing(c)'
          OBVIOUS
        <4>1. IdOf(c) # m.id
          BY <1>1, <3>1, Unsent DEF c0
        <4>2. todo'[IdOf(c)] = todo[IdOf(c)]
          BY <1>2, <3>1, <4>1
        <4>3. Distributing(c)
          BY <1>9 DEF WorkingOf
        <4>4. CutSoFar(c)' = CutSoFar(c)
          BY <1>9 DEF CutSoFar
        <4>. QED BY <1>2, <1>9, <1>11, <4>2, <4>3, <4>4 DEF Distributing
      <3>. QED BY <1>9, <2>2, <3>2, <3>3 DEF WorkingOf
    <2>. QED BY <2>1, <2>2
  <1>14. ASSUME NEW o \in net, o # m PROVE Travels(o)'
    <2>1. /\ o \in Messages /\ Travels(o) /\ o.id \in Ids /\ o.server \in Servers
          /\ o.id[1] \in Clients /\ o.req \in AllRequests /\ o.pieces \in Seq(Pieces)
      BY <1>5, IdParts DEF IInv, Travelling, Messages
    <2>2. ~(o.id = m.id /\ o.server = s0)
      BY <1>14 DEF IInv, Travelling, s0
    <2>3. Cut(o.pieces, o.server, o.req) /\ Left(o.id, o.server, o.req, o.pieces)
      BY <2>1 DEF Travels
    <2>4. Left(o.id, o.server, o.req, o.pieces)'
      <3>1. CASE o.id # m.id
        <4>1. todo'[o.id] = todo[o.id] /\ place' = place
          BY <1>2, <2>1, <3>1
        <4>. QED BY <2>3, <4>1 DEF Left, Stored
      <3>2. CASE o.id = m.id
        <4>1. o.server # s0
          BY <2>2, <3>2
        <4>2. todo'[o.id].bytes = todo[o.id].bytes \ changed /\ changed \in SUBSET Stored(s0)
          BY <1>2, <3>2 DEF s0
        <4>. QED BY <1>2, <2>1, <2>3, <4>1, <4>2, LeftElsewhere, Zenon
      <3>. QED BY <3>1, <3>2
    <2>5. Cut(o.pieces, o.server, o.req)'
      BY <1>2, <2>3 DEF Cut
    <2>6. Expects(o.req) => part'[o.id[1]][o.server] = part[o.id[1]][o.server]
      <3>. SUFFICES ASSUME Expects(o.req), part'[o.id[1]][o.server] # part[o.id[1]][o.server]
                    PROVE  FALSE
        OBVIOUS
      <3>1. Replies(m.req) /\ o.id[1] = c0 /\ o.server = s0
        BY <1>11, <2>1
      <3>2. o.id[2] = client[c0].n /\ o.id = <<o.id[1], o.id[2]>> /\ m.id = IdOf(c0)
        BY <1>12, <2>1, <3>1, IdParts DEF Travels
      <3>3. o.id = m.id
        BY <3>1, <3>2 DEF IdOf
      <3>. QED BY <2>2, <3>1, <3>3
    <2>7. /\ client'[o.id[1]] = client[o.id[1]] /\ issued'[o.id] = issued[o.id]
          /\ part'[o.id[1]][o.server].pc = part[o.id[1]][o.server].pc
      BY <1>2, <1>11, <2>1
    <2>. QED BY <2>1, <2>4, <2>5, <2>6, <2>7 DEF Travels
  <1>15. Travelling'
    BY <1>2, <1>14 DEF IInv, Travelling

  <1>16. ASSUME NEW c \in Clients PROVE SeeingOf(c)'
    <2>1. seen'[c] # NULL => \A p \in Bytes : Content(file)'[p] \in seen'[c][p]
      BY <1>3
    <2>2. seen[c] # NULL => \A p \in Bytes : seen[c][p] \subseteq seen'[c][p]
      BY <1>3
    <2>3. ASSUME NEW s \in Servers, client[c].req # NULL, part'[c][s].reply # NULL
          PROVE  Answers(c, s)'
      <3>1. client[c].req.type = "READ" <=> seen[c] # NULL
        BY <1>9, <2>3 DEF SeeingOf
      <3>2. CASE part'[c][s] = part[c][s]
        <4>1. Answers(c, s)
          BY <1>9, <2>3, <3>2 DEF SeeingOf
        <4>2. ASSUME client[c].req.type = "READ", NEW k \in DOMAIN part[c][s].reply,
                     NEW j \in DOMAIN part[c][s].reply[k]
              PROVE  part[c][s].reply[k][j] \in seen'[c][part[c][s].pieces[k].data + j]
          <5>1. part[c][s].reply[k][j] \in seen[c][part[c][s].pieces[k].data + j]
            BY <4>1, <4>2 DEF Answers
          <5>2. part[c][s].pieces[k].data + j \in Bytes
            <6>1. /\ part[c][s].reply \in Seq(Fragments) /\ k \in DOMAIN part[c][s].pieces
                  /\ j < part[c][s].pieces[k].length
              BY <4>1, <4>2 DEF Answers
            <6>2. j \in Nat
              <7>1. part[c][s].reply[k] \in Fragments
                BY <6>1
              <7>2. DOMAIN part[c][s].reply[k] \subseteq Bytes
                BY <7>1 DEF Fragments
              <7>. QED BY <7>2, DistributedObjectAssumption DEF Bytes
            <6>3. client[c].pc # "idle"
              <7>1. part[c][s].reply # NULL
                BY <2>3, <3>2
              <7>. QED BY <1>9, <7>1, RestingType DEF WorkingOf
            <6>4. PartOf(c, s) /\ part[c][s] \in PartStates /\ client[c].req \in AllRequests
              BY <2>3, <6>3, AtWork
            <6>5. part[c][s].pieces \in Seq(Pieces) /\ part[c][s].pieces[k] \in Pieces
              BY <6>1, <6>4 DEF PartStates
            <6>6. part[c][s].pieces[k].data \in Nat /\ part[c][s].pieces[k].length \in Nat
              BY <6>5, Zenon DEF Pieces
            <6>7. part[c][s].pieces[k].data + j \in BytesOf(part[c][s].pieces[k])
              <7>1. \A d, l, i \in Nat : i < l => d + i \in d .. d + l - 1
                OBVIOUS
              <7>. QED BY <6>1, <6>2, <6>6, <7>1, Zenon DEF BytesOf
            <6>. QED BY <6>1, <6>4, <6>7, CoveredBytes DEF PartOf, Cut, AllBytes
          <5>. QED BY <2>2, <3>1, <4>2, <5>1, <5>2
        <4>. QED BY <1>9, <3>2, <4>1, <4>2 DEF Answers
      <3>3. CASE part'[c][s] # part[c][s]
        <4>1. /\ Replies(m.req) /\ c = c0 /\ s = s0 /\ part'[c][s].reply = reply
              /\ part'[c][s].pieces = m.pieces /\ m.req = client[c].req
          BY <1>11, <1>12, <3>3
        <4>2. ASSUME m.req.type = "READ", NEW k \in DOMAIN reply, NEW j \in DOMAIN reply[k]
              PROVE  reply[k][j] \in seen'[c][m.pieces[k].data + j]
          <5>1. /\ reply \in Seq(Fragments) /\ k \in DOMAIN m.pieces
                /\ j < m.pieces[k].length /\ reply[k][j] = f.bytes[m.pieces[k].offset + j]
            BY <4>2 DEF Fitting
          <5>2. j \in Nat
            <6>1. reply[k] \in Fragments
              BY <5>1
            <6>2. DOMAIN reply[k] \subseteq Bytes
              BY <6>1 DEF Fragments
            <6>. QED BY <6>2, DistributedObjectAssumption DEF Bytes
          <5>3. m.pieces[k] \in Pieces
            BY <1>1, <5>1
          <5>4. m.pieces[k].data \in Nat /\ m.pieces[k].length \in Nat
            BY <5>3 DEF Pieces
          <5>5. j \in 0 .. m.pieces[k].length - 1
                /\ m.pieces[k].data + j \in BytesOf(m.pieces[k])
            BY <5>1, <5>2, <5>4 DEF BytesOf
          <5>6. Cut(m.pieces, s0, m.req)
            BY <1>1 DEF Travels, s0
          <5>7. /\ m.pieces[k].data + j \in Bytes
                /\ place[m.pieces[k].data + j] = [index |-> s0, offset |-> m.pieces[k].offset + j]
            BY <1>1, <5>1, <5>5, <5>6, CoveredBytes, Zenon DEF Cut, AllBytes
          <5>8. Content(file)'[m.pieces[k].data + j] = f.bytes[m.pieces[k].offset + j]
            BY <1>2, <1>3, <5>7
          <5>. QED BY <1>3, <3>1, <4>1, <4>2, <5>1, <5>7, <5>8
        <4>3. client'[c].req = m.req
          BY <1>9, <4>1
        <4>. QED BY <4>1, <4>2, <4>3 DEF Answers, Fitting
      <3>. QED BY <3>2, <3>3
    <2>. QED BY <1>3, <1>9, <2>1, <2>2, <2>3 DEF SeeingOf
  <1>17. Numbered' /\ Working' /\ Seeing'
    BY <1>10, <1>13, <1>16 DEF Numbered, Working, Seeing
  <1>. QED BY <1>6, <1>7, <1>8, <1>15, <1>17 DEF IInv

-----------------------------------------------------------------------------
(* The handler of each message.                                           *)

(* Where a byte of a piece lies.                                           *)
LEMMA PieceBytes ==
    ASSUME IInv, NEW m, Sent(m), NEW k \in DOMAIN m.pieces, NEW j \in 0 .. m.pieces[k].length - 1
    PROVE  LET p == m.pieces[k].data + j
               q == m.pieces[k].offset + j
           IN /\ p \in Bytes /\ p \in BytesOf(m.pieces[k]) /\ q \in Bytes /\ q \in Nat
              /\ place[p] = [index |-> m.server, offset |-> q] /\ j \in Bytes /\ p \in Stored(m.server)
  <1>. DEFINE p == m.pieces[k].data + j
              q == m.pieces[k].offset + j
  <1>1. /\ m.pieces \in Seq(Pieces) /\ m.req \in AllRequests /\ Cut(m.pieces, m.server, m.req)
    BY DEF Sent, Travels
  <1>2. m.pieces[k] \in Pieces
    BY <1>1
  <1>3. m.pieces[k].data \in Nat /\ m.pieces[k].offset \in Nat /\ m.pieces[k].length \in Nat
    BY <1>2 DEF Pieces
  <1>4. p \in BytesOf(m.pieces[k]) /\ q \in Nat /\ p \in Nat /\ j \in Nat /\ j <= p
    BY <1>3 DEF BytesOf
  <1>5. p \in Bytes
    BY <1>1, <1>4, CoveredBytes, Zenon DEF Cut, AllBytes
  <1>6. place[p] = [index |-> m.server, offset |-> q]
    BY <1>1 DEF Cut
  <1>7. q <= p
    <2>1. place[p].offset <= p
      BY <1>5 DEF IInv, Layout
    <2>. QED BY <1>6, <2>1
  <1>8. q \in Bytes /\ j \in Bytes
    BY <1>4, <1>5, <1>7, DistributedObjectAssumption DEF Bytes
  <1>. QED BY <1>4, <1>5, <1>6, <1>8 DEF Stored

(* What a write puts at a place of the file is the byte that lies there.   *)
LEMMA TargetPlaces ==
    ASSUME IInv, NEW m, Sent(m), NEW fails, NEW k \in DOMAIN m.pieces, NEW q \in Target(m, k, fails)
    PROVE  LET p == Source(m, k, q)
           IN /\ p \in Bytes /\ p \in BytesOf(m.pieces[k]) /\ q \in Bytes /\ q \in Nat
              /\ place[p] = [index |-> m.server, offset |-> q] /\ p \in Stored(m.server)
  <1>1. m.pieces \in Seq(Pieces)
    BY DEF Sent
  <1>2. m.pieces[k] \in Pieces
    BY <1>1
  <1>3. PICK data \in Nat, offset \in Nat, length \in Nat :
           data = m.pieces[k].data /\ offset = m.pieces[k].offset /\ length = m.pieces[k].length
    BY <1>2 DEF Pieces
  <1>4. q \in offset .. offset + (length - 1 - (IF k \in fails THEN 1 ELSE 0))
    BY <1>3 DEF Target
  <1>5. PICK j \in 0 .. length - 1 : q = offset + j
    <2>1. q - offset \in 0 .. length - 1 /\ q = offset + (q - offset)
      BY <1>4
    <2>. QED BY <2>1
  <1>6. Source(m, k, q) = data + j
    BY <1>3, <1>5 DEF Source
  <1>. QED BY <1>3, <1>5, <1>6, PieceBytes

(* The file after one more piece.                                          *)
WrittenTo(m, k, fails, f) ==
    LET T == Target(m, k, fails)
    IN [f EXCEPT
          !.size = CHOOSE n \in {@} \cup {q + 1 : q \in T} :
                      \A q \in {@} \cup {q + 1 : q \in T} : q <= n,
          !.bytes = [q \in Bytes |-> IF q \in T THEN <<m.id, Source(m, k, q)>> ELSE @[q]]]

(* One piece written to a file: its bytes change, each to the byte of the *)
(* data that belongs there.                                               *)
LEMMA WrittenType ==
    ASSUME IInv, NEW m, Sent(m), NEW fails, NEW k \in DOMAIN m.pieces, NEW f \in Files
    PROVE  /\ WrittenTo(m, k, fails, f) \in Files
           /\ WrittenTo(m, k, fails, f).exists = f.exists
           /\ \A q \in Bytes : WrittenTo(m, k, fails, f).bytes[q] =
                  IF q \in Target(m, k, fails) THEN <<m.id, Source(m, k, q)>> ELSE f.bytes[q]
  <1>. DEFINE T == Target(m, k, fails)
              ends == {f.size} \cup {q + 1 : q \in T}
              size == CHOOSE n \in ends : \A q \in ends : q <= n
              bytes == [q \in Bytes |-> IF q \in T THEN <<m.id, Source(m, k, q)>> ELSE f.bytes[q]]
  <1>1. size \in Nat
    <2>1. f.size \in Nat /\ m.pieces \in Seq(Pieces)
      BY DEF Files, Sent
    <2>2. m.pieces[k] \in Pieces
      BY <2>1
    <2>3. PICK a \in Nat, b \in Int : T = a .. b
      <3>1. m.pieces[k].offset \in Nat /\ m.pieces[k].length \in Nat
        BY <2>2 DEF Pieces
      <3>2. m.pieces[k].offset + m.pieces[k].length - 1 - (IF k \in fails THEN 1 ELSE 0) \in Int
        BY <3>1
      <3>. QED BY <3>1, <3>2 DEF Target
    <2>. HIDE DEF T
    <2>4. \E n \in ends : \A q \in ends : q <= n
      <3>1. CASE a <= b /\ f.size <= b + 1
        <4>1. b + 1 \in ends
          BY <2>3, <3>1
        <4>2. \A q \in ends : q <= b + 1
          BY <2>1, <2>3, <3>1
        <4>. QED BY <4>1, <4>2
      <3>2. CASE ~(a <= b /\ f.size <= b + 1)
        <4>1. \A q \in ends : q <= f.size
          BY <2>1, <2>3, <3>2
        <4>. QED BY <4>1
      <3>. QED BY <3>1, <3>2
    <2>5. \A n \in ends : n \in Nat
      BY <2>1, <2>3
    <2>. HIDE DEF ends
    <2>. QED BY <2>4, <2>5
  <1>2. bytes \in [Bytes -> Values]
    <2>1. ASSUME NEW q \in Bytes
          PROVE  (IF q \in T THEN <<m.id, Source(m, k, q)>> ELSE f.bytes[q]) \in Values
      <3>1. CASE q \in T
        <4>1. Source(m, k, q) \in Bytes /\ m.id \in Ids
          BY <3>1, TargetPlaces, Zenon DEF Sent
        <4>. QED BY <3>1, <4>1 DEF Values
      <3>2. CASE q \notin T
        BY <3>2 DEF Files
      <3>. QED BY <3>1, <3>2
    <2>. QED BY <2>1
  <1>3. WrittenTo(m, k, fails, f) = [f EXCEPT !.size = size, !.bytes = bytes]
    BY DEF WrittenTo
  <1>4. \A q \in Bytes : bytes[q] = IF q \in T THEN <<m.id, Source(m, k, q)>> ELSE f.bytes[q]
    OBVIOUS
  <1>. HIDE DEF size, bytes, T
  <1>5. /\ WrittenTo(m, k, fails, f) \in Files
        /\ WrittenTo(m, k, fails, f).exists = f.exists
        /\ WrittenTo(m, k, fails, f).bytes = bytes
    BY <1>1, <1>2, <1>3, Zenon DEF Files
  <1>. QED BY <1>4, <1>5 DEF T

(* The file with all pieces written.                                       *)
LEMMA AfterWriteFile ==
    ASSUME IInv, NEW m, Sent(m), NEW fails
    PROVE  LET f == AfterWrite(m, fails)
           IN /\ f \in Files /\ f.exists = file[m.server].exists
              /\ \A q \in Bytes :
                    /\ \A k \in DOMAIN m.pieces :
                          q \in Target(m, k, fails) => f.bytes[q] = <<m.id, Source(m, k, q)>>
                    /\ (\A k \in DOMAIN m.pieces : q \notin Target(m, k, fails)) =>
                          f.bytes[q] = file[m.server].bytes[q]
  <1>. DEFINE n == Len(m.pieces)
              base == file[m.server]
              F(f) == [k \in 0 .. n |-> IF k = 0 THEN base ELSE WrittenTo(m, k, fails, f[k - 1])]
              after == CHOOSE f : f = F(f)
  <1>1. n \in Nat /\ DOMAIN m.pieces = 1 .. n /\ base \in Files
    <2>1. m.pieces \in Seq(Pieces) /\ m.server \in Servers
      BY DEF Sent
    <2>. QED BY <2>1 DEF IInv, TypeOK
  <1>2. AfterWrite(m, fails) = after[n]
    BY DEF AfterWrite, WrittenTo
  <1>. HIDE DEF n, base
  <1>3. after = F(after)
    <2>1. \E f : f = F(f)
      <3>. DEFINE step == [x \in (1 .. n) \X Files |-> WrittenTo(m, x[1], fails, x[2])]
      <3>1. ASSUME NEW x \in (1 .. n) \X Files PROVE WrittenTo(m, x[1], fails, x[2]) \in Files
        <4>1. x[1] \in DOMAIN m.pieces /\ x[2] \in Files
          BY <1>1
        <4>. QED BY <4>1, WrittenType, Zenon
      <3>2. step \in [(1 .. n) \X Files -> Files]
        BY <3>1
      <3>3. PICK f \in [0 .. n -> Files] : IsIteration(f, n, base, step)
        <4>. HIDE DEF step
        <4>. QED BY <1>1, <3>2, Iterates, Zenon
      <3>4. ASSUME NEW i \in 1 .. n PROVE f[i] = WrittenTo(m, i, fails, f[i - 1])
        <4>1. i - 1 \in 0 .. n
          BY <1>1
        <4>2. <<i, f[i - 1]>> \in (1 .. n) \X Files
          BY <4>1
        <4>3. step[<<i, f[i - 1]>>] = WrittenTo(m, i, fails, f[i - 1])
          BY <4>2
        <4>. QED BY <3>3, <4>3, Zenon DEF IsIteration
      <3>5. ASSUME NEW i \in 0 .. n PROVE f[i] = F(f)[i]
        <4>1. i = 0 \/ i \in 1 .. n
          BY <1>1
        <4>. HIDE DEF step
        <4>. QED BY <3>3, <3>4, <4>1 DEF IsIteration
      <3>6. f = F(f)
        BY <3>5
      <3>. QED BY <3>6, Zenon
    <2>. HIDE DEF F
    <2>. QED BY <2>1
  <1>. HIDE DEF after
  <1>4. after[0] = base /\ \A k \in 1 .. n : after[k] = WrittenTo(m, k, fails, after[k - 1])
    BY <1>1, <1>3
  <1>. DEFINE Right(k) ==
                 LET f == after[k]
                 IN /\ f \in Files /\ f.exists = base.exists
                    /\ \A q \in Bytes :
                          /\ \A i \in 1 .. k :
                                q \in Target(m, i, fails) => f.bytes[q] = <<m.id, Source(m, i, q)>>
                          /\ (\A i \in 1 .. k : q \notin Target(m, i, fails)) => f.bytes[q] = base.bytes[q]
              P == {k \in Nat : k <= n => Right(k)}
  <1>5. Right(0)
    BY <1>1, <1>4
  <1>6. ASSUME NEW k \in Nat, k < n, Right(k) PROVE Right(k + 1)
    <2>. DEFINE l == k + 1
                f == after[k]
                g == after[l]
    <2>1. l \in 1 .. n /\ l \in DOMAIN m.pieces /\ l - 1 = k /\ \A i \in 1 .. l : i \in 1 .. k \/ i = l
      BY <1>1, <1>6
    <2>1a. \A i \in 1 .. k : i \in 1 .. l /\ i \in DOMAIN m.pieces
      BY <1>1, <1>6
    <2>2. g = WrittenTo(m, l, fails, f) /\ f \in Files
      BY <1>4, <1>6, <2>1
    <2>3. /\ g \in Files /\ g.exists = f.exists
          /\ \A q \in Bytes : g.bytes[q] =
                  IF q \in Target(m, l, fails) THEN <<m.id, Source(m, l, q)>> ELSE f.bytes[q]
      <3>1. l \in DOMAIN m.pieces /\ f \in Files /\ g = WrittenTo(m, l, fails, f)
        BY <2>1, <2>2
      <3>. HIDE DEF l, f, g
      <3>2. /\ WrittenTo(m, l, fails, f) \in Files
            /\ WrittenTo(m, l, fails, f).exists = f.exists
            /\ \A q \in Bytes : WrittenTo(m, l, fails, f).bytes[q] =
                  IF q \in Target(m, l, fails) THEN <<m.id, Source(m, l, q)>> ELSE f.bytes[q]
        BY <3>1, WrittenType
      <3>. QED BY <3>1, <3>2
    <2>. HIDE DEF l, f, g
    <2>4. ASSUME NEW q \in Bytes, NEW i \in 1 .. l, q \in Target(m, i, fails)
          PROVE  g.bytes[q] = <<m.id, Source(m, i, q)>>
      <3>1. CASE q \in Target(m, l, fails)
        <4>1. i \in DOMAIN m.pieces
          BY <2>1, <2>1a
        <4>2. /\ Source(m, i, q) \in Bytes /\ place[Source(m, i, q)] = [index |-> m.server, offset |-> q]
              /\ Source(m, l, q) \in Bytes /\ place[Source(m, l, q)] = [index |-> m.server, offset |-> q]
          BY <2>1, <2>4, <3>1, <4>1, TargetPlaces
        <4>3. Source(m, i, q) = Source(m, l, q)
          BY <4>2 DEF IInv, Layout
        <4>. QED BY <2>3, <3>1, <4>3, Zenon
      <3>2. CASE q \notin Target(m, l, fails)
        <4>1. i \in 1 .. k
          BY <2>1, <2>4, <3>2
        <4>2. f.bytes[q] = <<m.id, Source(m, i, q)>>
          BY <1>6, <2>4, <4>1 DEF f
        <4>. QED BY <2>3, <3>2, <4>2, Zenon
      <3>. QED BY <3>1, <3>2
    <2>5. ASSUME NEW q \in Bytes, \A i \in 1 .. l : q \notin Target(m, i, fails)
          PROVE  g.bytes[q] = base.bytes[q]
      <3>1. q \notin Target(m, l, fails) /\ \A i \in 1 .. k : q \notin Target(m, i, fails)
        BY <2>1, <2>1a, <2>5
      <3>2. f.bytes[q] = base.bytes[q]
        BY <1>6, <3>1 DEF f
      <3>. QED BY <2>3, <3>1, <3>2, Zenon
    <2>6. f.exists = base.exists
      BY <1>6 DEF f
    <2>. QED BY <2>3, <2>4, <2>5, <2>6 DEF g, l
  <1>. HIDE DEF Right
  <1>7. n \in P
    <2>1. P \in SUBSET Nat /\ 0 \in P /\ \A k \in Nat : k < n /\ k \in P => k + 1 \in P
      <3>1. \A k \in Nat : k < n /\ k <= n /\ Right(k) => Right(k + 1)
        BY <1>6
      <3>2. \A k \in Nat : k < n => k <= n
        BY <1>1
      <3>3. 0 \in P /\ P \in SUBSET Nat
        BY <1>5
      <3>4. ASSUME NEW k \in Nat, k < n, k \in P PROVE k + 1 \in P
        <4>1. Right(k) /\ k <= n
          BY <3>2, <3>4
        <4>. QED BY <3>1, <3>4, <4>1
      <3>. HIDE DEF P
      <3>. QED BY <3>3, <3>4
    <2>. HIDE DEF P
    <2>2. n \in Nat
      BY <1>1
    <2>3. \A k \in 0 .. n : k \in P
      BY <2>1, <2>2, Climb
    <2>. QED BY <2>2, <2>3
  <1>8. Right(n)
    BY <1>1, <1>7
  <1>. QED BY <1>1, <1>2, <1>8 DEF Right, base

(* What a server may make of a message: it changes the bytes of its own    *)
(* that the request has not changed yet, each to what the request says.    *)
Legal(m, f, changed, reply) ==
    /\ f \in Files /\ changed \in SUBSET Stored(m.server) /\ reply \in AnyReply
    /\ Served(m, f, changed, reply)
    /\ ~f.exists => \A q \in Bytes : f.bytes[q] = NULL
    /\ Fitting(m, f, reply)
    /\ changed \subseteq todo[m.id].bytes
    /\ m.req.type \notin {"WRITE", "DELETE"} => changed = {}
    /\ \A p \in Stored(m.server) :
          f.bytes[place[p].offset] =
             IF p \notin changed THEN file[m.server].bytes[place[p].offset]
             ELSE IF m.req.type = "WRITE" THEN <<m.id, p>> ELSE NULL

(* The message and its file before it is handled.                          *)
LEMMA Handled ==
    ASSUME IInv, NEW m \in net
    PROVE  /\ Sent(m) /\ file[m.server] \in Files
           /\ ~file[m.server].exists => \A q \in Bytes : file[m.server].bytes[q] = NULL
           /\ Left(m.id, m.server, m.req, m.pieces)
           /\ \A p \in Stored(m.server) : p \in Bytes /\ place[p].offset \in Bytes
                                          /\ place[p] = [index |-> m.server, offset |-> place[p].offset]
  <1>1. m \in Messages /\ Travels(m)
    BY DEF IInv, TypeOK, Travelling
  <1>2. /\ m.id \in Ids /\ m.server \in Servers /\ m.pieces \in Seq(Pieces) /\ m.req \in AllRequests
    BY <1>1 DEF Messages
  <1>3. /\ m.id[1] \in Clients /\ m.id[2] \in 1 .. MaxRequests[m.id[1]] /\ m.id[2] \in Nat
        /\ m.id = <<m.id[1], m.id[2]>>
    BY <1>2, IdParts
  <1>4. (IdOf(m.id[1]) = m.id) <=> (m.id[2] = client[m.id[1]].n)
    BY <1>3 DEF IdOf
  <1>5. todo[m.id] \in Todos
    <2>1. NumberedOf(m.id[1]) /\ client[m.id[1]].n \in Nat /\ m.id[2] <= client[m.id[1]].n
      BY <1>1, <1>3 DEF IInv, Numbered, Travels, TypeOK, ClientStates
    <2>2. ~(m.id[2] > client[m.id[1]].n)
      BY <1>3, <2>1
    <2>3. todo[<<m.id[1], m.id[2]>>] \in Todos
      BY <1>3, <2>1, <2>2 DEF NumberedOf
    <2>. QED BY <1>3, <2>3
  <1>6. Sent(m)
    BY <1>1, <1>2, <1>3, <1>4, <1>5 DEF Sent
  <1>7. file[m.server] \in Files /\ (~file[m.server].exists => \A q \in Bytes : file[m.server].bytes[q] = NULL)
    BY <1>2 DEF IInv, TypeOK, Emptied
  <1>8. ASSUME NEW p \in Stored(m.server)
        PROVE  p \in Bytes /\ place[p].offset \in Bytes
               /\ place[p] = [index |-> m.server, offset |-> place[p].offset]
    <2>1. p \in Bytes /\ place[p].index = m.server
      BY DEF Stored
    <2>2. place[p] \in [index : Servers, offset : Nat] /\ place[p].offset <= p
      BY <2>1 DEF IInv, TypeOK, Layout
    <2>3. place[p].offset \in Bytes
      BY <2>1, <2>2, DistributedObjectAssumption DEF Bytes
    <2>. QED BY <2>1, <2>2, <2>3
  <1>. QED BY <1>1, <1>6, <1>7, <1>8 DEF Travels

(* A create changes no byte.                                              *)
LEMMA ServeCreateLegal ==
    ASSUME IInv, NEW m \in net, ServeCreate(m)
    PROVE  \E f, changed, reply : Legal(m, f, changed, reply)
  <1>. DEFINE f == [file[m.server] EXCEPT !.exists = TRUE]
  <1>1. m.req.type = "CREATE" /\ Served(m, f, {}, <<TRUE>>)
    BY DEF ServeCreate
  <1>2. file[m.server] \in Files
    BY Handled
  <1>3. f \in Files /\ f.exists /\ f.bytes = file[m.server].bytes
    BY <1>2, Zenon DEF Files
  <1>4. <<TRUE>> \in AnyReply
    BY DEF AnyReply
  <1>. HIDE DEF f
  <1>5. Legal(m, f, {}, <<TRUE>>)
    BY <1>1, <1>3, <1>4 DEF Legal, Fitting
  <1>. QED BY <1>5

(* A delete empties the file or fails.                                    *)
LEMMA ServeDeleteLegal ==
    ASSUME IInv, NEW m \in net, ServeDelete(m)
    PROVE  \E f, changed, reply : Legal(m, f, changed, reply)
  <1>1. m.req.type = "DELETE" /\ NoFile \in Files /\ ~NoFile.exists /\ \A q \in Bytes : NoFile.bytes[q] = NULL
    BY RestingType DEF ServeDelete
  <1>2. /\ Sent(m) /\ file[m.server] \in Files /\ Left(m.id, m.server, m.req, m.pieces)
        /\ ~file[m.server].exists => \A q \in Bytes : file[m.server].bytes[q] = NULL
        /\ \A p \in Stored(m.server) : place[p].offset \in Bytes
    BY Handled, Zenon
  <1>3. <<TRUE>> \in AnyReply /\ <<FALSE>> \in AnyReply
    BY DEF AnyReply
  <1>4. CASE file[m.server].exists
    <2>1. Served(m, NoFile, Stored(m.server), <<TRUE>>)
      BY <1>4 DEF ServeDelete
    <2>2. Stored(m.server) \subseteq todo[m.id].bytes
      BY <1>1, <1>2 DEF Left
    <2>3. Legal(m, NoFile, Stored(m.server), <<TRUE>>)
      BY <1>1, <1>2, <1>3, <2>1, <2>2 DEF Legal, Fitting
    <2>. QED BY <2>3
  <1>5. CASE ~file[m.server].exists
    <2>1. Served(m, NoFile, {}, <<FALSE>>)
      BY <1>5 DEF ServeDelete
    <2>2. Legal(m, NoFile, {}, <<FALSE>>)
      BY <1>1, <1>2, <1>3, <1>5, <2>1 DEF Legal, Fitting
    <2>. QED BY <2>2
  <1>. QED BY <1>4, <1>5

(* A status changes nothing and replies.                                  *)
LEMMA ServeStatusLegal ==
    ASSUME IInv, NEW m \in net, ServeStatus(m)
    PROVE  \E f, changed, reply : Legal(m, f, changed, reply)
  <1>. DEFINE f == file[m.server]
              reply == <<f.size>>
  <1>1. m.req.type = "STATUS" /\ Served(m, f, {}, reply)
    BY DEF ServeStatus
  <1>2. f \in Files /\ (~f.exists => \A q \in Bytes : f.bytes[q] = NULL)
    BY Handled
  <1>3. reply \in Seq(Nat) /\ reply # <<>>
    <2>1. f.size \in Nat
      BY <1>2 DEF Files
    <2>. HIDE DEF f
    <2>. QED BY <2>1
  <1>. HIDE DEF reply
  <1>4. reply \in AnyReply
    BY <1>3 DEF AnyReply
  <1>5. Legal(m, f, {}, reply)
    BY <1>1, <1>2, <1>3, <1>4 DEF Legal, Fitting
  <1>. QED BY <1>5

(* A sync changes nothing.                                                *)
LEMMA ServeSyncLegal ==
    ASSUME IInv, NEW m \in net, ServeSync(m)
    PROVE  \E f, changed, reply : Legal(m, f, changed, reply)
  <1>. DEFINE f == file[m.server]
  <1>1. m.req.type = "SYNC" /\ Served(m, f, {}, <<TRUE>>)
    BY DEF ServeSync
  <1>2. f \in Files /\ (~f.exists => \A q \in Bytes : f.bytes[q] = NULL)
    BY Handled
  <1>3. <<TRUE>> \in AnyReply
    BY DEF AnyReply
  <1>4. Legal(m, f, {}, <<TRUE>>)
    BY <1>1, <1>2, <1>3 DEF Legal, Fitting
  <1>. QED BY <1>4

(* A read returns what the file holds, up to its end.                     *)
LEMMA ServeReadLegal ==
    ASSUME IInv, NEW m \in net, ServeRead(m)
    PROVE  \E f, changed, reply : Legal(m, f, changed, reply)
  <1>. DEFINE f == file[m.server]
              D(k) == {i \in 0 .. m.pieces[k].length - 1 : m.pieces[k].offset + i < f.size}
              Got(k) == [j \in D(k) |-> f.bytes[m.pieces[k].offset + j]]
              all == [k \in DOMAIN m.pieces |-> Got(k)]
              reply == IF f.exists THEN all ELSE <<>>
  <1>1. m.req.type = "READ" /\ Served(m, f, {}, reply)
    BY DEF ServeRead
  <1>2. f \in Files /\ (~f.exists => \A q \in Bytes : f.bytes[q] = NULL) /\ Sent(m)
    BY Handled
  <1>3. m.pieces \in Seq(Pieces)
    BY <1>2 DEF Sent
  <1>. HIDE DEF f
  <1>4. ASSUME NEW k \in DOMAIN m.pieces
        PROVE  /\ Got(k) \in Fragments
               /\ \A j \in D(k) : /\ j < m.pieces[k].length
                                  /\ Got(k)[j] = f.bytes[m.pieces[k].offset + j]
    <2>1. ASSUME NEW j \in D(k)
          PROVE  j \in Bytes /\ m.pieces[k].offset + j \in Bytes /\ j < m.pieces[k].length
      <3>1. j \in 0 .. m.pieces[k].length - 1
        OBVIOUS
      <3>2. j \in Bytes /\ m.pieces[k].offset + j \in Bytes
        BY <1>2, <3>1, PieceBytes, Zenon
      <3>3. m.pieces[k] \in Pieces
        BY <1>3
      <3>4. m.pieces[k].length \in Nat
        BY <3>3 DEF Pieces
      <3>. QED BY <3>1, <3>2, <3>4
    <2>. HIDE DEF D
    <2>2. D(k) \in SUBSET Bytes
      BY <2>1
    <2>3. Got(k) \in [D(k) -> Values]
      BY <1>2, <2>1 DEF Files
    <2>. QED BY <2>1, <2>2, <2>3 DEF Fragments
  <1>5. \A k \in DOMAIN m.pieces : DOMAIN Got(k) = D(k)
    OBVIOUS
  <1>. HIDE DEF Got, D
  <1>6. /\ all \in Seq(Fragments) /\ DOMAIN all = DOMAIN m.pieces
        /\ \A k \in DOMAIN m.pieces : all[k] = Got(k)
    <2>1. DOMAIN m.pieces = 1 .. Len(m.pieces) /\ Len(m.pieces) \in Nat
      BY <1>3
    <2>. QED BY <1>4, <2>1
  <1>. HIDE DEF all
  <1>7. /\ reply \in Seq(Fragments)
        /\ \A k \in DOMAIN reply : k \in DOMAIN m.pieces /\ reply[k] = Got(k)
    BY <1>6
  <1>. HIDE DEF reply
  <1>8. reply \in AnyReply
    BY <1>7 DEF AnyReply
  <1>9. Fitting(m, f, reply)
    BY <1>1, <1>4, <1>5, <1>7 DEF Fitting
  <1>10. Legal(m, f, {}, reply)
    BY <1>1, <1>2, <1>8, <1>9 DEF Legal, f
  <1>. QED BY <1>10

(* No byte is in two of the pieces.                                       *)
Apart(pieces) ==
    \A k, l \in DOMAIN pieces : k # l => BytesOf(pieces[k]) \cap BytesOf(pieces[l]) = {}

(* The reply to a write counts the bytes that were written.                *)
Exact(m, changed, reply) ==
    m.req.type = "WRITE" /\ Apart(m.pieces) => Total(reply) = Cardinality(changed)

(* As many bytes in the file as in the object.                            *)
LEMMA ShiftCardinality ==
    ASSUME NEW T, IsFiniteSet(T), T \subseteq Int, NEW d \in Int
    PROVE  IsFiniteSet({d + q : q \in T}) /\ Cardinality({d + q : q \in T}) = Cardinality(T)
  <1>. DEFINE U == {d + q : q \in T}
              f == [q \in T |-> d + q]
  <1>1. f \in Bijection(T, U)
    BY DEF Bijection, Injection, Surjection, IsInjective
  <1>. HIDE DEF U
  <1>. QED BY <1>1, FS_Bijection DEF ExistsBijection, U

(* No reply counts nothing.                                               *)
LEMMA NothingCounted == Total(<<>>) = 0
  <1>. DEFINE S == [k \in {} |-> {}]
  <1>1. DOMAIN <<>> = {} /\ IsFiniteSet({}) /\ Cardinality({}) = 0
    BY FS_EmptySet
  <1>2. UNION {S[k] : k \in {}} = {}
    OBVIOUS
  <1>3. \A k \in {} : IsFiniteSet(S[k]) /\ <<>>[k] = Cardinality(S[k])
    OBVIOUS
  <1>4. \A k, l \in {} : k # l => S[k] \cap S[l] = {}
    OBVIOUS
  <1>. HIDE DEF S
  <1>. QED BY <1>1, <1>2, <1>3, <1>4, TotalIsCardinality

(* A write puts every byte where the layout has it, and counts what it    *)
(* wrote.                                                                 *)
LEMMA ServeWriteLegal ==
    ASSUME IInv, NEW m \in net, ServeWrite(m)
    PROVE  \E f, changed, reply : Legal(m, f, changed, reply) /\ Exact(m, changed, reply)
  <1>1. /\ Sent(m) /\ file[m.server] \in Files /\ Left(m.id, m.server, m.req, m.pieces)
        /\ ~file[m.server].exists => \A q \in Bytes : file[m.server].bytes[q] = NULL
        /\ \A p \in Stored(m.server) : p \in Bytes /\ place[p].offset \in Bytes
                                       /\ place[p] = [index |-> m.server, offset |-> place[p].offset]
    BY Handled
  <1>2. m.req.type = "WRITE" /\ m.pieces \in Seq(Pieces)
    BY <1>1 DEF ServeWrite, Sent
  <1>3. CASE ~file[m.server].exists
    <2>1. Served(m, file[m.server], {}, <<>>)
      BY <1>3 DEF ServeWrite
    <2>2. <<>> \in Seq(Nat) /\ <<>> \in AnyReply
      BY DEF AnyReply
    <2>3. Legal(m, file[m.server], {}, <<>>)
      BY <1>1, <1>2, <2>1, <2>2 DEF Legal, Fitting
    <2>4. Total(<<>>) = Cardinality({})
      BY NothingCounted, FS_EmptySet
    <2>. QED BY <2>3, <2>4 DEF Exact
  <1>4. CASE file[m.server].exists
    <2>1. PICK fails : Served(m, AfterWrite(m, fails),
                     UNION {{Source(m, k, q) : q \in Target(m, k, fails)} : k \in DOMAIN m.pieces},
                     [k \in DOMAIN m.pieces |-> Cardinality(Target(m, k, fails))])
      BY <1>4, Zenon DEF ServeWrite
    <2>. DEFINE f == AfterWrite(m, fails)
                changed == UNION {{Source(m, k, q) : q \in Target(m, k, fails)} : k \in DOMAIN m.pieces}
                reply == [k \in DOMAIN m.pieces |-> Cardinality(Target(m, k, fails))]
    <2>2. /\ f \in Files /\ f.exists
          /\ \A q \in Bytes :
                /\ \A k \in DOMAIN m.pieces :
                      q \in Target(m, k, fails) => f.bytes[q] = <<m.id, Source(m, k, q)>>
                /\ (\A k \in DOMAIN m.pieces : q \notin Target(m, k, fails)) =>
                      f.bytes[q] = file[m.server].bytes[q]
      BY <1>1, <1>4, AfterWriteFile
    <2>3. \A k \in DOMAIN m.pieces : \A q \in Target(m, k, fails) :
             LET p == Source(m, k, q)
             IN /\ p \in Bytes /\ p \in BytesOf(m.pieces[k]) /\ q \in Bytes /\ q \in Nat
                /\ place[p] = [index |-> m.server, offset |-> q] /\ p \in Stored(m.server)
      BY <1>1, TargetPlaces
    <2>. HIDE DEF f
    <2>31. ASSUME NEW p \in changed
           PROVE  \E k \in DOMAIN m.pieces : \E q \in Target(m, k, fails) : p = Source(m, k, q)
      <3>1. PICK T \in {{Source(m, k, q) : q \in Target(m, k, fails)} : k \in DOMAIN m.pieces} : p \in T
        BY Zenon
      <3>2. PICK k \in DOMAIN m.pieces : T = {Source(m, k, q) : q \in Target(m, k, fails)}
        BY <3>1
      <3>. QED BY <3>1, <3>2
    <2>4. changed \subseteq Stored(m.server)
      <3>. HIDE DEF changed
      <3>. QED BY <2>3, <2>31, Zenon
    <2>5. changed \subseteq todo[m.id].bytes
      <3>1. AllBytes(m.pieces) \subseteq todo[m.id].bytes
        BY <1>1, <1>2 DEF Left
      <3>2. \A k \in DOMAIN m.pieces : BytesOf(m.pieces[k]) \subseteq todo[m.id].bytes
        BY <3>1, Zenon DEF AllBytes
      <3>. HIDE DEF changed
      <3>. QED BY <2>3, <2>31, <3>2, Zenon
    <2>6. ASSUME NEW p \in Stored(m.server)
          PROVE  f.bytes[place[p].offset] =
                   IF p \notin changed THEN file[m.server].bytes[place[p].offset] ELSE <<m.id, p>>
      <3>1. CASE p \in changed
        <4>1. PICK k \in DOMAIN m.pieces : \E q \in Target(m, k, fails) : p = Source(m, k, q)
          BY <2>31, <3>1
        <4>2. PICK q \in Target(m, k, fails) : p = Source(m, k, q)
          BY <4>1
        <4>3. place[p].offset = q /\ q \in Bytes
          <5>1. q \in Bytes /\ place[Source(m, k, q)] = [index |-> m.server, offset |-> q]
            BY <2>3, <4>1, <4>2, Zenon
          <5>. QED BY <4>2, <5>1
        <4>4. f.bytes[q] = <<m.id, Source(m, k, q)>>
          BY <2>2, <4>2, <4>3
        <4>. HIDE DEF changed
        <4>. QED BY <3>1, <4>2, <4>3, <4>4
      <3>2. CASE p \notin changed
        <4>1. PICK o \in Bytes : o = place[p].offset /\ p \in Bytes /\ place[p] = [index |-> m.server, offset |-> o]
          BY <1>1, Zenon
        <4>2. ASSUME NEW k \in DOMAIN m.pieces, o \in Target(m, k, fails) PROVE FALSE
          <5>1. PICK q : q = Source(m, k, o)
            OBVIOUS
          <5>2. q \in Bytes /\ place[q] = place[p]
            BY <2>3, <4>1, <4>2, <5>1
          <5>3. q = p
            BY <4>1, <5>2, Zenon DEF IInv, Layout
          <5>4. q \in changed
            BY <4>2, <5>1
          <5>. QED BY <3>2, <5>3, <5>4
        <4>3. f.bytes[o] = file[m.server].bytes[o]
          BY <2>2, <4>2
        <4>. HIDE DEF changed
        <4>. QED BY <3>2, <4>1, <4>3
      <3>. QED BY <3>1, <3>2
    <2>7. reply \in Seq(Nat)
      <3>1. ASSUME NEW k \in DOMAIN m.pieces PROVE Cardinality(Target(m, k, fails)) \in Nat
        <4>1. m.pieces[k] \in Pieces
          BY <1>2
        <4>2. PICK a \in Nat, n \in Int : Target(m, k, fails) = a .. n
          <5>1. PICK o \in Nat, l \in Nat : o = m.pieces[k].offset /\ l = m.pieces[k].length
            BY <4>1 DEF Pieces
          <5>2. Target(m, k, fails) = o .. o + (l - 1 - (IF k \in fails THEN 1 ELSE 0))
            BY <5>1 DEF Target
          <5>. QED BY <5>1, <5>2
        <4>3. IsFiniteSet(a .. n)
          BY FS_Interval
        <4>. QED BY <4>2, <4>3, FS_CardinalityType
      <3>2. DOMAIN m.pieces = 1 .. Len(m.pieces) /\ Len(m.pieces) \in Nat
        BY <1>2
      <3>. QED BY <3>1, <3>2
    <2>71. ASSUME Apart(m.pieces) PROVE Total(reply) = Cardinality(changed)
      <3>. DEFINE S == [k \in DOMAIN m.pieces |-> {Source(m, k, q) : q \in Target(m, k, fails)}]
                  D == DOMAIN m.pieces
      <3>1. ASSUME NEW k \in D
            PROVE  IsFiniteSet(S[k]) /\ reply[k] = Cardinality(S[k]) /\ S[k] \subseteq BytesOf(m.pieces[k])
        <4>1. m.pieces[k] \in Pieces
          BY <1>2
        <4>2. PICK o \in Nat, l \in Nat, data \in Nat :
                 o = m.pieces[k].offset /\ l = m.pieces[k].length /\ data = m.pieces[k].data
          BY <4>1 DEF Pieces
        <4>3. PICK T : T = Target(m, k, fails)
          OBVIOUS
        <4>4. T = o .. o + (l - 1 - (IF k \in fails THEN 1 ELSE 0))
          BY <4>2, <4>3 DEF Target
        <4>5. IsFiniteSet(T) /\ T \subseteq Int
          <5>1. PICK n \in Int : n = o + (l - 1 - (IF k \in fails THEN 1 ELSE 0))
            BY <4>2
          <5>2. T = o .. n
            BY <4>4, <5>1
          <5>3. IsFiniteSet(o .. n)
            BY <5>1, FS_Interval
          <5>. QED BY <5>2, <5>3
        <4>6. PICK d \in Int : d = data - o
          BY <4>2
        <4>7. IsFiniteSet({d + q : q \in T}) /\ Cardinality({d + q : q \in T}) = Cardinality(T)
          BY <4>5, <4>6, ShiftCardinality, Zenon
        <4>8. \A q \in T : Source(m, k, q) = d + q
          <5>1. \A q \in T : Source(m, k, q) = data + q - o
            BY <4>2 DEF Source
          <5>. QED BY <4>2, <4>5, <4>6, <5>1
        <4>9. S[k] = {d + q : q \in T}
          BY <4>3, <4>8
        <4>10. S[k] \subseteq BytesOf(m.pieces[k])
          <5>1. \A q \in Target(m, k, fails) : Source(m, k, q) \in BytesOf(m.pieces[k])
            BY <2>3, Zenon
          <5>2. S[k] = {Source(m, k, q) : q \in Target(m, k, fails)}
            OBVIOUS
          <5>. HIDE DEF S
          <5>. QED BY <5>1, <5>2
        <4>11. reply[k] = Cardinality(T)
          BY <4>3
        <4>. HIDE DEF S, reply
        <4>. QED BY <4>7, <4>9, <4>10, <4>11
      <3>2. ASSUME NEW k \in D, NEW l \in D, k # l PROVE S[k] \cap S[l] = {}
        <4>1. BytesOf(m.pieces[k]) \cap BytesOf(m.pieces[l]) = {}
          BY <2>71, <3>2 DEF Apart
        <4>. HIDE DEF S
        <4>. QED BY <3>1, <4>1, Zenon
      <3>3. IsFiniteSet(D)
        <4>1. DOMAIN m.pieces = 1 .. Len(m.pieces) /\ Len(m.pieces) \in Int /\ 1 \in Int
          BY <1>2
        <4>2. IsFiniteSet(1 .. Len(m.pieces))
          BY <4>1, FS_Interval
        <4>. QED BY <4>1, <4>2
      <3>4. DOMAIN reply = D
        OBVIOUS
      <3>5. \A k \in D : S[k] = {Source(m, k, q) : q \in Target(m, k, fails)}
        OBVIOUS
      <3>51. changed = UNION {{Source(m, k, q) : q \in Target(m, k, fails)} : k \in D}
        OBVIOUS
      <3>. HIDE DEF S, reply, D, changed
      <3>6. Total(reply) = Cardinality(UNION {S[k] : k \in D})
        <4>1. \A k \in D : IsFiniteSet(S[k]) /\ reply[k] = Cardinality(S[k])
          BY <3>1
        <4>2. \A k, l \in D : k # l => S[k] \cap S[l] = {}
          BY <3>2
        <4>3. /\ Total(reply) = Cardinality(UNION {S[k] : k \in D})
              /\ IsFiniteSet(UNION {S[k] : k \in D})
          BY <3>3, <3>4, <4>1, <4>2, TotalIsCardinality, SMTT(40)
        <4>. QED BY <4>3
      <3>7. {S[k] : k \in D} = {{Source(m, k, q) : q \in Target(m, k, fails)} : k \in D}
        BY <3>5
      <3>8. UNION {S[k] : k \in D} = changed
        BY <3>7, <3>51, Zenon
      <3>. QED BY <3>6, <3>8, Zenon
    <2>8. Served(m, f, changed, reply)
      BY <2>1 DEF f
    <2>. HIDE DEF changed, reply
    <2>9. reply \in AnyReply
      BY <2>7 DEF AnyReply
    <2>10. Legal(m, f, changed, reply)
      BY <1>2, <2>2, <2>4, <2>5, <2>6, <2>7, <2>8, <2>9 DEF Legal, Fitting
    <2>. QED BY <2>71, <2>10 DEF Exact
  <1>. QED BY <1>3, <1>4

(* A server does nothing else with any message.                           *)
LEMMA ServeLegal ==
    ASSUME IInv, NEW m \in net, Serve(m)
    PROVE  \E f, changed, reply : Legal(m, f, changed, reply) /\ Exact(m, changed, reply)
  <1>1. CASE ServeWrite(m)
    BY <1>1, ServeWriteLegal
  <1>2. CASE ServeCreate(m) \/ ServeDelete(m) \/ ServeRead(m) \/ ServeStatus(m) \/ ServeSync(m)
    <2>1. \E f, changed, reply : Legal(m, f, changed, reply)
      BY <1>2, ServeCreateLegal, ServeDeleteLegal, ServeReadLegal, ServeStatusLegal, ServeSyncLegal
    <2>2. m.req.type # "WRITE"
      BY <1>2 DEF ServeCreate, ServeDelete, ServeRead, ServeStatus, ServeSync
    <2>. QED BY <2>1, <2>2 DEF Exact
  <1>. QED BY <1>1, <1>2 DEF Serve

(* Serving a message keeps the invariant.                                 *)
LEMMA ServeInv ==
    ASSUME IInv, NEW m \in net, Serve(m) PROVE IInv'
  <1>1. PICK f, changed, reply : Legal(m, f, changed, reply)
    BY ServeLegal
  <1>. QED BY <1>1, ServedInv DEF Legal

(* So does doing nothing.                                                 *)
LEMMA StutterInv == IInv /\ UNCHANGED vars => IInv'
  <1>. SUFFICES ASSUME IInv, UNCHANGED vars PROVE IInv'
    OBVIOUS
  <1>1. UNCHANGED <<handle, client, part, net, file, place, seen, todo, issued>>
    BY DEF vars
  <1>2. TypeOK' /\ Layout' /\ Emptied'
    BY <1>1 DEF IInv, TypeOK, Layout, Emptied
  <1>3. ASSUME NEW c \in Clients PROVE NumberedOf(c)' /\ WorkingOf(c)' /\ SeeingOf(c)'
    <2>1. client[c].n \in Nat /\ MaxRequests[c] \in Nat
      BY DistributedObjectAssumption DEF IInv, TypeOK, ClientStates
    <2>2. NumberedOf(c) /\ WorkingOf(c) /\ SeeingOf(c)
      BY DEF IInv, Numbered, Working, Seeing
    <2>. QED BY <1>1, <2>1, <2>2, Bystander
  <1>4. Travelling'
    BY <1>1, Zenon DEF IInv, Travelling, Travels, Cut, Left, Stored
  <1>. QED BY <1>2, <1>3, <1>4 DEF IInv, Numbered, Working, Seeing

(* Every step keeps it.                                                   *)
LEMMA NextInv == IInv /\ [Next]_vars => IInv'
  <1>. SUFFICES ASSUME IInv, [Next]_vars PROVE IInv'
    OBVIOUS
  <1>1. ASSUME NEW c \in Clients, Exec(c) PROVE IInv'
    BY <1>1, ExecInv
  <1>2. ASSUME NEW c \in Clients, Work(c) PROVE IInv'
    <2>1. CASE AddPiece(c) \/ NextOperation(c) \/ Finish(c)
      BY <2>1, AddPieceInv, NextOperationInv, FinishInv
    <2>2. ASSUME NEW s \in Servers, Send(c, s) PROVE IInv'
      BY <2>2, SendInv
    <2>3. ASSUME NEW s \in Servers, Receive(c, s) PROVE IInv'
      BY <2>3, ReceiveIgnoredInv, ReceiveDeleteInv, ReceiveWriteInv, ReceiveReadInv, ReceiveStatusInv
         DEF Receive
    <2>. QED BY <1>2, <2>1, <2>2, <2>3 DEF Work
  <1>3. ASSUME NEW m \in net, Serve(m) PROVE IInv'
    BY <1>3, ServeInv
  <1>4. CASE UNCHANGED vars
    BY <1>4, StutterInv
  <1>. QED BY <1>1, <1>2, <1>3, <1>4 DEF Next

(* It always holds.                                                       *)
LEMMA Invariance == Spec => []IInv
  BY InitInv, NextInv, PTL DEF Spec

(* A byte j_distributed_object_read stores was the value of that byte of  *)
(* the object at some time between the start and the end of the read, for *)
(* every number of clients and servers, every distribution and every order*)
(* in which the servers answer.                                           *)
THEOREM RegularReads == Spec => []ReadsAreRegular
  <1>1. IInv => ReadsAreRegular
    BY DEF IInv, Seeing, SeeingOf, ReadsAreRegular, Finished
  <1>. QED BY <1>1, Invariance, PTL

-----------------------------------------------------------------------------
(* The files together are one array of bytes.                             *)

(* The stripes begin as an array nobody has written.                      *)
LEMMA FlatInit == Init => Flat!Init
  <1>. SUFFICES ASSUME Init PROVE Flat!Init
    OBVIOUS
  <1>1. IInv /\ todo = [id \in Ids |-> NULL]
    BY InitInv, Zenon DEF Init
  <1>2. PICK created \in BOOLEAN : file = [s \in Servers |-> [NoFile EXCEPT !.exists = created]]
    BY Zenon DEF Init
  <1>3. ASSUME NEW p \in Bytes PROVE file[place[p].index].bytes[place[p].offset] = NULL
    <2>1. place[p] \in [index : Servers, offset : Nat] /\ place[p].offset <= p
      BY <1>1 DEF IInv, TypeOK, Layout
    <2>2. place[p].offset \in Bytes
      BY <2>1, DistributedObjectAssumption DEF Bytes
    <2>3. file[place[p].index].bytes = NoFile.bytes
      BY <1>2, <2>1, RestingType DEF Files
    <2>. QED BY <2>2, <2>3, RestingType
  <1>. QED BY <1>1, <1>3 DEF Flat!Init, Content

(* What changes neither file nor request is not seen of the array.        *)
LEMMA FlatStutter ==
    ASSUME UNCHANGED <<file, place, todo>> PROVE UNCHANGED Flat!flatVars
  BY DEF Flat!flatVars, Content

(* A client that executes a request begins it on the array.               *)
LEMMA FlatBegin ==
    ASSUME IInv, NEW c \in Clients, Exec(c) PROVE Flat!Next
  <1>1. PICK r \in Requests[c] : Begin(c, r)
    BY DEF Exec, CreateExec, DeleteExec, StatusExec, SyncExec, ReadExec, WriteExec,
           ExecEverywhere, ExecRange
  <1>. DEFINE n1 == client[c].n + 1
              id == <<c, n1>>
              new == [kind |-> Kind(r), bytes |-> Reach(r)]
  <1>2. client[c].n < MaxRequests[c] /\ todo' = [todo EXCEPT ![id] = new] /\ UNCHANGED <<file, place>>
    BY <1>1 DEF Begin
  <1>3. client[c].n \in Nat /\ MaxRequests[c] \in Nat /\ NumberedOf(c) /\ todo \in [Ids -> {NULL} \cup Todos]
    BY DistributedObjectAssumption DEF IInv, TypeOK, ClientStates, Numbered
  <1>4. n1 \in 1 .. MaxRequests[c] /\ n1 > client[c].n
    BY <1>2, <1>3
  <1>5. id \in Ids /\ todo[id] = NULL
    BY <1>3, <1>4, IdType DEF NumberedOf
  <1>6. /\ new \in Todos /\ (new.kind = "OTHER" => new.bytes = {})
        /\ new \in [kind : {"WRITE", "DELETE", "OTHER"}, bytes : SUBSET Bytes]
    BY RequestType DEF Todos, Kind, Reach
  <1>7. new # NULL
    BY <1>6, DistributedObjectAssumption
  <1>. HIDE DEF new, id
  <1>8. todo'[id] = new
    BY <1>2, <1>3, <1>5
  <1>9. UNCHANGED Content(file)
    BY <1>2 DEF Content
  <1>10. Flat!Begin(id)
    BY <1>2, <1>5, <1>6, <1>7, <1>8, <1>9, Zenon DEF Flat!Begin, Flat!Kinds
  <1>. QED BY <1>5, <1>10 DEF Flat!Next

(* A server that handles a message applies a part of the request to the   *)
(* array, or nothing.                                                     *)
LEMMA FlatServe ==
    ASSUME IInv, NEW m \in net, Serve(m) PROVE [Flat!Next]_(Flat!flatVars)
  <1>1. PICK f, changed, reply : Legal(m, f, changed, reply)
    BY ServeLegal
  <1>2. /\ f \in Files /\ changed \in SUBSET Stored(m.server) /\ changed \in SUBSET Bytes
        /\ reply \in AnyReply /\ Served(m, f, changed, reply) /\ changed \subseteq todo[m.id].bytes
        /\ m.req.type \notin {"WRITE", "DELETE"} => changed = {}
        /\ todo' = [todo EXCEPT ![m.id].bytes = @ \ changed]
    BY <1>1 DEF Legal, Stored, Served
  <1>3. Sent(m) /\ ServedFiles(m, f, changed)
    BY <1>2, ServedState
  <1>4. /\ m.id \in Ids /\ m.server \in Servers /\ todo[m.id] \in Todos /\ m.req = issued[m.id]
        /\ todo \in [Ids -> {NULL} \cup Todos] /\ m.id[1] \in Clients /\ m.id[2] <= client[m.id[1]].n
    BY <1>3 DEF Sent, IInv, TypeOK, Travels
  <1>5. todo[m.id].kind = Kind(m.req)
    <2>1. /\ m.id[1] \in Clients /\ m.id[2] \in 1 .. MaxRequests[m.id[1]] /\ m.id = <<m.id[1], m.id[2]>>
          /\ m.id[2] \in Nat
      BY <1>4, IdParts
    <2>2. NumberedOf(m.id[1]) /\ client[m.id[1]].n \in Nat
      BY <1>4 DEF IInv, Numbered, TypeOK, ClientStates
    <2>3. ~(m.id[2] > client[m.id[1]].n)
      BY <1>4, <2>1, <2>2
    <2>4. todo[<<m.id[1], m.id[2]>>].kind = Kind(issued[<<m.id[1], m.id[2]>>])
      BY <2>1, <2>2, <2>3 DEF NumberedOf
    <2>. QED BY <1>4, <2>1, <2>4
  <1>. DEFINE new(p) == IF m.req.type = "WRITE" THEN <<m.id, p>> ELSE NULL
  <1>6. ASSUME NEW p \in Bytes
        PROVE  Content(file)'[p] = IF p \in changed THEN new(p) ELSE Content(file)[p]
    <2>1. Content(file)'[p] = file'[place[p].index].bytes[place[p].offset]
      BY <1>3 DEF ServedFiles
    <2>2. Content(file)[p] = file[place[p].index].bytes[place[p].offset]
      BY DEF Content
    <2>3. CASE p \in Stored(m.server)
      <3>1. place[p].index = m.server /\ file'[m.server] = f
        BY <1>3, <2>3 DEF Stored, ServedFiles
      <3>2. f.bytes[place[p].offset] =
               IF p \notin changed THEN file[m.server].bytes[place[p].offset]
               ELSE IF m.req.type = "WRITE" THEN <<m.id, p>> ELSE NULL
        BY <1>1, <2>3 DEF Legal
      <3>. QED BY <2>1, <2>2, <3>1, <3>2
    <2>4. CASE p \notin Stored(m.server)
      <3>1. place[p].index # m.server /\ place[p].index \in Servers /\ p \notin changed
        BY <1>2, <2>4 DEF Stored, IInv, TypeOK
      <3>2. file'[place[p].index] = file[place[p].index]
        BY <1>3, <3>1 DEF ServedFiles
      <3>. QED BY <2>1, <2>2, <3>1, <3>2
    <2>. QED BY <2>3, <2>4
  <1>7. Content(file)' = [p \in Bytes |-> IF p \in changed THEN new(p) ELSE Content(file)[p]]
    <2>1. Content(file)' \in [Bytes -> Values]
      BY <1>3 DEF ServedFiles
    <2>. HIDE DEF new
    <2>. QED BY <1>6, <2>1
  <1>8. /\ todo'[m.id].bytes = todo[m.id].bytes \ changed
        /\ todo[m.id].bytes \ todo'[m.id].bytes = changed
    <2>1. todo'[m.id].bytes = todo[m.id].bytes \ changed
      BY <1>3 DEF ServedFiles
    <2>. QED BY <1>2, <2>1
  <1>9. CASE changed = {}
    <2>1. UNCHANGED todo
      <3>1. todo[m.id] = [todo[m.id] EXCEPT !.bytes = @ \ {}]
        BY <1>4 DEF Todos
      <3>. QED BY <1>2, <1>4, <1>9, <3>1
    <2>2. Content(file)' = Content(file)
      BY <1>7, <1>9 DEF Content
    <2>. QED BY <2>1, <2>2 DEF Flat!flatVars
  <1>10. CASE changed # {} /\ m.req.type = "WRITE"
    <2>1. todo[m.id] # NULL /\ todo[m.id].kind = "WRITE"
      BY <1>4, <1>5, <1>10, DistributedObjectAssumption DEF Kind, Todos
    <2>2. \A p \in Bytes : new(p) = <<m.id, p>>
      BY <1>10
    <2>. HIDE DEF new
    <2>3. Content(file)' = [p \in Bytes |-> IF p \in changed THEN <<m.id, p>> ELSE Content(file)[p]]
      BY <1>7, <2>2
    <2>4. Flat!Put(m.id)
      BY <1>2, <1>8, <1>10, <2>1, <2>3, Zenon DEF Flat!Put, Flat!Change
    <2>. QED BY <1>4, <2>4 DEF Flat!Next
  <1>11. CASE changed # {} /\ m.req.type = "DELETE"
    <2>1. todo[m.id] # NULL /\ todo[m.id].kind = "DELETE"
      BY <1>4, <1>5, <1>11, DistributedObjectAssumption DEF Kind, Todos
    <2>2. \A p \in Bytes : new(p) = NULL
      BY <1>11
    <2>. HIDE DEF new
    <2>3. Content(file)' = [p \in Bytes |-> IF p \in changed THEN NULL ELSE Content(file)[p]]
      BY <1>7, <2>2
    <2>4. Flat!Wipe(m.id)
      BY <1>2, <1>8, <1>11, <2>1, <2>3, Zenon DEF Flat!Wipe, Flat!Change
    <2>. QED BY <1>4, <2>4 DEF Flat!Next
  <1>. QED BY <1>2, <1>9, <1>10, <1>11

(* Every step of the object is one of the array or none.                  *)
LEMMA FlatNext == IInv /\ [Next]_vars => [Flat!Next]_(Flat!flatVars)
  <1>. SUFFICES ASSUME IInv, [Next]_vars PROVE [Flat!Next]_(Flat!flatVars)
    OBVIOUS
  <1>1. ASSUME NEW c \in Clients, Exec(c) PROVE Flat!Next
    BY <1>1, FlatBegin
  <1>2. ASSUME NEW c \in Clients, Work(c) PROVE UNCHANGED <<file, place, todo>>
    BY <1>2, Zenon DEF Work, AddPiece, NextOperation, Finish, Send, Receive, ReceiveIgnored, ReceiveDelete,
                ReceiveWrite, ReceiveRead, ReceiveStatus, Received, history
  <1>3. ASSUME NEW m \in net, Serve(m) PROVE [Flat!Next]_(Flat!flatVars)
    BY <1>3, FlatServe
  <1>4. CASE UNCHANGED vars
    BY <1>4, FlatStutter DEF vars
  <1>. QED BY <1>1, <1>2, <1>3, <1>4, FlatStutter DEF Next

(* The files on all servers, read through the layout, are one array of    *)
(* bytes: a write changes only the bytes it was asked to change, each once*)
(* and to its own data, although its pieces reach the servers in any order*)
(* and some fail.                                                         *)
THEOREM OneArray == Spec => ActsAsOneArray
  BY FlatInit, FlatNext, Invariance, PTL DEF Spec, ActsAsOneArray, Flat!Spec

-----------------------------------------------------------------------------
(* What is counted.                                                       *)

(* The operations of one request do not overlap; ChunksApart shows it of  *)
(* the operations j_distributed_object_read and _write make of one call.  *)
OpsApart ==
    \A c \in Clients : \A r \in Requests[c] : \A i, j \in DOMAIN r.ops :
        i # j => OpBytes(r.ops[i]) \cap OpBytes(r.ops[j]) = {}

(* The operations one call is cut into do not overlap.                     *)
LEMMA ChunksApart ==
    ASSUME NEW length \in Nat, NEW offset \in Nat,
           NEW i \in DOMAIN Chunks(length, offset), NEW j \in DOMAIN Chunks(length, offset), i # j
    PROVE  OpBytes(Chunks(length, offset)[i]) \cap OpBytes(Chunks(length, offset)[j]) = {}
  <1>. DEFINE M == max_operation_size
  <1>1. M \in Nat \ {0}
    BY DistributedObjectAssumption
  <1>2. PICK n \in Int : DOMAIN Chunks(length, offset) = 1 .. n
    <2>1. (length + M - 1) \div M \in Int
      BY <1>1
    <2>. QED BY <2>1 DEF Chunks
  <1>3. ASSUME NEW k \in 1 .. n
        PROVE  /\ Chunks(length, offset)[k].offset = offset + (k - 1) * M
               /\ Chunks(length, offset)[k].length <= M /\ Chunks(length, offset)[k].length \in Int
               /\ (k - 1) * M \in Nat /\ k - 1 \in Nat /\ k * M = (k - 1) * M + M
    <2>1. k - 1 \in Nat /\ (k - 1) * M \in Nat /\ k * M = (k - 1) * M + M
      BY <1>1
    <2>2. /\ Chunks(length, offset)[k].offset = offset + (k - 1) * M
          /\ Chunks(length, offset)[k].length = Smaller(length - (k - 1) * M, M)
      BY <1>2, Zenon DEF Chunks
    <2>. QED BY <1>1, <2>1, <2>2 DEF Smaller
  <1>4. ASSUME NEW k \in 1 .. n, NEW l \in 1 .. n, k < l
        PROVE  OpBytes(Chunks(length, offset)[k]) \cap OpBytes(Chunks(length, offset)[l]) = {}
    <2>1. k \in Nat /\ l - 1 \in Nat /\ k <= l - 1 /\ k * M <= (l - 1) * M
      BY <1>1, <1>3, <1>4, TimesGrows
    <2>. QED BY <1>1, <1>3, <2>1 DEF OpBytes
  <1>5. i < j \/ j < i
    BY <1>2
  <1>. QED BY <1>2, <1>4, <1>5

(* A write whose bytes the servers count.                                 *)
Counted(r) == r.type = "WRITE" /\ r.persistency # "NONE"

(* The bytes a read has copied, those of a request applied at server s,   *)
(* and those whose reply the client has.                                  *)
Filled(c) == {p \in Bytes : client[c].buffer[p] # NULL}
AppliedAt(id, s) == {p \in Applied(id) : place[p].index = s}
DoneAt(c) == {p \in Applied(IdOf(c)) : part[c][place[p].index].pc = "done"}

(* A read counts the bytes it copied, which come from servers that are    *)
(* done.                                                                  *)
ReadCount(c) ==
    client[c].req.type = "READ" =>
        /\ client[c].bytes = Cardinality(Filled(c))
        /\ client[c].pc # "idle" =>
              \A p \in Filled(c) : client[c].pc = "parallel" /\ part[c][place[p].index].pc = "done"

(* A write counts what the servers applied, server by server.             *)
WriteCount(c) ==
    Counted(client[c].req) =>
        /\ client[c].pc = "idle" => client[c].bytes = Cardinality(Applied(IdOf(c)))
        /\ client[c].pc # "idle" =>
              /\ client[c].bytes = Cardinality(DoneAt(c))
              /\ \A s \in Servers :
                    /\ part[c][s].pc \in {"none", "send"} => AppliedAt(IdOf(c), s) = {}
                    /\ part[c][s].reply # NULL =>
                          Total(part[c][s].reply) = Cardinality(AppliedAt(IdOf(c), s))

(* The counter of c is exact, and the pieces it cuts are apart.           *)
CountingOf(c) ==
    client[c].req # NULL =>
        /\ client[c].pc # "idle" => \A s \in Servers : Apart(part[c][s].pieces)
        /\ ReadCount(c)
        /\ WriteCount(c)

(* So are the pieces of a message, and none of them is applied before it  *)
(* is served.                                                             *)
CountingIn(m) ==
    /\ Apart(m.pieces)
    /\ Counted(m.req) => AppliedAt(m.id, m.server) = {}

(* The counters of all clients and all messages.                          *)
Counting ==
    /\ \A c \in Clients : CountingOf(c)
    /\ \A m \in net : CountingIn(m)

-----------------------------------------------------------------------------
(* Two disjoint sets are counted apart.                                   *)
LEMMA DisjointUnion ==
    ASSUME NEW S, IsFiniteSet(S), NEW T, IsFiniteSet(T), S \cap T = {}
    PROVE  /\ IsFiniteSet(S \cup T) /\ Cardinality(S \cup T) = Cardinality(S) + Cardinality(T)
           /\ Cardinality(S) \in Nat /\ Cardinality(T) \in Nat
  BY FS_Union, FS_EmptySet, FS_CardinalityType

(* The object has finitely many bytes.                                    *)
LEMMA FiniteBytes == IsFiniteSet(Bytes) /\ \A S \in SUBSET Bytes : IsFiniteSet(S) /\ Cardinality(S) \in Nat
  <1>1. IsFiniteSet(Bytes)
    BY DistributedObjectAssumption, FS_Interval DEF Bytes
  <1>. QED BY <1>1, FS_Subset, FS_CardinalityType

(* What has been applied of a request is a part of the object.             *)
LEMMA AppliedBytes ==
    ASSUME IInv, NEW id \in Ids
    PROVE  /\ Applied(id) \subseteq Bytes
           /\ \A s : AppliedAt(id, s) \subseteq Bytes /\ AppliedAt(id, s) \subseteq Applied(id)
  <1>1. issued[id] = NULL \/ issued[id] \in AllRequests
    BY DEF IInv, TypeOK
  <1>2. issued[id] \in AllRequests => Reach(issued[id]) \subseteq Bytes
    BY CoveredBytes DEF Reach
  <1>. QED BY <1>1, <1>2 DEF Applied, AppliedAt

(* A client waits for the reply to a write that is counted.               *)
LEMMA CountedExpects ==
    ASSUME NEW r \in AllRequests, Counted(r) PROVE Expects(r) /\ r.type = "WRITE"
  <1>1. r.persistency \in Persistencies
    BY RequestType DEF AllRequests
  <1>. QED BY <1>1 DEF Counted, Expects, Persistencies

(* Nothing is counted at first.                                           *)
LEMMA InitCounting == Init => Counting
  <1>. SUFFICES ASSUME Init PROVE Counting
    OBVIOUS
  <1>1. net = {} /\ \A c \in Clients : client[c].req = NULL
    BY RestingType DEF Init
  <1>. QED BY <1>1 DEF Counting, CountingOf

(* Who takes no part in a step.                                            *)
LEMMA CountingBystander ==
    ASSUME NEW c \in Clients, client'[c] = client[c], part'[c] = part[c], UNCHANGED place,
           client[c].req # NULL => Applied(IdOf(c))' = Applied(IdOf(c)), CountingOf(c)
    PROVE  CountingOf(c)'
  <1>1. client[c].req # NULL => DoneAt(c)' = DoneAt(c) /\ \A s : AppliedAt(IdOf(c), s)' = AppliedAt(IdOf(c), s)
    BY DEF DoneAt, AppliedAt
  <1>2. Filled(c)' = Filled(c)
    BY DEF Filled
  <1>. QED BY <1>1, <1>2 DEF CountingOf, ReadCount, WriteCount

(* A step of one client changes only its own count.                       *)
LEMMA CountingLocal ==
    ASSUME IInv, Counting, NEW c \in Clients, UNCHANGED <<place, todo, issued>>,
           \A d \in Clients \ {c} : client'[d] = client[d] /\ part'[d] = part[d],
           \A m \in net' : m \in net \/ CountingIn(m)',
           CountingOf(c)'
    PROVE  Counting'
  <1>1. ASSUME NEW d \in Clients PROVE CountingOf(d)'
    <2>1. CASE d = c
      BY <2>1
    <2>2. CASE d # c
      <3>1. IdOf(d)' = IdOf(d)
        BY <2>2 DEF IdOf
      <3>2. Applied(IdOf(d))' = Applied(IdOf(d))
        BY <3>1 DEF Applied
      <3>. QED BY <2>2, <3>2, CountingBystander DEF Counting
    <2>. QED BY <2>1, <2>2
  <1>2. ASSUME NEW m \in net PROVE CountingIn(m)'
    <2>1. CountingIn(m)
      BY DEF Counting
    <2>2. Applied(m.id)' = Applied(m.id)
      BY DEF Applied
    <2>. QED BY <2>1, <2>2 DEF CountingIn, AppliedAt
  <1>. QED BY <1>1, <1>2 DEF Counting

-----------------------------------------------------------------------------
(* The counts of a client that cuts and sends.                            *)

(* What a client counts does not depend on where it cuts and sends.        *)
LEMMA WorkingCount ==
    ASSUME IInv, NEW c \in Clients, client[c].req # NULL, CountingOf(c), client[c].pc # "idle",
           UNCHANGED <<place, todo, issued>>,
           client'[c].n = client[c].n, client'[c].req = client[c].req,
           client'[c].buffer = client[c].buffer, client'[c].pc \in {client[c].pc, "parallel"},
           client[c].req.type = "READ" \/ Counted(client[c].req) => client'[c].bytes = client[c].bytes,
           \A s \in Servers : /\ Apart(part'[c][s].pieces)
                              /\ part'[c][s].reply = part[c][s].reply
                              /\ part'[c][s].pc = "done" <=> part[c][s].pc = "done"
                                 \/ (~Counted(client[c].req) /\ client[c].req.type # "READ" /\ part'[c][s].pc = "done")
                              /\ part'[c][s].pc \in {"none", "send"} => part[c][s].pc \in {"none", "send"}
    PROVE  CountingOf(c)'
  <1>. DEFINE r == client[c].req
  <1>1. /\ IdOf(c)' = IdOf(c) /\ Filled(c)' = Filled(c)
    BY DEF IdOf, Filled
  <1>2. /\ Applied(IdOf(c))' = Applied(IdOf(c)) /\ \A s : AppliedAt(IdOf(c), s)' = AppliedAt(IdOf(c), s)
    BY <1>1 DEF Applied, AppliedAt
  <1>3. IdOf(c) \in Ids
    BY AtWork
  <1>4. Applied(IdOf(c)) \subseteq Bytes /\ \A p \in Bytes : place[p].index \in Servers
    BY <1>3, AppliedBytes DEF IInv, TypeOK
  <1>5. Counted(r) \/ r.type = "READ" => \A p \in Bytes :
           part'[c][place[p].index].pc = "done" <=> part[c][place[p].index].pc = "done"
    BY <1>4
  <1>6. Counted(r) => DoneAt(c)' = DoneAt(c)
    BY <1>2, <1>4, <1>5 DEF DoneAt
  <1>7. client'[c].pc # "idle"
    OBVIOUS
  <1>8. ReadCount(c)'
    <2>1. CASE r.type = "READ"
      <3>1. ASSUME NEW p \in Filled(c)
            PROVE  client'[c].pc = "parallel" /\ part'[c][place[p].index].pc = "done"
        <4>1. client[c].pc = "parallel" /\ part[c][place[p].index].pc = "done" /\ p \in Bytes
          BY <2>1 DEF CountingOf, ReadCount, Filled
        <4>. QED BY <1>5, <2>1, <4>1
      <3>2. client[c].bytes = Cardinality(Filled(c))
        BY <2>1 DEF CountingOf, ReadCount
      <3>. QED BY <1>1, <2>1, <3>1, <3>2 DEF ReadCount
    <2>2. CASE r.type # "READ"
      BY <2>2 DEF ReadCount
    <2>. QED BY <2>1, <2>2
  <1>9. WriteCount(c)'
    <2>1. CASE Counted(r)
      <3>1. client[c].bytes = Cardinality(DoneAt(c))
        BY <2>1 DEF CountingOf, WriteCount
      <3>2. ASSUME NEW s \in Servers
            PROVE  /\ part'[c][s].pc \in {"none", "send"} => AppliedAt(IdOf(c), s) = {}
                   /\ part'[c][s].reply # NULL =>
                        Total(part'[c][s].reply) = Cardinality(AppliedAt(IdOf(c), s))
        BY <2>1 DEF CountingOf, WriteCount
      <3>. QED BY <1>1, <1>2, <1>6, <1>7, <2>1, <3>1, <3>2 DEF WriteCount
    <2>2. CASE ~Counted(r)
      BY <2>2 DEF WriteCount
    <2>. QED BY <2>1, <2>2
  <1>. QED BY <1>8, <1>9 DEF CountingOf

(* A piece of bytes not cut before stays apart from the others.           *)
LEMMA AppendApart ==
    ASSUME NEW pieces \in Seq(Pieces), NEW new \in Pieces, Apart(pieces),
           AllBytes(pieces) \cap BytesOf(new) = {}
    PROVE  Apart(Append(pieces, new))
  <1>. DEFINE all == Append(pieces, new)
  <1>1. \A k \in DOMAIN all : (k \in DOMAIN pieces /\ all[k] = pieces[k])
                              \/ (k = Len(pieces) + 1 /\ all[k] = new)
    BY AppendBytes
  <1>. SUFFICES ASSUME NEW k \in DOMAIN all, NEW l \in DOMAIN all, k # l
                PROVE  BytesOf(all[k]) \cap BytesOf(all[l]) = {}
    BY Zenon DEF Apart
  <1>2. \A i \in DOMAIN pieces : BytesOf(pieces[i]) \cap BytesOf(new) = {}
    BY DEF AllBytes
  <1>. HIDE DEF all
  <1>3. CASE k \in DOMAIN pieces /\ l \in DOMAIN pieces /\ all[k] = pieces[k] /\ all[l] = pieces[l]
    BY <1>3 DEF Apart
  <1>. QED BY <1>1, <1>2, <1>3

(* A piece that is cut next has no byte in common with the earlier ones.   *)
LEMMA NewPieceApart ==
    ASSUME OpsApart, IInv, NEW c \in Clients, client[c].pc = "distribute", handle[c].length > 0,
           NEW new, new = [length |-> Piece(handle[c]).length, offset |-> Piece(handle[c]).offset,
                           data |-> client[c].data]
    PROVE  CutSoFar(c) \cap BytesOf(new) = {}
  <1>. DEFINE r == client[c].req
              op == client[c].op
              data == client[c].data
  <1>1. /\ r # NULL /\ op \in DOMAIN r.ops /\ op \in Nat /\ r.ops \in Seq([length : Nat, offset : Nat])
        /\ data \in Nat /\ r.ops[op].offset \in Nat
    BY Operation
  <1>2. r \in Requests[c]
    BY <1>1, AtWork
  <1>3. /\ BytesOf(new) = data .. data + new.length - 1
        /\ BytesOf(new) \subseteq OpBytes(r.ops[op])
    BY NextPiece
  <1>4. ASSUME NEW i \in 1 .. op - 1 PROVE OpBytes(r.ops[i]) \cap OpBytes(r.ops[op]) = {}
    <2>1. i \in DOMAIN r.ops /\ i # op
      <3>1. DOMAIN r.ops = 1 .. Len(r.ops) /\ Len(r.ops) \in Nat
        <4>1. PICK S, o : o \in Seq(S) /\ o = r.ops
          BY <1>1, Zenon
        <4>. QED BY <4>1
      <3>2. \A n, l \in Nat : n \in 1 .. l => \A j \in 1 .. n - 1 : j \in 1 .. l /\ j # n
        OBVIOUS
      <3>3. op \in Nat /\ op \in 1 .. Len(r.ops) /\ i \in 1 .. op - 1
        BY <1>1, <3>1
      <3>. HIDE DEF r, op
      <3>. QED BY <3>1, <3>2, <3>3
    <2>. QED BY <1>1, <1>2, <2>1, Zenon DEF OpsApart
  <1>5. (r.ops[op].offset .. data - 1) \cap (data .. data + new.length - 1) = {}
    BY <1>1
  <1>6. CutSoFar(c) = (UNION {OpBytes(r.ops[i]) : i \in 1 .. op - 1}) \cup (r.ops[op].offset .. data - 1)
    BY DEF CutSoFar, CutUpTo
  <1>7. ASSUME NEW x \in CutSoFar(c), x \in BytesOf(new) PROVE FALSE
    <2>1. CASE x \in r.ops[op].offset .. data - 1
      BY <1>3, <1>5, <1>7, <2>1
    <2>2. CASE x \in UNION {OpBytes(r.ops[i]) : i \in 1 .. op - 1}
      <3>1. PICK i \in 1 .. op - 1 : x \in OpBytes(r.ops[i])
        BY <2>2
      <3>. QED BY <1>3, <1>4, <1>7, <3>1
    <2>. QED BY <1>6, <1>7, <2>1, <2>2
  <1>. QED BY <1>7

(* Cutting a piece keeps the counts.                                      *)
LEMMA AddPieceCounting ==
    ASSUME OpsApart, IInv, Counting, NEW c \in Clients, AddPiece(c) PROVE Counting'
  <1>. DEFINE d == handle[c]
              r == client[c].req
              i == Piece(d).index
              new == [length |-> Piece(d).length, offset |-> Piece(d).offset, data |-> client[c].data]
              pieces == Append(part[c][i].pieces, new)
  <1>1. /\ client[c].pc = "distribute" /\ d.length > 0 /\ UNCHANGED <<net, place, todo, issued>>
        /\ part' = [part EXCEPT ![c][i].pc = "send", ![c][i].pieces = Append(@, new)]
        /\ client' = [client EXCEPT ![c].data = @ + Piece(d).length,
                                    ![c].bytes = IF CountsAtOnce(r) THEN @ + Piece(d).length ELSE @]
    BY DEF AddPiece, history
  <1>2. /\ r # NULL /\ Distributing(c) /\ client \in [Clients -> ClientStates]
        /\ part \in [Clients -> [Servers -> PartStates]]
    BY <1>1, Operation DEF IInv, TypeOK
  <1>3. new \in Pieces /\ i \in Servers
    BY <1>1, NextPiece, Zenon
  <1>4. CountingOf(c) /\ \A s \in Servers : Apart(part[c][s].pieces)
    BY <1>1, <1>2, Zenon DEF Counting, CountingOf
  <1>5. Apart(pieces)
    <2>1. CutSoFar(c) \cap BytesOf(new) = {}
      BY <1>1, NewPieceApart
    <2>2. AllBytes(part[c][i].pieces) \subseteq CutSoFar(c)
      BY <1>2, <1>3 DEF Distributing
    <2>3. part[c][i].pieces \in Seq(Pieces)
      BY <1>2, <1>3 DEF PartStates
    <2>. HIDE DEF new
    <2>. QED BY <1>3, <1>4, <2>1, <2>2, <2>3, AppendApart
  <1>6. \A s \in Servers : part[c][s].pc \in {"none", "send"}
    BY <1>2 DEF Distributing
  <1>7. ~CountsAtOnce(r) \/ (~Counted(r) /\ r.type # "READ")
    BY DEF CountsAtOnce, Counted
  <1>. DEFINE L == Piece(d).length
              x == [client[c] EXCEPT !.data = client[c].data + L,
                                     !.bytes = IF CountsAtOnce(r) THEN client[c].bytes + L ELSE client[c].bytes]
  <1>71. client' = [client EXCEPT ![c] = x]
    BY <1>1, <1>2, Zenon
  <1>. HIDE DEF L
  <1>72. /\ x.n = client[c].n /\ x.req = r /\ x.buffer = client[c].buffer /\ x.pc = client[c].pc
         /\ ~CountsAtOnce(r) => x.bytes = client[c].bytes
    BY <1>2 DEF ClientStates
  <1>. HIDE DEF new, i, r, d, x
  <1>8. /\ client'[c].n = client[c].n /\ client'[c].req = r /\ client'[c].buffer = client[c].buffer
        /\ client'[c].pc = client[c].pc
        /\ ~CountsAtOnce(r) => client'[c].bytes = client[c].bytes
        /\ \A e \in Clients \ {c} : client'[e] = client[e] /\ part'[e] = part[e]
    BY <1>1, <1>2, <1>71, <1>72, Zenon
  <1>9. ASSUME NEW s \in Servers
        PROVE  /\ Apart(part'[c][s].pieces) /\ part'[c][s].reply = part[c][s].reply
               /\ part'[c][s].pc \in {"none", "send"}
    <2>1. part' = [part EXCEPT ![c][i].pc = "send", ![c][i].pieces = pieces]
      BY <1>1
    <2>. HIDE DEF pieces
    <2>2. part[c] \in [Servers -> PartStates] /\ part[c][i] \in PartStates
      BY <1>2, <1>3
    <2>3. CASE s = i
      BY <1>2, <1>3, <1>5, <2>1, <2>2, <2>3 DEF PartStates
    <2>4. CASE s # i
      BY <1>2, <1>3, <1>4, <1>6, <2>1, <2>2, <2>4
    <2>. QED BY <2>3, <2>4
  <1>10. CountingOf(c)'
    BY <1>1, <1>2, <1>4, <1>6, <1>7, <1>8, <1>9, WorkingCount, Zenon DEF r
  <1>. QED BY <1>1, <1>8, <1>10, CountingLocal, Zenon

(* Going on to the next operation keeps the counts.                       *)
LEMMA NextOperationCounting ==
    ASSUME IInv, Counting, NEW c \in Clients, NextOperation(c) PROVE Counting'
  <1>1. /\ client[c].pc = "distribute" /\ UNCHANGED <<part, net, place, todo, issued>>
        /\ \/ \E op, data : client' = [client EXCEPT ![c].op = op, ![c].data = data]
           \/ client' = [client EXCEPT ![c].pc = "parallel"]
    <2>1. client[c].pc = "distribute" /\ UNCHANGED <<part, net, place, todo, issued>>
      BY DEF NextOperation, history
    <2>2. CASE client[c].op + 1 <= Len(client[c].req.ops)
      <3>1. client' = [client EXCEPT ![c].op = client[c].op + 1,
                                     ![c].data = client[c].req.ops[client[c].op + 1].offset]
        BY <2>2 DEF NextOperation
      <3>. QED BY <2>1, <3>1, Zenon
    <2>3. CASE ~(client[c].op + 1 <= Len(client[c].req.ops))
      BY <2>1, <2>3 DEF NextOperation
    <2>. QED BY <2>2, <2>3, Zenon
  <1>2. client[c].req # NULL /\ client \in [Clients -> ClientStates]
    BY <1>1, Operation DEF IInv, TypeOK
  <1>3. CountingOf(c) /\ \A s \in Servers : Apart(part[c][s].pieces)
    BY <1>1, <1>2 DEF Counting, CountingOf
  <1>4. /\ client'[c].n = client[c].n /\ client'[c].req = client[c].req
        /\ client'[c].buffer = client[c].buffer /\ client'[c].bytes = client[c].bytes
        /\ client'[c].pc \in {client[c].pc, "parallel"}
        /\ \A e \in Clients \ {c} : client'[e] = client[e]
    <2>1. CASE \E op, data : client' = [client EXCEPT ![c].op = op, ![c].data = data]
      <3>1. PICK op, data : client' = [client EXCEPT ![c].op = op, ![c].data = data]
        BY <2>1, Zenon
      <3>. QED BY <1>2, <3>1 DEF ClientStates
    <2>2. CASE client' = [client EXCEPT ![c].pc = "parallel"]
      BY <1>2, <2>2 DEF ClientStates
    <2>. QED BY <1>1, <2>1, <2>2, Zenon
  <1>5. CountingOf(c)'
    BY <1>1, <1>2, <1>3, <1>4, WorkingCount
  <1>. QED BY <1>1, <1>4, <1>5, CountingLocal

(* Sending a message keeps the counts.                                    *)
LEMMA SendCounting ==
    ASSUME IInv, Counting, NEW c \in Clients, NEW s \in Servers, Send(c, s) PROVE Counting'
  <1>. DEFINE r == client[c].req
              next == IF Expects(r) THEN "wait" ELSE "done"
  <1>0. PICK m0 : m0 = [server |-> s, id |-> IdOf(c), req |-> r, pieces |-> part[c][s].pieces]
    BY Zenon
  <1>1. /\ client[c].pc = "parallel" /\ part[c][s].pc = "send" /\ net' = net \cup {m0}
        /\ part' = [part EXCEPT ![c][s].pc = next]
        /\ UNCHANGED <<client, place, todo, issued>>
    BY <1>0 DEF Send, history
  <1>2. /\ r # NULL /\ part \in [Clients -> [Servers -> PartStates]]
    BY <1>1 DEF IInv, TypeOK, Numbered, NumberedOf
  <1>3. CountingOf(c) /\ \A t \in Servers : Apart(part[c][t].pieces)
    BY <1>1, <1>2 DEF Counting, CountingOf
  <1>4. Counted(r) \/ r.type = "READ" => next = "wait"
    <2>1. r \in AllRequests
      BY <1>2, AtWork
    <2>. QED BY <2>1, CountedExpects DEF Expects
  <1>. HIDE DEF next
  <1>5. ASSUME NEW t \in Servers
        PROVE  /\ part'[c][t].pieces = part[c][t].pieces /\ part'[c][t].reply = part[c][t].reply
               /\ part'[c][t].pc = IF t = s THEN next ELSE part[c][t].pc
    BY <1>1, <1>2 DEF PartStates
  <1>6. next \in {"wait", "done"}
    BY DEF next
  <1>7. CountingOf(c)'
    <2>1. ASSUME NEW t \in Servers
          PROVE  /\ Apart(part'[c][t].pieces)
                 /\ part'[c][t].reply = part[c][t].reply
                 /\ part'[c][t].pc = "done" <=> part[c][t].pc = "done"
                     \/ (~Counted(r) /\ r.type # "READ" /\ part'[c][t].pc = "done")
                 /\ part'[c][t].pc \in {"none", "send"} => part[c][t].pc \in {"none", "send"}
      BY <1>1, <1>3, <1>4, <1>5, <1>6
    <2>. QED BY <1>1, <1>2, <1>3, <2>1, WorkingCount
  <1>8. CountingIn(m0)'
    <2>1. Apart(m0.pieces)
      BY <1>0, <1>3
    <2>2. Counted(r) => AppliedAt(IdOf(c), s) = {}
      BY <1>1, <1>2, <1>3 DEF CountingOf, WriteCount
    <2>3. AppliedAt(m0.id, m0.server)' = AppliedAt(IdOf(c), s)
      BY <1>0, <1>1 DEF AppliedAt, Applied
    <2>. QED BY <1>0, <2>1, <2>2, <2>3 DEF CountingIn
  <1>9. \A e \in Clients \ {c} : client'[e] = client[e] /\ part'[e] = part[e]
    BY <1>1, <1>2
  <1>. QED BY <1>1, <1>7, <1>8, <1>9, CountingLocal

(* At the end what the servers that are done applied is all that was      *)
(* applied.                                                               *)
LEMMA FinishCounting ==
    ASSUME IInv, Counting, NEW c \in Clients, Finish(c) PROVE Counting'
  <1>1. /\ client[c].pc = "parallel" /\ \A s \in Servers : part[c][s].pc \in {"none", "done"}
        /\ client' = [client EXCEPT ![c].pc = "idle"]
        /\ part' = [part EXCEPT ![c] = [s \in Servers |-> NoPart]]
        /\ UNCHANGED <<net, place, todo, issued>>
    BY DEF Finish, history
  <1>2. /\ client[c].req # NULL /\ client \in [Clients -> ClientStates]
        /\ part \in [Clients -> [Servers -> PartStates]]
    BY <1>1 DEF IInv, TypeOK, Numbered, NumberedOf
  <1>3. CountingOf(c) /\ IdOf(c) \in Ids
    BY <1>2, AtWork DEF Counting
  <1>4. /\ client'[c].n = client[c].n /\ client'[c].req = client[c].req /\ client'[c].pc = "idle"
        /\ client'[c].buffer = client[c].buffer /\ client'[c].bytes = client[c].bytes
        /\ \A e \in Clients \ {c} : client'[e] = client[e] /\ part'[e] = part[e]
    BY <1>1, <1>2 DEF ClientStates
  <1>5. IdOf(c)' = IdOf(c) /\ Filled(c)' = Filled(c)
    BY <1>4 DEF IdOf, Filled
  <1>6. Applied(IdOf(c))' = Applied(IdOf(c))
    BY <1>1, <1>5 DEF Applied
  <1>7. ReadCount(c)'
    BY <1>2, <1>3, <1>4, <1>5 DEF CountingOf, ReadCount
  <1>8. WriteCount(c)'
    <2>1. CASE Counted(client[c].req)
      <3>1. /\ client[c].bytes = Cardinality(DoneAt(c))
            /\ \A s \in Servers : part[c][s].pc = "none" => AppliedAt(IdOf(c), s) = {}
        BY <1>1, <1>2, <1>3, <2>1 DEF CountingOf, WriteCount
      <3>2. ASSUME NEW p \in Applied(IdOf(c)) PROVE part[c][place[p].index].pc = "done"
        <4>1. p \in Bytes /\ place[p].index \in Servers
          BY <1>3, AppliedBytes DEF IInv, TypeOK
        <4>2. p \in AppliedAt(IdOf(c), place[p].index)
          BY DEF AppliedAt
        <4>. QED BY <1>1, <3>1, <4>1, <4>2
      <3>3. DoneAt(c) = Applied(IdOf(c))
        BY <3>2 DEF DoneAt
      <3>. QED BY <1>4, <1>5, <1>6, <3>1, <3>3 DEF WriteCount
    <2>2. CASE ~Counted(client[c].req)
      BY <1>4, <2>2 DEF WriteCount
    <2>. QED BY <2>1, <2>2
  <1>9. CountingOf(c)'
    BY <1>4, <1>7, <1>8 DEF CountingOf
  <1>. QED BY <1>1, <1>4, <1>9, CountingLocal

-----------------------------------------------------------------------------
(* The counts of a client that receives.                                  *)

(* A reply is counted.                                                     *)
LEMMA ReceivedCounting ==
    ASSUME IInv, Counting, NEW c \in Clients, NEW s \in Servers, NEW x \in ClientStates,
           client[c].req # NULL, part[c][s].pc = "wait", part[c][s].reply # NULL,
           Received(c, s, x), x.pc = client[c].pc, x.n = client[c].n, x.req = client[c].req,
           x.req.type = "READ" =>
               /\ x.bytes = Cardinality({p \in Bytes : x.buffer[p] # NULL})
               /\ \A p \in Bytes : x.buffer[p] # NULL => client[c].buffer[p] # NULL \/ place[p].index = s,
           Counted(x.req) => x.bytes = client[c].bytes + Total(part[c][s].reply)
    PROVE  Counting'
  <1>. DEFINE r == client[c].req
  <1>1. /\ client' = [client EXCEPT ![c] = x]
        /\ part' = [part EXCEPT ![c][s].pc = "done", ![c][s].reply = NULL]
        /\ UNCHANGED <<net, place, todo, issued>>
    BY DEF Received, history
  <1>2. /\ client \in [Clients -> ClientStates] /\ part \in [Clients -> [Servers -> PartStates]]
    BY DEF IInv, TypeOK
  <1>3. client[c].pc = "parallel"
    <2>1. WorkingOf(c) /\ client[c] \in ClientStates
      BY <1>2 DEF IInv, Working
    <2>2. client[c].pc # "idle"
      BY <2>1, RestingType DEF WorkingOf
    <2>3. client[c].pc # "distribute"
      BY <2>1 DEF WorkingOf, Distributing
    <2>. QED BY <2>1, <2>2, <2>3 DEF ClientStates
  <1>4. CountingOf(c) /\ IdOf(c) \in Ids
    BY AtWork DEF Counting
  <1>5. client'[c] = x /\ \A e \in Clients \ {c} : client'[e] = client[e] /\ part'[e] = part[e]
    BY <1>1, <1>2
  <1>6. ASSUME NEW t \in Servers
        PROVE  /\ part'[c][t].pieces = part[c][t].pieces
               /\ part'[c][t].pc = IF t = s THEN "done" ELSE part[c][t].pc
               /\ part'[c][t].reply = IF t = s THEN NULL ELSE part[c][t].reply
    BY <1>1, <1>2 DEF PartStates
  <1>7. IdOf(c)' = IdOf(c)
    BY <1>5 DEF IdOf
  <1>8. Applied(IdOf(c))' = Applied(IdOf(c)) /\ \A t : AppliedAt(IdOf(c), t)' = AppliedAt(IdOf(c), t)
    BY <1>1, <1>7 DEF Applied, AppliedAt
  <1>9. Applied(IdOf(c)) \subseteq Bytes /\ \A p \in Bytes : place[p].index \in Servers
    BY <1>4, AppliedBytes DEF IInv, TypeOK
  <1>10. ReadCount(c)'
    <2>1. CASE r.type = "READ"
      <3>1. ASSUME NEW p \in Filled(c)'
            PROVE  client'[c].pc = "parallel" /\ part'[c][place[p].index].pc = "done"
        <4>1. p \in Bytes /\ x.buffer[p] # NULL
          BY <1>5 DEF Filled
        <4>2. place[p].index \in Servers /\ (p \in Filled(c) \/ place[p].index = s)
          BY <1>9, <2>1, <4>1 DEF Filled
        <4>3. p \in Filled(c) => part[c][place[p].index].pc = "done"
          BY <1>3, <1>4, <2>1 DEF CountingOf, ReadCount
        <4>. QED BY <1>3, <1>5, <1>6, <4>2, <4>3
      <3>2. Filled(c)' = {p \in Bytes : x.buffer[p] # NULL}
        BY <1>5 DEF Filled
      <3>3. \A p \in Filled(c)' : client'[c].pc = "parallel" /\ part'[c][place'[p].index].pc = "done"
        BY <1>1, <3>1, Zenon
      <3>. QED BY <1>5, <2>1, <3>2, <3>3 DEF ReadCount
    <2>2. CASE r.type # "READ"
      BY <1>5, <2>2 DEF ReadCount
    <2>. QED BY <2>1, <2>2
  <1>11. WriteCount(c)'
    <2>1. CASE Counted(r)
      <3>. DEFINE here == AppliedAt(IdOf(c), s)
      <3>1. /\ client[c].bytes = Cardinality(DoneAt(c)) /\ Total(part[c][s].reply) = Cardinality(here)
            /\ \A t \in Servers : part[c][t].pc \in {"none", "send"} => AppliedAt(IdOf(c), t) = {}
            /\ \A t \in Servers : part[c][t].reply # NULL =>
                  Total(part[c][t].reply) = Cardinality(AppliedAt(IdOf(c), t))
        BY <1>3, <1>4, <2>1 DEF CountingOf, WriteCount
      <3>2. DoneAt(c) \cap here = {}
        BY DEF DoneAt, AppliedAt
      <3>3. DoneAt(c)' = DoneAt(c) \cup here
        <4>1. \A p \in Applied(IdOf(c)) :
                 part'[c][place[p].index].pc = IF place[p].index = s THEN "done" ELSE part[c][place[p].index].pc
          BY <1>6, <1>9
        <4>. QED BY <1>1, <1>8, <4>1, Zenon DEF DoneAt, AppliedAt
      <3>4. DoneAt(c) \in SUBSET Bytes /\ here \in SUBSET Bytes
        BY <1>4, AppliedBytes DEF DoneAt
      <3>5. Cardinality(DoneAt(c) \cup here) = Cardinality(DoneAt(c)) + Cardinality(here)
        BY <3>2, <3>4, FiniteBytes, DisjointUnion, Zenon
      <3>6. client'[c].bytes = Cardinality(DoneAt(c)')
        BY <1>5, <2>1, <3>1, <3>3, <3>5
      <3>7. ASSUME NEW t \in Servers
            PROVE  /\ part'[c][t].pc \in {"none", "send"} => AppliedAt(IdOf(c), t) = {}
                   /\ part'[c][t].reply # NULL =>
                         Total(part'[c][t].reply) = Cardinality(AppliedAt(IdOf(c), t))
        BY <1>6, <3>1
      <3>. QED BY <1>3, <1>5, <1>7, <1>8, <3>6, <3>7 DEF WriteCount
    <2>2. CASE ~Counted(r)
      BY <1>5, <2>2 DEF WriteCount
    <2>. QED BY <2>1, <2>2
  <1>12. \A t \in Servers : Apart(part'[c][t].pieces)
    BY <1>3, <1>4, <1>6 DEF CountingOf
  <1>13. CountingOf(c)'
    BY <1>10, <1>11, <1>12 DEF CountingOf
  <1>. QED BY <1>1, <1>5, <1>13, CountingLocal, Zenon

(* Replies that no count depends on.                                       *)
LEMMA ReceiveOtherCounting ==
    ASSUME IInv, Counting, NEW c \in Clients, NEW s \in Servers,
           ReceiveIgnored(c, s) \/ ReceiveDelete(c, s) \/ ReceiveStatus(c, s)
    PROVE  Counting'
  <1>1. PICK x, types : /\ Waiting(c, s, types) /\ Received(c, s, x)
                        /\ types \cap {"READ", "WRITE"} = {}
                        /\ \/ x = client[c]
                           \/ x = [client[c] EXCEPT !.ret = @ /\ part[c][s].reply[1]]
                           \/ types = {"STATUS"} /\ x = [client[c] EXCEPT !.bytes = @ + part[c][s].reply[1]]
    <2>1. CASE ReceiveIgnored(c, s)
      <3>1. Waiting(c, s, {"CREATE", "SYNC"}) /\ Received(c, s, client[c])
        BY <2>1 DEF ReceiveIgnored
      <3>2. {"CREATE", "SYNC"} \cap {"READ", "WRITE"} = {}
        OBVIOUS
      <3>. QED BY <3>1, <3>2
    <2>2. CASE ReceiveDelete(c, s)
      <3>1. Waiting(c, s, {"DELETE"}) /\ Received(c, s, [client[c] EXCEPT !.ret = @ /\ part[c][s].reply[1]])
        BY <2>2 DEF ReceiveDelete
      <3>2. {"DELETE"} \cap {"READ", "WRITE"} = {}
        OBVIOUS
      <3>. QED BY <3>1, <3>2
    <2>3. CASE ReceiveStatus(c, s)
      <3>1. Waiting(c, s, {"STATUS"}) /\ Received(c, s, [client[c] EXCEPT !.bytes = @ + part[c][s].reply[1]])
        BY <2>3 DEF ReceiveStatus
      <3>2. {"STATUS"} \cap {"READ", "WRITE"} = {}
        OBVIOUS
      <3>. QED BY <3>1, <3>2
    <2>. QED BY <2>1, <2>2, <2>3
  <1>2. /\ client[c] \in ClientStates /\ client[c].req # NULL /\ client[c].req.type \in types
        /\ part[c][s].pc = "wait" /\ part[c][s].reply # NULL /\ Answers(c, s)
    BY <1>1, WaitingAnswers
  <1>3. x \in ClientStates /\ x.pc = client[c].pc /\ x.n = client[c].n /\ x.req = client[c].req
    <2>1. CASE x = client[c]
      BY <1>2, <2>1
    <2>2. CASE x = [client[c] EXCEPT !.ret = @ /\ part[c][s].reply[1]]
      BY <1>2, <2>2, Zenon DEF ClientStates
    <2>3. CASE types = {"STATUS"} /\ x = [client[c] EXCEPT !.bytes = @ + part[c][s].reply[1]]
      <3>0. client[c].req.type = "STATUS"
        BY <1>2, <2>3
      <3>1. part[c][s].reply[1] \in Nat
        BY <1>2, <3>0 DEF Answers
      <3>2. client[c].bytes + part[c][s].reply[1] \in Nat
        BY <1>2, <3>1 DEF ClientStates
      <3>. QED BY <1>2, <2>3, <3>2 DEF ClientStates
    <2>. QED BY <1>1, <2>1, <2>2, <2>3
  <1>4. x.req.type # "READ" /\ ~Counted(x.req)
    BY <1>1, <1>2, <1>3 DEF Counted
  <1>. QED BY <1>1, <1>2, <1>3, <1>4, ReceivedCounting, Zenon

(* The reply to a write adds what its server applied.                     *)
LEMMA ReceiveWriteCounting ==
    ASSUME IInv, Counting, NEW c \in Clients, NEW s \in Servers, ReceiveWrite(c, s)
    PROVE  Counting'
  <1>. DEFINE reply == part[c][s].reply
              x == IF reply = <<>> THEN [client[c] EXCEPT !.ret = FALSE]
                   ELSE [client[c] EXCEPT !.bytes = @ + Total(reply)]
  <1>1. Waiting(c, s, {"WRITE"}) /\ Received(c, s, x)
    BY DEF ReceiveWrite
  <1>2. /\ client[c] \in ClientStates /\ client[c].req # NULL /\ client[c].req.type = "WRITE"
        /\ part[c][s].pc = "wait" /\ reply # NULL /\ Answers(c, s)
    BY <1>1, WaitingAnswers
  <1>3. PICK t \in Nat : t = Total(reply)
    <2>1. reply \in Seq(Nat)
      BY <1>2 DEF Answers
    <2>. QED BY <2>1, SeqTotal
  <1>4. client[c].bytes \in Nat
    BY <1>2 DEF ClientStates
  <1>5. reply = <<>> => t = 0
    BY <1>3, NothingCounted
  <1>6. /\ x \in ClientStates /\ x.pc = client[c].pc /\ x.n = client[c].n /\ x.req = client[c].req
        /\ x.bytes = client[c].bytes + t
    <2>1. CASE reply = <<>>
      <3>1. x = [client[c] EXCEPT !.ret = FALSE] /\ t = 0
        BY <1>5, <2>1
      <3>. HIDE DEF x, reply
      <3>2. /\ x \in ClientStates /\ x.pc = client[c].pc /\ x.n = client[c].n /\ x.req = client[c].req
            /\ x.bytes = client[c].bytes
        BY <1>2, <3>1, Zenon DEF ClientStates
      <3>3. client[c].bytes = client[c].bytes + t
        BY <1>4, <3>1
      <3>. QED BY <3>2, <3>3
    <2>2. CASE reply # <<>>
      <3>1. x = [client[c] EXCEPT !.bytes = client[c].bytes + t]
        BY <1>3, <2>2
      <3>2. client[c].bytes + t \in Nat
        BY <1>3, <1>4
      <3>. HIDE DEF x, reply
      <3>. QED BY <1>2, <1>4, <3>1, <3>2 DEF ClientStates
    <2>. QED BY <2>1, <2>2
  <1>. HIDE DEF x
  <1>. QED BY <1>1, <1>2, <1>3, <1>6, ReceivedCounting, Zenon

(* The reply to a read adds the bytes copied, none of which were there    *)
(* before.                                                                *)
LEMMA ReceiveReadCounting ==
    ASSUME IInv, Counting, NEW c \in Clients, NEW s \in Servers, ReceiveRead(c, s)
    PROVE  Counting'
  <1>. DEFINE reply == part[c][s].reply
              pieces == part[c][s].pieces
              At(p) == {kj \in (DOMAIN reply) \X Bytes :
                           kj[2] \in DOMAIN reply[kj[1]] /\ p = BufferPosition(pieces[kj[1]], kj[2])}
              value(p) == IF At(p) = {} THEN client[c].buffer[p]
                          ELSE LET kj == CHOOSE x \in At(p) : TRUE IN <<reply[kj[1]][kj[2]]>>
              counts == [k \in DOMAIN reply |-> Cardinality(DOMAIN reply[k])]
              total == Total(counts)
              x == IF reply = <<>> THEN [client[c] EXCEPT !.ret = FALSE]
                   ELSE [client[c] EXCEPT !.bytes = @ + total, !.buffer = [p \in Bytes |-> value(p)]]
              S == [k \in DOMAIN reply |-> {pieces[k].data + j : j \in DOMAIN reply[k]}]
              new == UNION {S[k] : k \in DOMAIN reply}
  <1>1. Waiting(c, s, {"READ"}) /\ Received(c, s, x)
    BY Zenon DEF ReceiveRead
  <1>2. /\ client[c] \in ClientStates /\ client[c].req # NULL /\ client[c].req.type = "READ"
        /\ part[c][s].pc = "wait" /\ part[c][s].reply # NULL /\ Answers(c, s)
    <2>. HIDE DEF x
    <2>. QED BY <1>1, WaitingAnswers
  <1>3. reply \in Seq(Fragments)
    BY <1>2 DEF Answers
  <1>4. IsFiniteSet(DOMAIN reply)
    <2>1. DOMAIN reply = 1 .. Len(reply) /\ Len(reply) \in Int /\ 1 \in Int
      BY <1>3
    <2>2. IsFiniteSet(1 .. Len(reply))
      BY <2>1, FS_Interval
    <2>. QED BY <2>1, <2>2
  <1>5. ASSUME NEW k \in DOMAIN reply
        PROVE  /\ k \in DOMAIN pieces /\ pieces[k] \in Pieces /\ IsFiniteSet(DOMAIN reply[k])
               /\ DOMAIN reply[k] \subseteq Bytes
               /\ \A j \in DOMAIN reply[k] :
                     LET p == BufferPosition(pieces[k], j)
                     IN /\ p \in Bytes /\ place[p].index = s
                        /\ j \in Nat /\ j < pieces[k].length /\ reply[k][j] \in Values
    BY <1>1, ReadReply, Zenon
  <1>. HIDE DEF reply, pieces
  <1>6. ASSUME NEW k \in DOMAIN reply
        PROVE  /\ IsFiniteSet(S[k]) /\ counts[k] = Cardinality(S[k])
               /\ S[k] \subseteq BytesOf(pieces[k]) /\ S[k] \subseteq Bytes
               /\ \A p \in S[k] : place[p].index = s
    <2>1. PICK data \in Nat, length \in Nat : data = pieces[k].data /\ length = pieces[k].length
      BY <1>5 DEF Pieces
    <2>2. S[k] = {data + j : j \in DOMAIN reply[k]}
      BY <2>1
    <2>3. counts[k] = Cardinality(DOMAIN reply[k])
      OBVIOUS
    <2>4. DOMAIN reply[k] \subseteq Int
      BY <1>5
    <2>5. IsFiniteSet({data + j : j \in DOMAIN reply[k]})
          /\ Cardinality({data + j : j \in DOMAIN reply[k]}) = Cardinality(DOMAIN reply[k])
      <3>1. PICK T : T = DOMAIN reply[k]
        OBVIOUS
      <3>2. IsFiniteSet(T) /\ T \subseteq Int /\ data \in Int
        BY <1>5, <2>1, <2>4, <3>1
      <3>3. IsFiniteSet({data + j : j \in T}) /\ Cardinality({data + j : j \in T}) = Cardinality(T)
        BY <3>2, ShiftCardinality, Zenon
      <3>. QED BY <3>1, <3>3, Zenon
    <2>6. BytesOf(pieces[k]) = data .. data + length - 1
      BY <2>1 DEF BytesOf
    <2>7. \A j \in DOMAIN reply[k] : data + j \in Bytes /\ place[data + j].index = s /\ j \in Nat /\ j < length
      BY <1>5, <2>1 DEF BufferPosition
    <2>. HIDE DEF S, counts
    <2>. QED BY <2>1, <2>2, <2>3, <2>5, <2>6, <2>7
  <1>7. ASSUME NEW k \in DOMAIN reply, NEW l \in DOMAIN reply, k # l PROVE S[k] \cap S[l] = {}
    <2>1. Apart(pieces)
      <3>1. CountingOf(c) /\ client[c].pc # "idle"
        BY <1>2, RestingType DEF Counting, IInv, Working, WorkingOf
      <3>. QED BY <1>2, <3>1 DEF CountingOf, pieces
    <2>2. BytesOf(pieces[k]) \cap BytesOf(pieces[l]) = {}
      BY <1>5, <1>7, <2>1 DEF Apart
    <2>. HIDE DEF S
    <2>. QED BY <1>6, <2>2
  <1>8. total = Cardinality(new) /\ IsFiniteSet(new)
    <2>1. DOMAIN counts = DOMAIN reply
      OBVIOUS
    <2>. DEFINE D == DOMAIN reply
    <2>2. ASSUME NEW k \in D PROVE IsFiniteSet(S[k]) /\ counts[k] = Cardinality(S[k])
      <3>. HIDE DEF S, counts
      <3>. QED BY <1>6
    <2>3. ASSUME NEW k \in D, NEW l \in D, k # l PROVE S[k] \cap S[l] = {}
      <3>. HIDE DEF S
      <3>. QED BY <1>7, <2>3
    <2>4. DOMAIN counts = D
      OBVIOUS
    <2>5. IsFiniteSet(D)
      BY <1>4
    <2>. HIDE DEF S, counts, D
    <2>6. Total(counts) = Cardinality(UNION {S[k] : k \in D}) /\ IsFiniteSet(UNION {S[k] : k \in D})
      BY <2>2, <2>3, <2>4, <2>5, TotalIsCardinality
    <2>. QED BY <2>6, Zenon DEF D
  <1>9. ASSUME NEW p \in Bytes
        PROVE  /\ (At(p) # {}) <=> p \in new
               /\ p \in new => value(p) # NULL
               /\ p \notin new => value(p) = client[c].buffer[p]
    <2>1. ASSUME NEW k \in DOMAIN reply, NEW j \in DOMAIN reply[k], p = pieces[k].data + j
          PROVE  <<k, j>> \in At(p)
      <3>1. j \in Bytes
        BY <1>5
      <3>. QED BY <2>1, <3>1 DEF BufferPosition
    <2>2. ASSUME NEW kj \in At(p)
          PROVE  /\ kj[1] \in DOMAIN reply /\ kj[2] \in DOMAIN reply[kj[1]]
                 /\ p = pieces[kj[1]].data + kj[2]
      BY DEF BufferPosition
    <2>3. (p \in new) <=> \E k \in DOMAIN reply : \E j \in DOMAIN reply[k] : p = pieces[k].data + j
      <3>1. ASSUME NEW k \in DOMAIN reply
            PROVE  (p \in S[k]) <=> \E j \in DOMAIN reply[k] : p = pieces[k].data + j
        OBVIOUS
      <3>. HIDE DEF S
      <3>2. (p \in new) <=> \E k \in DOMAIN reply : p \in S[k]
        <4>1. ASSUME p \in new PROVE \E k \in DOMAIN reply : p \in S[k]
          BY <4>1
        <4>2. ASSUME NEW k \in DOMAIN reply, p \in S[k] PROVE p \in new
          BY <4>2
        <4>. HIDE DEF new
        <4>. QED BY <4>1, <4>2
      <3>. HIDE DEF new
      <3>. QED BY <3>1, <3>2
    <2>. HIDE DEF new
    <2>4. CASE At(p) = {}
      BY <2>1, <2>3, <2>4, Zenon
    <2>5. CASE At(p) # {}
      <3>. DEFINE kj == CHOOSE y \in At(p) : TRUE
      <3>1. kj \in At(p) /\ value(p) = <<reply[kj[1]][kj[2]]>>
        BY <2>5, Zenon
      <3>. HIDE DEF kj, value, At
      <3>2. kj[1] \in DOMAIN reply /\ kj[2] \in DOMAIN reply[kj[1]] /\ p = pieces[kj[1]].data + kj[2]
        BY <2>2, <3>1
      <3>3. reply[kj[1]][kj[2]] \in Values
        BY <1>5, <3>2
      <3>4. value(p) # NULL
        BY <3>1, <3>3, DistributedObjectAssumption
      <3>. QED BY <2>3, <2>5, <3>2, <3>4
    <2>. QED BY <2>4, <2>5, Zenon
  <1>10. new \in SUBSET Bytes /\ \A p \in new : place[p].index = s
    <2>. HIDE DEF S
    <2>1. ASSUME NEW p \in new PROVE \E k \in DOMAIN reply : p \in S[k]
      OBVIOUS
    <2>. HIDE DEF new
    <2>. QED BY <1>6, <2>1
  <1>11. CountingOf(c) /\ client[c].pc # "idle"
    BY <1>2, RestingType DEF Counting, IInv, Working, WorkingOf
  <1>12. /\ client[c].bytes = Cardinality(Filled(c))
         /\ \A p \in Filled(c) : part[c][place[p].index].pc = "done"
    BY <1>2, <1>11 DEF CountingOf, ReadCount
  <1>13. Filled(c) \cap new = {} /\ Filled(c) \in SUBSET Bytes
    BY <1>2, <1>10, <1>12 DEF Filled
  <1>14. Cardinality(Filled(c) \cup new) = client[c].bytes + total
    <2>1. IsFiniteSet(Filled(c)) /\ IsFiniteSet(new)
      BY <1>8, <1>13, FiniteBytes
    <2>. HIDE DEF new, total
    <2>. QED BY <1>8, <1>12, <1>13, <2>1, DisjointUnion
  <1>15. total \in Nat
    <2>. HIDE DEF new, total
    <2>. QED BY <1>8, FS_CardinalityType
  <1>. DEFINE b == [p \in Bytes |-> value(p)]
  <1>16. b \in [Bytes -> {NULL} \cup {<<v>> : v \in Values}]
    <2>1. ASSUME NEW p \in Bytes PROVE value(p) \in {NULL} \cup {<<v>> : v \in Values}
      <3>1. CASE At(p) = {}
        BY <1>2, <3>1 DEF ClientStates
      <3>2. CASE At(p) # {}
        <4>. DEFINE kj == CHOOSE y \in At(p) : TRUE
        <4>1. kj \in At(p) /\ value(p) = <<reply[kj[1]][kj[2]]>>
          BY <3>2, Zenon
        <4>. HIDE DEF kj, value
        <4>2. kj[1] \in DOMAIN reply /\ kj[2] \in DOMAIN reply[kj[1]]
          BY <4>1
        <4>3. reply[kj[1]][kj[2]] \in Values
          BY <1>5, <4>2
        <4>. QED BY <4>1, <4>3
      <3>. QED BY <3>1, <3>2, Zenon
    <2>. HIDE DEF value
    <2>. QED BY <2>1
  <1>17. \A p \in Bytes : b[p] # NULL <=> p \in Filled(c) \cup new
    <2>1. \A p \in Bytes : b[p] = value(p)
      OBVIOUS
    <2>. HIDE DEF value, new, b, At
    <2>. QED BY <1>9, <2>1 DEF Filled
  <1>. HIDE DEF b, value, new, total
  <1>18. \/ x = [client[c] EXCEPT !.ret = FALSE] /\ reply = <<>>
         \/ x = [client[c] EXCEPT !.bytes = client[c].bytes + total, !.buffer = b]
    BY DEF b
  <1>. HIDE DEF x
  <1>19. CASE x = [client[c] EXCEPT !.ret = FALSE] /\ reply = <<>>
    <2>1. /\ x \in ClientStates /\ x.pc = client[c].pc /\ x.n = client[c].n /\ x.req = client[c].req
          /\ x.bytes = client[c].bytes /\ x.buffer = client[c].buffer
      BY <1>2, <1>19, Zenon DEF ClientStates
    <2>2. {p \in Bytes : x.buffer[p] # NULL} = Filled(c)
      BY <2>1 DEF Filled
    <2>. QED BY <1>1, <1>2, <1>12, <2>1, <2>2, ReceivedCounting DEF Counted
  <1>20. CASE x = [client[c] EXCEPT !.bytes = client[c].bytes + total, !.buffer = b]
    <2>0. client[c].bytes + total \in Nat
      BY <1>2, <1>15 DEF ClientStates
    <2>1. /\ x \in ClientStates /\ x.pc = client[c].pc /\ x.n = client[c].n /\ x.req = client[c].req
          /\ x.bytes = client[c].bytes + total /\ x.buffer = b
      BY <1>2, <1>16, <1>20, <2>0, Zenon DEF ClientStates
    <2>2. {p \in Bytes : x.buffer[p] # NULL} = Filled(c) \cup new
      BY <1>10, <1>13, <1>17, <2>1
    <2>3. \A p \in Bytes : x.buffer[p] # NULL => client[c].buffer[p] # NULL \/ place[p].index = s
      BY <1>10, <1>17, <2>1 DEF Filled
    <2>. QED BY <1>1, <1>2, <1>14, <2>1, <2>2, <2>3, ReceivedCounting DEF Counted
  <1>. QED BY <1>18, <1>19, <1>20

-----------------------------------------------------------------------------
(* The counts of a request that begins or is served.                      *)

(* What has been applied of an older request stays as it is.               *)
LEMMA BeginCounting ==
    ASSUME IInv, Counting, NEW c \in Clients, NEW r \in Requests[c], Begin(c, r),
           NEW x \in ClientStates, x.n = client[c].n + 1, x.req = r, x.pc # "idle", x.bytes = 0,
           \A p \in Bytes : x.buffer[p] = NULL,
           NEW parts \in [Servers -> PartStates],
           \A s \in Servers : parts[s].pieces = <<>> /\ parts[s].reply = NULL /\ parts[s].pc # "done",
           client' = [client EXCEPT ![c] = x], part' = [part EXCEPT ![c] = parts]
    PROVE  Counting'
  <1>. DEFINE n1 == client[c].n + 1
              new == [kind |-> Kind(r), bytes |-> Reach(r)]
  <1>0. PICK id : id = <<c, n1>>
    BY Zenon
  <1>1. /\ client[c].n < MaxRequests[c] /\ UNCHANGED <<net, place>>
        /\ issued' = [issued EXCEPT ![id] = r] /\ todo' = [todo EXCEPT ![id] = new]
    BY <1>0 DEF Begin
  <1>2. /\ client \in [Clients -> ClientStates] /\ part \in [Clients -> [Servers -> PartStates]]
        /\ net \subseteq Messages
        /\ todo \in [Ids -> {NULL} \cup Todos] /\ issued \in [Ids -> {NULL} \cup AllRequests]
    BY DEF IInv, TypeOK
  <1>3. client[c].n \in Nat /\ MaxRequests[c] \in Nat /\ n1 \in 1 .. MaxRequests[c] /\ n1 # client[c].n
    BY <1>1, <1>2, DistributedObjectAssumption DEF ClientStates
  <1>4. id \in Ids
    BY <1>0, <1>3, IdType
  <1>5. r # NULL
    BY RequestType
  <1>6. new.bytes = Reach(r)
    OBVIOUS
  <1>. HIDE DEF new
  <1>7. /\ issued'[id] = r /\ todo'[id] = new
        /\ \A i \in Ids \ {id} : issued'[i] = issued[i] /\ todo'[i] = todo[i]
        /\ client'[c] = x /\ part'[c] = parts
        /\ \A e \in Clients \ {c} : client'[e] = client[e] /\ part'[e] = part[e]
    BY <1>1, <1>2, <1>4
  <1>8. ASSUME NEW i \in Ids \ {id} PROVE Applied(i)' = Applied(i)
    BY <1>7, Zenon DEF Applied
  <1>9. ASSUME NEW e \in Clients \ {c} PROVE CountingOf(e)'
    <2>1. client[e].req # NULL => IdOf(e) \in Ids /\ IdOf(e)[1] = e
      BY AtWork
    <2>2. client[e].req # NULL => Applied(IdOf(e))' = Applied(IdOf(e))
      <3>1. IdOf(e)' = IdOf(e)
        BY <1>7 DEF IdOf
      <3>2. id[1] = c
        BY <1>0
      <3>3. client[e].req # NULL => IdOf(e) \in Ids \ {id}
        BY <2>1, <3>2
      <3>4. client[e].req # NULL => issued'[IdOf(e)] = issued[IdOf(e)] /\ todo'[IdOf(e)] = todo[IdOf(e)]
        BY <1>7, <3>3
      <3>. QED BY <3>1, <3>4, Zenon DEF Applied
    <2>. QED BY <1>1, <1>7, <2>2, CountingBystander DEF Counting
  <1>10. ASSUME NEW m \in net PROVE CountingIn(m)'
    <2>1. CountingIn(m)
      BY DEF Counting
    <2>2. m.id \in Ids \ {id}
      <3>1. m.id \in Ids /\ m.id[2] <= client[m.id[1]].n
        BY <1>2 DEF Messages, IInv, Travelling, Travels
      <3>2. id[1] = c /\ id[2] = n1
        BY <1>0
      <3>. QED BY <1>3, <3>1, <3>2
    <2>3. issued'[m.id] = issued[m.id] /\ todo'[m.id] = todo[m.id]
      BY <1>7, <2>2
    <2>4. Applied(m.id)' = Applied(m.id)
      BY <2>3 DEF Applied
    <2>. QED BY <1>1, <2>1, <2>4 DEF CountingIn, AppliedAt
  <1>11. CountingOf(c)'
    <2>1. IdOf(c)' = id
      BY <1>0, <1>7 DEF IdOf
    <2>2. Applied(IdOf(c))' = {}
      BY <1>5, <1>6, <1>7, <2>1 DEF Applied
    <2>3. /\ Filled(c)' = {} /\ DoneAt(c)' = {} /\ \A s : AppliedAt(IdOf(c), s)' = {}
      BY <1>7, <2>2 DEF Filled, DoneAt, AppliedAt
    <2>4. \A s \in Servers : Apart(part'[c][s].pieces)
      BY <1>7, NoPieces DEF Apart
    <2>5. ReadCount(c)'
      BY <1>7, <2>3, FS_EmptySet DEF ReadCount
    <2>6. WriteCount(c)'
      BY <1>7, <2>3, FS_EmptySet DEF WriteCount
    <2>. QED BY <2>4, <2>5, <2>6 DEF CountingOf
  <1>. QED BY <1>1, <1>9, <1>10, <1>11 DEF Counting

(* A new request begins with nothing counted.                             *)
LEMMA ExecCounting ==
    ASSUME IInv, Counting, NEW c \in Clients, Exec(c) PROVE Counting'
  <1>1. PICK r \in Requests[c] : ExecEverywhere(c, r) \/ ExecRange(c, r)
    BY DEF Exec, CreateExec, DeleteExec, StatusExec, SyncExec, ReadExec, WriteExec
  <1>. DEFINE n1 == client[c].n + 1
  <1>2. /\ client[c].n \in Nat /\ n1 \in Nat /\ r \in AllRequests
    BY RequestType DEF IInv, TypeOK, ClientStates
  <1>. HIDE DEF n1
  <1>3. CASE ExecEverywhere(c, r)
    <2>. DEFINE x == [Resting EXCEPT !.pc = "parallel", !.n = n1, !.req = r]
                start == [NoPart EXCEPT !.pc = "send"]
                parts == [s \in Servers |-> start]
    <2>1. /\ Begin(c, r) /\ client' = [client EXCEPT ![c] = x] /\ part' = [part EXCEPT ![c] = parts]
      BY <1>3 DEF ExecEverywhere, n1
    <2>2. /\ x \in ClientStates /\ x.n = n1 /\ x.req = r /\ x.pc # "idle" /\ x.bytes = 0
          /\ \A p \in Bytes : x.buffer[p] = NULL
      BY <1>2, RestingType, Zenon DEF ClientStates
    <2>3. start \in PartStates /\ start.pieces = <<>> /\ start.reply = NULL /\ start.pc # "done"
      BY RestingType DEF PartStates
    <2>. HIDE DEF x, start
    <2>4. /\ parts \in [Servers -> PartStates]
          /\ \A s \in Servers : parts[s].pieces = <<>> /\ parts[s].reply = NULL /\ parts[s].pc # "done"
      BY <2>3
    <2>. HIDE DEF parts
    <2>. QED BY <2>1, <2>2, <2>4, BeginCounting, Zenon DEF n1
  <1>4. CASE ExecRange(c, r)
    <2>1. PICK data : data = r.ops[1].offset
      OBVIOUS
    <2>. DEFINE x == [Resting EXCEPT !.pc = "distribute", !.n = n1, !.req = r, !.op = 1, !.data = data]
                parts == [s \in Servers |-> NoPart]
    <2>2. /\ Begin(c, r) /\ client' = [client EXCEPT ![c] = x] /\ part' = [part EXCEPT ![c] = parts]
      BY <1>4, <2>1 DEF ExecRange, n1
    <2>3. /\ x.n = n1 /\ x.req = r /\ x.pc # "idle" /\ x.bytes = 0
          /\ \A p \in Bytes : x.buffer[p] = NULL
      BY <1>2, RestingType DEF ClientStates
    <2>. HIDE DEF x
    <2>4. x \in ClientStates
      <3>1. IInv' /\ client \in [Clients -> ClientStates]
        BY ExecInv DEF IInv, TypeOK
      <3>2. client'[c] \in ClientStates
        BY <3>1 DEF IInv, TypeOK
      <3>. QED BY <2>2, <3>1, <3>2
    <2>5. /\ parts \in [Servers -> PartStates]
          /\ \A s \in Servers : parts[s].pieces = <<>> /\ parts[s].reply = NULL /\ parts[s].pc # "done"
      BY RestingType
    <2>. HIDE DEF parts
    <2>. QED BY <2>2, <2>3, <2>4, <2>5, BeginCounting, Zenon DEF n1
  <1>. QED BY <1>1, <1>3, <1>4

(* A server counts what it applies in its reply.                          *)
LEMMA ServeCounting ==
    ASSUME IInv, Counting, NEW m \in net, Serve(m) PROVE Counting'
  <1>1. PICK f, changed, reply : Legal(m, f, changed, reply) /\ Exact(m, changed, reply)
    BY ServeLegal
  <1>2. /\ f \in Files /\ changed \in SUBSET Stored(m.server) /\ changed \in SUBSET Bytes
        /\ reply \in AnyReply /\ Served(m, f, changed, reply) /\ changed \subseteq todo[m.id].bytes
        /\ m.req.type \notin {"WRITE", "DELETE"} => changed = {}
    BY <1>1 DEF Legal, Stored
  <1>3. Sent(m) /\ ServedFiles(m, f, changed) /\ ServedPart(m, reply)
    BY <1>2, ServedState
  <1>4. /\ m.id \in Ids /\ m.server \in Servers /\ m.id[1] \in Clients /\ m.req \in AllRequests
        /\ m.req = issued[m.id] /\ Travels(m) /\ CountingIn(m)
        /\ net' = net \ {m} /\ UNCHANGED <<client, place, issued>>
        /\ todo'[m.id].bytes = todo[m.id].bytes \ changed
        /\ \A id \in Ids \ {m.id} : todo'[id] = todo[id]
    BY <1>3 DEF Sent, ServedFiles, Travels, Counting
  <1>5. m.req # NULL
    BY <1>4, RequestType DEF AllRequests
  <1>6. ASSUME NEW id \in Ids \ {m.id} PROVE Applied(id)' = Applied(id)
    <2>1. todo'[id] = todo[id] /\ issued'[id] = issued[id]
      BY <1>4
    <2>. QED BY <2>1 DEF Applied
  <1>7. Applied(m.id)' = Applied(m.id) \cup (changed \cap Reach(m.req))
    <2>1. todo'[m.id].bytes = todo[m.id].bytes \ changed /\ issued'[m.id] = m.req /\ issued[m.id] = m.req
      BY <1>4
    <2>2. Applied(m.id)' = Reach(m.req) \ todo'[m.id].bytes
      BY <1>5, <2>1 DEF Applied
    <2>3. Applied(m.id) = Reach(m.req) \ todo[m.id].bytes
      BY <1>5, <2>1 DEF Applied
    <2>. QED BY <2>1, <2>2, <2>3
  <1>8. \A p \in changed : place[p].index = m.server
    BY <1>2 DEF Stored
  <1>9. ASSUME NEW s, s # m.server PROVE AppliedAt(m.id, s)' = AppliedAt(m.id, s)
    BY <1>4, <1>7, <1>8, <1>9 DEF AppliedAt
  <1>10. ASSUME NEW o \in net' PROVE CountingIn(o)'
    <2>1. o \in net /\ o # m /\ CountingIn(o) /\ o.id \in Ids
      BY <1>4 DEF Counting, IInv, TypeOK, Messages
    <2>2. CASE o.id # m.id
      <3>1. Applied(o.id)' = Applied(o.id)
        BY <1>6, <2>1, <2>2
      <3>. QED BY <1>4, <2>1, <3>1 DEF CountingIn, AppliedAt
    <2>3. CASE o.id = m.id
      <3>1. o.server # m.server
        BY <2>1, <2>3 DEF IInv, Travelling
      <3>2. AppliedAt(o.id, o.server)' = AppliedAt(o.id, o.server)
        BY <1>9, <2>3, <3>1
      <3>. QED BY <2>1, <3>2 DEF CountingIn
    <2>. QED BY <2>2, <2>3
  <1>11. ASSUME NEW c \in Clients PROVE CountingOf(c)'
    <2>0. CountingOf(c) /\ client'[c] = client[c] /\ IdOf(c)' = IdOf(c)
      BY <1>4 DEF Counting, IdOf
    <2>. SUFFICES ASSUME client[c].req # NULL PROVE CountingOf(c)'
      BY <2>0 DEF CountingOf
    <2>. DEFINE r == client[c].req
    <2>1. /\ IdOf(c) \in Ids /\ issued[IdOf(c)] = r
      BY AtWork
    <2>2. ASSUME NEW s \in Servers
          PROVE  /\ part'[c][s].pc = part[c][s].pc /\ part'[c][s].pieces = part[c][s].pieces
                 /\ ~(Replies(m.req) /\ c = m.id[1] /\ s = m.server) => part'[c][s].reply = part[c][s].reply
                 /\ Replies(m.req) /\ c = m.id[1] /\ s = m.server => part'[c][s].reply = reply
      BY <1>3 DEF ServedPart
    <2>3. ReadCount(c)'
      <3>1. \A p \in Bytes : place[p].index \in Servers
        BY DEF IInv, TypeOK
      <3>2. Filled(c)' = Filled(c) /\ Filled(c) \subseteq Bytes
        BY <2>0 DEF Filled
      <3>3. \A p \in Filled(c) : part'[c][place[p].index].pc = part[c][place[p].index].pc
        BY <2>2, <3>1, <3>2
      <3>. QED BY <1>4, <2>0, <3>2, <3>3 DEF CountingOf, ReadCount
    <2>4. \A p \in Bytes : place[p].index \in Servers /\
                            part'[c][place[p].index].pc = part[c][place[p].index].pc
      <3>1. \A p \in Bytes : place[p].index \in Servers
        BY DEF IInv, TypeOK
      <3>. QED BY <2>2, <3>1
    <2>5. Applied(IdOf(c)) \subseteq Bytes
      BY <2>1, AppliedBytes
    <2>6. WriteCount(c)'
      <3>1. CASE ~Counted(r)
        BY <2>0, <3>1 DEF WriteCount
      <3>2. CASE Counted(r) /\ IdOf(c) # m.id
        <4>1. Applied(IdOf(c))' = Applied(IdOf(c))
          BY <1>6, <2>0, <2>1, <3>2
        <4>2. DoneAt(c)' = DoneAt(c) /\ \A s : AppliedAt(IdOf(c), s)' = AppliedAt(IdOf(c), s)
          BY <1>4, <2>0, <2>4, <2>5, <4>1 DEF DoneAt, AppliedAt
        <4>3. ~(Replies(m.req) /\ c = m.id[1])
          <5>1. ~Expects(m.req) \/ m.id[2] = client[m.id[1]].n
            BY <1>4 DEF Travels
          <5>2. m.id = <<m.id[1], m.id[2]>>
            BY <1>4, IdParts
          <5>3. Expects(m.req) <=> Replies(m.req)
            BY DEF Expects, Replies
          <5>. QED BY <3>2, <5>1, <5>2, <5>3 DEF IdOf
        <4>4. \A s \in Servers : part'[c][s].pc = part[c][s].pc /\ part'[c][s].reply = part[c][s].reply
          BY <2>2, <4>3
        <4>. QED BY <2>0, <4>1, <4>2, <4>4 DEF CountingOf, WriteCount
      <3>3. CASE Counted(r) /\ IdOf(c) = m.id
        <4>1. m.req = r /\ m.id[1] = c /\ m.id[2] = client[c].n /\ Expects(r) /\ r.type = "WRITE"
          <5>1. m.req = r
            BY <1>4, <2>1, <3>3
          <5>. QED BY <1>4, <3>3, <5>1, CountedExpects DEF IdOf
        <4>2. client[c].pc = "parallel" /\ part[c][m.server].pc = "wait" /\ part[c][m.server].reply = NULL
          BY <1>4, <4>1 DEF Travels
        <4>3. changed \subseteq Reach(r)
          <5>1. todo[IdOf(c)].bytes \subseteq Reach(r)
            BY AtWork
          <5>. QED BY <1>2, <3>3, <5>1
        <4>4. AppliedAt(m.id, m.server) = {} /\ Apart(m.pieces)
          BY <1>4, <3>3, <4>1 DEF CountingIn
        <4>5. AppliedAt(m.id, m.server)' = changed
          <5>1. Applied(m.id)' = Applied(m.id) \cup changed
            BY <1>7, <4>1, <4>3
          <5>. QED BY <1>4, <1>8, <4>4, <5>1 DEF AppliedAt
        <4>6. Total(reply) = Cardinality(changed)
          BY <1>1, <4>1, <4>4 DEF Exact
        <4>7. DoneAt(c)' = DoneAt(c)
          <5>1. Applied(IdOf(c))' = Applied(IdOf(c)) \cup changed
            BY <1>7, <2>0, <3>3, <4>1, <4>3
          <5>2. \A p \in changed : p \in Bytes /\ part[c][place[p].index].pc = "wait"
            BY <1>2, <1>8, <4>2
          <5>3. DoneAt(c)' = {p \in Applied(IdOf(c)) \cup changed : part'[c][place[p].index].pc = "done"}
            BY <1>4, <5>1 DEF DoneAt
          <5>. QED BY <2>4, <2>5, <5>2, <5>3 DEF DoneAt
        <4>8. ASSUME NEW s \in Servers
              PROVE  /\ part'[c][s].pc \in {"none", "send"} => AppliedAt(IdOf(c), s)' = {}
                     /\ part'[c][s].reply # NULL =>
                          Total(part'[c][s].reply) = Cardinality(AppliedAt(IdOf(c), s)')
          <5>1. CASE s = m.server
            <6>1. AppliedAt(IdOf(c), s)' = changed
              BY <2>0, <3>3, <4>5, <5>1
            <6>2. part'[c][s].pc = "wait"
              BY <2>2, <4>2, <5>1
            <6>3. part'[c][s].reply = reply
              BY <2>2, <4>1, <5>1 DEF Expects, Replies
            <6>. QED BY <4>6, <6>1, <6>2, <6>3
          <5>2. CASE s # m.server
            <6>1. AppliedAt(IdOf(c), s)' = AppliedAt(IdOf(c), s)
              BY <1>9, <2>0, <3>3, <5>2
            <6>2. part'[c][s].pc = part[c][s].pc /\ part'[c][s].reply = part[c][s].reply
              BY <2>2, <5>2
            <6>. QED BY <2>0, <3>3, <4>2, <6>1, <6>2 DEF CountingOf, WriteCount
          <5>. QED BY <5>1, <5>2
        <4>9. client[c].bytes = Cardinality(DoneAt(c))
          BY <2>0, <3>3, <4>2 DEF CountingOf, WriteCount
        <4>. QED BY <2>0, <4>2, <4>7, <4>8, <4>9 DEF WriteCount
      <3>. QED BY <3>1, <3>2, <3>3
    <2>7. client'[c].pc # "idle" => \A s \in Servers : Apart(part'[c][s].pieces)
      BY <2>0, <2>2 DEF CountingOf
    <2>. QED BY <2>3, <2>6, <2>7 DEF CountingOf
  <1>. QED BY <1>10, <1>11 DEF Counting

(* Every step keeps the counts exact.                                     *)
LEMMA NextCounting == OpsApart /\ IInv /\ Counting /\ [Next]_vars => Counting'
  <1>. SUFFICES ASSUME OpsApart, IInv, Counting, [Next]_vars PROVE Counting'
    OBVIOUS
  <1>1. ASSUME NEW c \in Clients, Exec(c) PROVE Counting'
    BY <1>1, ExecCounting
  <1>2. ASSUME NEW c \in Clients, Work(c) PROVE Counting'
    <2>1. CASE AddPiece(c) \/ NextOperation(c) \/ Finish(c)
      BY <2>1, AddPieceCounting, NextOperationCounting, FinishCounting
    <2>2. ASSUME NEW s \in Servers, Send(c, s) PROVE Counting'
      BY <2>2, SendCounting
    <2>3. ASSUME NEW s \in Servers, Receive(c, s) PROVE Counting'
      BY <2>3, ReceiveOtherCounting, ReceiveWriteCounting, ReceiveReadCounting DEF Receive
    <2>. QED BY <1>2, <2>1, <2>2, <2>3 DEF Work
  <1>3. ASSUME NEW m \in net, Serve(m) PROVE Counting'
    BY <1>3, ServeCounting
  <1>4. CASE UNCHANGED vars
    <2>1. UNCHANGED <<client, part, net, place, todo, issued>>
      BY <1>4 DEF vars
    <2>2. ASSUME NEW c \in Clients PROVE CountingOf(c)'
      BY <2>1, CountingBystander DEF Counting, Applied, IdOf
    <2>3. ASSUME NEW m \in net PROVE CountingIn(m)'
      BY <2>1 DEF Counting, CountingIn, AppliedAt, Applied
    <2>. QED BY <2>1, <2>2, <2>3 DEF Counting
  <1>. QED BY <1>1, <1>2, <1>3, <1>4 DEF Next

(* When a read or a confirmed write has returned, bytes_read and          *)
(* bytes_written are the numbers of bytes that were really copied or      *)
(* applied, whichever servers failed and however much they wrote.         *)
THEOREM ExactCounts == ASSUME OpsApart PROVE Spec => []CountsAreExact
  <1>1. Init => IInv /\ Counting
    BY InitInv, InitCounting
  <1>2. IInv /\ Counting /\ [Next]_vars => IInv' /\ Counting'
    BY NextInv, NextCounting
  <1>3. IInv /\ Counting => CountsAreExact
    <2>. SUFFICES ASSUME Counting, NEW c \in Clients, client[c].pc = "idle", client[c].req # NULL
                  PROVE  /\ client[c].req.type = "READ" =>
                               client[c].bytes = Cardinality({p \in Bytes : client[c].buffer[p] # NULL})
                         /\ client[c].req.type = "WRITE" /\ client[c].req.persistency # "NONE" =>
                               client[c].bytes = Cardinality(Applied(IdOf(c)))
      BY DEF CountsAreExact, Finished
    <2>1. CountingOf(c)
      BY DEF Counting
    <2>. QED BY <2>1 DEF CountingOf, ReadCount, WriteCount, Filled, Counted
  <1>. QED BY <1>1, <1>2, <1>3, PTL DEF Spec
=============================================================================
