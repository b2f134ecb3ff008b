-------------------------- MODULE MembershipProofs --------------------------
(***************************************************************************)
(* Proofs about Membership, for specifications of any length over any      *)
(* bytes and any values in the repository: what the recursive descent      *)
(* makes of a specification is what the specification means.               *)
(***************************************************************************)
EXTENDS Membership, SequenceTheorems, NaturalsInduction, WellFoundedInduction, TLAPS

---------------------------------------------------------------------------
(***************************************************************************)
(* Recursive functions.  The library derives their equations from          *)
(* theorems with an operator parameter; here the step of the recursion is  *)
(* a function G from approximations to approximations instead.             *)
(***************************************************************************)

(* The functions with a value of V[t] for every t of D.                    *)
Choices(D, V) == {f \in [D -> UNION {V[t] : t \in D}] : \A t \in D : f[t] \in V[t]}

LEMMA LeastNumber ==
  ASSUME NEW S, S \subseteq Nat, S # {}
  PROVE  \E k \in S : \A j \in S : k <= j
<1>1. PICK k \in S : \A j \in S : <<j, k>> \notin OpToRel(<, Nat)
  BY NatLessThanWellFounded, WFMin
<1>2. ASSUME NEW j \in S PROVE k <= j
  <2>1. ~ (j < k)
    BY <1>1 DEF OpToRel
  <2> QED BY <2>1
<1> QED BY <1>2

(* If what G makes of f at t depends only on f at smaller arguments, some  *)
(* function is its own improvement.                                        *)
LEMMA FixedPoint ==
  ASSUME NEW D, NEW V, NEW M \in [D -> Nat], Choices(D, V) # {},
         NEW G \in [Choices(D, V) -> Choices(D, V)],
         \A f, g \in Choices(D, V), t \in D :
           (\A u \in D : M[u] < M[t] => f[u] = g[u]) => G[f][t] = G[g][t]
  PROVE  \E f \in Choices(D, V) : f = G[f]
<1> DEFINE C == Choices(D, V)
           Good(f, n) == \A t \in D : M[t] < n => f[t] = G[f][t]
<1>1. ASSUME NEW f \in C, NEW n \in Nat, Good(f, n)
      PROVE  Good(G[f], n + 1)
  <2> SUFFICES ASSUME NEW t \in D, M[t] < n + 1
               PROVE  G[f][t] = G[G[f]][t]
    OBVIOUS
  <2>1. ASSUME NEW u \in D, M[u] < M[t] PROVE f[u] = G[f][u]
    <3>1. M[u] < n
      BY <2>1
    <3> QED BY <1>1, <3>1
  <2>2. G[f] \in C
    OBVIOUS
  <2> QED BY <2>1, <2>2
<1>2. \A n \in Nat : \E f \in C : Good(f, n)
  <2> DEFINE S == {n \in Nat : ~ \E f \in C : Good(f, n)}
  <2> SUFFICES ASSUME S # {} PROVE FALSE
    OBVIOUS
  <2>1. PICK k \in S : \A j \in S : k <= j
    BY LeastNumber
  <2>2. CASE k = 0
    <3>1. PICK f \in C : TRUE
      OBVIOUS
    <3>2. Good(f, 0)
      OBVIOUS
    <3> QED BY <2>2, <3>1, <3>2
  <2>3. CASE k # 0
    <3>1. k - 1 \in Nat /\ k - 1 + 1 = k /\ ~ (k <= k - 1)
      BY <2>3
    <3>2. PICK f \in C : Good(f, k - 1)
      BY <2>1, <3>1
    <3>3. Good(G[f], k) /\ G[f] \in C
      BY <1>1, <3>1, <3>2
    <3> QED BY <3>3
  <2> QED BY <2>2, <2>3
<1>3. ASSUME NEW f \in C, NEW g \in C, NEW n \in Nat, Good(f, n), Good(g, n),
             NEW t \in D, M[t] < n
      PROVE  f[t] = g[t]
  <2> DEFINE S == {M[u] : u \in {v \in D : M[v] < n /\ f[v] # g[v]}}
  <2> SUFFICES ASSUME S # {} PROVE FALSE
    BY <1>3
  <2>1. PICK k \in S : \A j \in S : k <= j
    <3>1. S \subseteq Nat
      OBVIOUS
    <3> HIDE DEF S
    <3> QED BY <3>1, LeastNumber
  <2>2. PICK u \in D : M[u] = k /\ M[u] < n /\ f[u] # g[u]
    OBVIOUS
  <2>3. \A w \in D : M[w] < M[u] => f[w] = g[w]
    <3> SUFFICES ASSUME NEW w \in D, M[w] < M[u], f[w] # g[w] PROVE FALSE
      OBVIOUS
    <3>1. M[w] < n /\ M[w] \in Nat /\ k \in Nat
      BY <2>2
    <3>2. k <= M[w]
      BY <2>1, <3>1
    <3> QED BY <2>2, <3>1, <3>2
  <2>4. G[f][u] = G[g][u]
    BY <2>3
  <2> QED BY <1>3, <2>2, <2>4
<1> DEFINE approx == [n \in Nat |-> CHOOSE f \in C : Good(f, n)]
           f0 == [t \in D |-> approx[M[t] + 1][t]]
<1>4. \A n \in Nat : approx[n] \in C /\ Good(approx[n], n)
  BY <1>2
<1> HIDE DEF approx
<1>5. f0 \in C
  <2>1. \A t \in D : approx[M[t] + 1][t] \in V[t]
    BY <1>4 DEF Choices
  <2> QED BY <2>1 DEF Choices
<1>6. ASSUME NEW t \in D PROVE f0[t] = G[f0][t]
  <2> DEFINE h == approx[M[t] + 1]
  <2>1. h \in C /\ Good(h, M[t] + 1) /\ M[t] < M[t] + 1
    BY <1>4
  <2>2. f0[t] = h[t] /\ h[t] = G[h][t]
    BY <2>1
  <2>3. ASSUME NEW u \in D, M[u] < M[t] PROVE f0[u] = h[u]
    <3> DEFINE i == approx[M[u] + 1]
    <3>1. i \in C /\ Good(i, M[u] + 1) /\ M[u] < M[u] + 1 /\ M[u] + 1 \in Nat
      BY <1>4
    <3>2. Good(h, M[u] + 1)
      <4>1. \A v \in D : M[v] < M[u] + 1 => M[v] < M[t] + 1
        BY <2>3
      <4> QED BY <2>1, <4>1
    <3>3. i[u] = h[u]
      BY <1>3, <2>1, <3>1, <3>2
    <3> QED BY <3>3
  <2>4. G[f0][t] = G[h][t]
    BY <1>5, <2>1, <2>3
  <2> QED BY <2>2, <2>4
<1>7. f0 = G[f0]
  <2>1. G[f0] \in C
    BY <1>5
  <2>2. G[f0] = [t \in D |-> G[f0][t]]
    BY <2>1 DEF Choices
  <2> QED BY <1>6, <2>2
<1> QED BY <1>5, <1>7

---------------------------------------------------------------------------
(***************************************************************************)
(* Arithmetic.                                                             *)
(***************************************************************************)

LEMMA IntsAre == \A x : x \in Ints <=> x \in Int /\ 0 - 32768 <= x /\ x <= 32767
<1>1. IntMin \in Int /\ IntMax \in Int
  BY DEF IntMin, IntMax
<1>2. \A x : x \in Ints <=> x \in Int /\ IntMin <= x /\ x <= IntMax
  BY <1>1 DEF Ints
<1> QED BY <1>2 DEF IntMin, IntMax

LEMMA BytesAre == \A x : x \in Byte <=> x \in Int /\ 0 <= x /\ x < 256
<1>1. ByteMax \in Int
  BY DEF ByteMax
<1>2. \A x : x \in Byte <=> x \in Int /\ 0 <= x /\ x <= ByteMax
  BY <1>1 DEF Byte
<1> QED BY <1>2 DEF ByteMax

LEMMA WrapInt ==
  ASSUME NEW x \in Int
  PROVE  Wrap(x) \in Ints /\ Int16(x) = Wrap(x)
<1>1. PICK r \in Int : r = (x + 32768) % 65536 /\ 0 <= r /\ r < 65536
  OBVIOUS
<1>2. PICK s \in Int : s = x % 65536 /\ 0 <= s /\ s < 65536
  OBVIOUS
<1>3. r = IF s < 32768 THEN s + 32768 ELSE s - 32768
  BY <1>1, <1>2
<1>4. Wrap(x) = r - 32768
  BY <1>1 DEF Wrap
<1>5. Int16(x) = IF s < 32768 THEN s ELSE s - 65536
  BY <1>2 DEF Int16
<1>6. r - 32768 = IF s < 32768 THEN s ELSE s - 65536
  BY <1>2, <1>3
<1> QED BY <1>1, <1>4, <1>5, <1>6, IntsAre

(* Division of natural numbers.                                            *)
LEMMA Euclid ==
  ASSUME NEW m \in Nat, NEW n \in Nat, n # 0
  PROVE  /\ m \div n \in Nat
         /\ m - (m \div n) * n \in 0 .. n - 1
         /\ (m \div n) * n \in 0 .. m
OBVIOUS

LEMMA AbsFacts ==
  ASSUME NEW x \in Int
  PROVE  Abs(x) \in Nat /\ (x < 0 => x = 0 - Abs(x)) /\ (~ (x < 0) => x = Abs(x))
BY DEF Abs

(* C's quotient is the one that Divided picks.                             *)
LEMMA Truncation ==
  ASSUME NEW x \in Int, NEW y \in Int, y # 0
  PROVE  LET q == Quotient(x, y)
         IN  /\ q \in Int /\ Divided(x, y) = q
             /\ x - y * q \in Int /\ Abs(x - y * q) < Abs(y)
<1> DEFINE m == Abs(x)
           n == Abs(y)
           d == m \div n
           q == Quotient(x, y)
           Best(c) == Abs(x - c * y) < n /\ Abs(c * y) <= m
<1>1. /\ m \in Nat /\ (x < 0 => x = 0 - m) /\ (~ (x < 0) => x = m)
      /\ n \in Nat /\ (y < 0 => y = 0 - n) /\ (~ (y < 0) => y = n) /\ n # 0
  BY AbsFacts DEF Abs
<1>2. d \in Nat /\ m - d * n \in 0 .. n - 1 /\ d * n \in 0 .. m
  <2> HIDE DEF m, n
  <2> QED BY <1>1, Euclid
<1>3. q = IF (x < 0) = (y < 0) THEN d ELSE 0 - d
  BY DEF Quotient
<1>4. Divided(x, y) = CHOOSE c \in {d, 0 - d} : Best(c)
  BY DEF Divided
<1> HIDE DEF m, n, q, d
<1>5. PICK e \in Nat : e = d * n
  BY <1>2
<1>6. /\ d * y = IF y < 0 THEN 0 - e ELSE e
      /\ (0 - d) * y = IF y < 0 THEN e ELSE 0 - e
  BY <1>1, <1>2, <1>5
<1>7. q \in Int /\ q * y = IF x < 0 THEN 0 - e ELSE e
  BY <1>2, <1>3, <1>6
<1>8. Best(q)
  <2>1. m - e < n /\ e <= m /\ m - e >= 0
    BY <1>1, <1>2, <1>5
  <2>2. Abs(x - q * y) = m - e /\ Abs(q * y) = e
    <3>1. CASE x < 0
      <4>1. x - q * y = 0 - (m - e)
        BY <1>1, <1>7, <3>1
      <4> QED BY <1>1, <1>7, <2>1, <3>1, <4>1 DEF Abs
    <3>2. CASE ~ (x < 0)
      <4>1. x - q * y = m - e
        BY <1>1, <1>7, <3>2
      <4> QED BY <1>1, <1>7, <2>1, <3>2, <4>1 DEF Abs
    <3> QED BY <3>1, <3>2
  <2> QED BY <2>1, <2>2
<1>9. ASSUME NEW c \in {d, 0 - d}, Best(c) PROVE c = q
  <2> SUFFICES ASSUME c = 0 - q PROVE c = q
    BY <1>2, <1>3
  <2>1. c * y = IF x < 0 THEN e ELSE 0 - e
    BY <1>2, <1>3, <1>6
  <2>2. Abs(x - c * y) = m + e
    <3>1. x - c * y = IF x < 0 THEN 0 - (m + e) ELSE m + e
      BY <1>1, <1>5, <2>1
    <3> QED BY <1>1, <1>5, <3>1 DEF Abs
  <2>3. e < n
    BY <1>1, <1>5, <1>9, <2>2
  <2>4. d = 0
    BY <1>1, <1>2, <1>5, <2>3
  <2> QED BY <1>3, <2>4
<1>10. q \in {d, 0 - d}
  BY <1>3
<1>11. Divided(x, y) = q
  <2> HIDE DEF Best
  <2> QED BY <1>4, <1>8, <1>9, <1>10
<1>12. y * q = q * y
  BY <1>7
<1> QED BY <1>1, <1>7, <1>8, <1>11, <1>12 DEF m, n, q

---------------------------------------------------------------------------
(***************************************************************************)
(* The operations.                                                         *)
(***************************************************************************)

Binaries == {"AND", "OR", "EQ", "NEQ", "LT", "GT", "LET", "GET",
             "ADD", "SUB", "DIV", "MULT", "MOD"}

LEMMA OperationsAre ==
  ASSUME NEW c \in Int, IsValid(c)
  PROVE  Operations[c + 1] \in Binaries \cup Unary \cup Literals
<1>1. Len(Operations) = 19
  BY DEF Operations
<1>2. c \in 0 .. 18
  BY <1>1 DEF IsValid
<1> QED BY <1>2 DEF Operations, Binaries, Unary, Literals

LEMMA TruthInt == \A b \in BOOLEAN : Truth(b) \in {0, 1} /\ (Truth(b) = 0 <=> ~ b)
BY DEF Truth

LEMMA NegateInt == \A x \in Int : Negate(x) = (IF x = 0 THEN 1 ELSE 0) /\ Negate(x) \in Ints
BY IntsAre DEF Negate, Truth

(* What the function of an operation returns for the operands x and y is   *)
(* the operation's value, wherever it has one.                             *)
LEMMA BinaryIsValue ==
  ASSUME NEW op \in Binaries, NEW x \in Ints, NEW y \in Ints
  PROVE  /\ Binary(op, x, y) \in Ints
         /\ Value(op, x, y) = IF op \in Divisions /\ y = 0 THEN Undefined ELSE Binary(op, x, y)
<1>1. x \in Int /\ y \in Int /\ x # Undefined /\ y # Undefined /\ 0 \in Ints /\ 1 \in Ints
  BY IntsAre, MembershipAssumption
<1>2. CASE op = "AND"
  BY <1>1, <1>2 DEF Binary, Value, Truth, Divisions
<1>3. CASE op = "OR"
  BY <1>1, <1>3 DEF Binary, Value, Truth, Divisions
<1>4. CASE op = "EQ"
  BY <1>1, <1>4 DEF Binary, Value, Truth, Divisions
<1>5. CASE op = "NEQ"
  BY <1>1, <1>5 DEF Binary, Value, Negate, Truth, Divisions
<1>6. CASE op = "LT"
  BY <1>1, <1>6 DEF Binary, Value, Truth, Divisions
<1>7. CASE op = "GT"
  BY <1>1, <1>7 DEF Binary, Value, Truth, Divisions
<1>8. CASE op = "LET"
  BY <1>1, <1>8 DEF Binary, Value, LessOrEqual, Negate, Truth, Divisions
<1>9. CASE op = "GET"
  BY <1>1, <1>9 DEF Binary, Value, Negate, Truth, Divisions
<1>10. CASE op = "ADD"
  BY <1>1, <1>10, WrapInt DEF Binary, Value, Divisions
<1>11. CASE op = "SUB"
  BY <1>1, <1>11, WrapInt DEF Binary, Value, Divisions
<1>12. CASE op = "MULT"
  BY <1>1, <1>12, WrapInt DEF Binary, Value, Divisions
<1>13. CASE op = "DIV"
  <2>1. CASE y = 0
    BY <1>1, <1>13, <2>1 DEF Binary, Value, Divisions
  <2>2. CASE y # 0
    <3>1. Quotient(x, y) \in Int /\ Divided(x, y) = Quotient(x, y)
      BY <1>1, <2>2, Truncation
    <3> QED BY <1>1, <1>13, <2>2, <3>1, WrapInt DEF Binary, Value, Divisions
  <2> QED BY <2>1, <2>2
<1>14. CASE op = "MOD"
  <2>1. CASE y = 0
    BY <1>1, <1>14, <2>1 DEF Binary, Value, Divisions
  <2>2. CASE y # 0
    <3> DEFINE z == x - y * Quotient(x, y)
    <3>1. Divided(x, y) = Quotient(x, y) /\ z \in Int /\ Abs(z) < Abs(y)
      BY <1>1, <2>2, Truncation
    <3>2. z \in Ints
      <4> HIDE DEF z
      <4> QED BY <1>1, <3>1, IntsAre DEF Abs
    <3> QED BY <1>1, <1>14, <2>2, <3>1, <3>2 DEF Binary, Value, Divisions
  <2> QED BY <2>1, <2>2
<1> QED BY <1>2, <1>3, <1>4, <1>5, <1>6, <1>7, <1>8, <1>9, <1>10, <1>11, <1>12, <1>13, <1>14
        DEF Binaries

---------------------------------------------------------------------------
(***************************************************************************)
(* The interpreter as a function of what it has left to read.              *)
(***************************************************************************)

(* What it may come to at t: it takes bytes away and adds none.            *)
States(t) == [value : Ints, rest : {u \in Seq(Byte) : Len(u) <= Len(t)},
              bad : BOOLEAN, wild : BOOLEAN, trap : BOOLEAN]

LEMMA StateType ==
  ASSUME NEW t \in Seq(Byte), NEW u \in Seq(Byte), Len(u) <= Len(t), NEW v \in Ints,
         NEW b \in BOOLEAN, NEW w \in BOOLEAN, NEW p \in BOOLEAN
  PROVE  State(v, u, b, w, p) \in States(t)
<1>1. u \in {s \in Seq(Byte) : Len(s) <= Len(t)}
  OBVIOUS
<1> QED BY <1>1, Zenon DEF State, States

LEMMA StateFields ==
  ASSUME NEW t \in Seq(Byte), NEW x \in States(t)
  PROVE  /\ x = State(x.value, x.rest, x.bad, x.wild, x.trap)
         /\ x.value \in Ints /\ x.value \in Int
         /\ x.rest \in Seq(Byte) /\ Len(x.rest) \in Nat /\ Len(x.rest) <= Len(t)
         /\ x.bad \in BOOLEAN /\ x.wild \in BOOLEAN /\ x.trap \in BOOLEAN
<1> DEFINE R == {s \in Seq(Byte) : Len(s) <= Len(t)}
<1>1. x \in [value : Ints, rest : R, bad : BOOLEAN, wild : BOOLEAN, trap : BOOLEAN]
  BY DEF States
<1>2. x.rest \in R
  <2> HIDE DEF R
  <2> QED BY <1>1
<1>3. x.rest \in Seq(Byte) /\ Len(x.rest) <= Len(t) /\ Len(x.rest) \in Nat
  BY <1>2, LenProperties
<1> HIDE DEF R
<1>4. x = State(x.value, x.rest, x.bad, x.wild, x.trap)
  BY <1>1 DEF State
<1>5. x.value \in Ints /\ x.bad \in BOOLEAN /\ x.wild \in BOOLEAN /\ x.trap \in BOOLEAN
  BY <1>1
<1> QED BY <1>3, <1>4, <1>5, IntsAre

LEMMA HeadAndTail ==
  ASSUME NEW t \in Seq(Byte)
  PROVE  /\ Len(t) \in Nat
         /\ t = <<>> => Len(t) = 0
         /\ t # <<>> => /\ Head(t) \in Int /\ 0 <= Head(t) /\ Head(t) < 256
                        /\ Head(t) \in Byte
                        /\ Tail(t) \in Seq(Byte) /\ Len(t) = Len(Tail(t)) + 1
                        /\ Len(Tail(t)) \in Nat
<1>1. Len(t) \in Nat /\ (t = <<>> => Len(t) = 0)
  BY LenProperties, EmptySeq
<1>2. ASSUME t # <<>>
      PROVE  /\ Head(t) \in Byte /\ Tail(t) \in Seq(Byte)
             /\ Len(Tail(t)) = Len(t) - 1 /\ Len(Tail(t)) \in Nat
  BY <1>2, HeadTailProperties, LenProperties
<1> QED BY <1>1, <1>2, BytesAre

LEMMA ReadByteFacts ==
  ASSUME NEW t \in Seq(Byte)
  PROVE  /\ t = <<>> => ReadByte(t) = State(-1, t, TRUE, FALSE, FALSE)
         /\ t # <<>> => ReadByte(t) = State(Head(t), Tail(t), FALSE, FALSE, FALSE)
         /\ ReadByte(t) \in States(t) /\ ReadByte(t).value < 256
         /\ HasCode(t) <=> t # <<>> /\ IsValid(Head(t))
         /\ HasCode(t) => Operations[Head(t) + 1] \in Binaries \cup Unary \cup Literals
<1>1. /\ t = <<>> => ReadByte(t) = State(-1, t, TRUE, FALSE, FALSE)
      /\ t # <<>> => ReadByte(t) = State(Head(t), Tail(t), FALSE, FALSE, FALSE)
  BY DEF ReadByte
<1>2. CASE t = <<>>
  <2>1. ReadByte(t).value = -1 /\ ReadByte(t).value < 256 /\ ~ HasCode(t)
    BY <1>1, <1>2 DEF State, HasCode, IsValid
  <2>2. -1 \in Ints
    BY IntsAre
  <2>3. Len(t) <= Len(t)
    BY HeadAndTail
  <2>4. ReadByte(t) \in States(t)
    BY <1>1, <1>2, <2>2, <2>3, StateType
  <2> QED BY <1>1, <1>2, <2>1, <2>4
<1>3. CASE t # <<>>
  <2>1. ReadByte(t).value = Head(t)
    BY <1>1, <1>3 DEF State
  <2>2. HasCode(t) <=> IsValid(Head(t))
    BY <2>1 DEF HasCode
  <2>3. Head(t) \in Ints /\ Head(t) \in Int /\ Head(t) < 256
    BY <1>3, HeadAndTail, IntsAre
  <2>4. Tail(t) \in Seq(Byte) /\ Len(Tail(t)) <= Len(t)
    BY <1>3, HeadAndTail
  <2>5. ReadByte(t) \in States(t)
    BY <1>1, <1>3, <2>3, <2>4, StateType
  <2> QED BY <1>1, <1>3, <2>1, <2>2, <2>3, <2>5, OperationsAre
<1> QED BY <1>2, <1>3

(* What a literal comes to is well-typed, and no byte is added.            *)
LEMMA ParseLiteralFacts ==
  ASSUME NEW op \in Literals, NEW t \in Seq(Byte)
  PROVE  ParseLiteral(op, t) \in States(t)
<1> DEFINE hi == ReadByte(t)
           lo == ReadByte(hi.rest)
           both == IF lo.bad THEN 65535 ELSE hi.value * 256 + lo.value
<1>1. hi \in States(t) /\ hi.value \in Int
  BY ReadByteFacts, StateFields
<1> HIDE DEF hi
<1>2. /\ hi.rest \in Seq(Byte) /\ Len(hi.rest) <= Len(t) /\ Len(hi.rest) \in Nat
      /\ hi.bad \in BOOLEAN
  BY <1>1, StateFields
<1>3. lo \in States(hi.rest) /\ lo.value \in Int
  BY <1>2, ReadByteFacts, StateFields
<1> HIDE DEF lo
<1>4. lo.rest \in Seq(Byte) /\ Len(lo.rest) <= Len(t) /\ lo.bad \in BOOLEAN
  <2>1. /\ lo.rest \in Seq(Byte) /\ Len(lo.rest) <= Len(hi.rest) /\ Len(lo.rest) \in Nat
        /\ lo.bad \in BOOLEAN
    BY <1>2, <1>3, StateFields
  <2>2. Len(t) \in Nat
    BY LenProperties
  <2> QED BY <1>2, <2>1, <2>2
<1>5. both \in Int
  BY <1>1, <1>3
<1>6. \A x \in Int : Unsigned(x) \in Int /\ 0 <= Unsigned(x) /\ Unsigned(x) < 256
  BY DEF Unsigned
<1>7. \A x \in Int : Unsigned(x) \in Ints /\ Byte8(Unsigned(x)) \in Ints
  <2>1. \A u \in Int : 0 <= u /\ u < 256 => u \in Ints /\ Byte8(u) \in Ints
    BY IntsAre DEF Byte8
  <2> QED BY <1>6, <2>1
<1>8. \A x : RepositoryValue(x) \in Ints
  BY MembershipAssumption, IntsAre DEF RepositoryValue
<1> HIDE DEF both
<1>9. CASE op \notin {"UINT16", "INT16"}
  <2>1. PICK v : v \in Ints /\ ParseByte(op, t) = State(v, hi.rest, hi.bad, FALSE, FALSE)
    <3>1. CASE op = "UINT8"
      BY <1>1, <1>7, <3>1 DEF ParseByte, hi
    <3>2. CASE op = "INT8"
      BY <1>1, <1>7, <3>2 DEF ParseByte, hi
    <3>3. CASE op = "REPOSITORY"
      BY <1>1, <1>8, <3>3 DEF ParseByte, hi
    <3> QED BY <1>9, <3>1, <3>2, <3>3 DEF Literals
  <2>2. ParseLiteral(op, t) = ParseByte(op, t)
    BY <1>9 DEF ParseLiteral
  <2> QED BY <1>2, <2>1, <2>2, StateType
<1>10. CASE op \in {"UINT16", "INT16"}
  <2>1. ParseLiteral(op, t) = State(Wrap(both), lo.rest, lo.bad, FALSE, FALSE)
    BY <1>10 DEF ParseLiteral, ParsePair, hi, lo, both
  <2>2. Wrap(both) \in Ints
    BY <1>5, WrapInt
  <2> QED BY <1>4, <2>1, <2>2, StateType
<1> QED BY <1>9, <1>10

(* One call, if R tells what the calls it makes come to.                   *)
OperandStep(R, t) ==
  IF ~ HasCode(t) THEN State(0, ReadByte(t).rest, TRUE, TRUE, FALSE)
  ELSE LET op == Operations[Head(t) + 1]
           x  == R[Tail(t)] IN
       CASE op \in Literals -> ParseLiteral(op, Tail(t))
         [] op \in Unary -> Inverted(Tail(t), x)
         [] OTHER -> Combined(op, x, R[x.rest])

LEMMA OperationsApart ==
  /\ \A op \in Literals : op \notin Unary /\ op \notin Binaries
  /\ \A op \in Unary : op \notin Binaries
BY DEF Literals, Unary, Binaries

(* The three kinds of calls.                                               *)
LEMMA StepCases ==
  ASSUME NEW R, NEW t \in Seq(Byte), HasCode(t)
  PROVE  LET op == Operations[Head(t) + 1]
             x  == R[Tail(t)]
         IN  \/ op \in Literals /\ OperandStep(R, t) = ParseLiteral(op, Tail(t))
             \/ op \in Unary /\ OperandStep(R, t) = Inverted(Tail(t), x)
             \/ op \in Binaries /\ OperandStep(R, t) = Combined(op, x, R[x.rest])
<1>1. Operations[Head(t) + 1] \in Binaries \cup Unary \cup Literals
  BY ReadByteFacts
<1> QED BY <1>1, OperationsApart DEF OperandStep

(* A step reads its code at least, and what it comes to is well-typed.     *)
LEMMA StepType ==
  ASSUME NEW R \in Choices(Seq(Byte), [s \in Seq(Byte) |-> States(s)]), NEW t \in Seq(Byte)
  PROVE  OperandStep(R, t) \in States(t)
<1>1. \A s \in Seq(Byte) : R[s] \in States(s)
  BY DEF Choices
<1>2. CASE ~ HasCode(t)
  <2>1. ReadByte(t).rest \in Seq(Byte) /\ Len(ReadByte(t).rest) <= Len(t)
    BY ReadByteFacts, StateFields
  <2>2. 0 \in Ints
    BY IntsAre
  <2> QED BY <1>2, <2>1, <2>2, StateType DEF OperandStep
<1>3. CASE HasCode(t)
  <2> DEFINE op == Operations[Head(t) + 1]
             u == Tail(t)
             x == R[u]
             y == R[x.rest]
  <2>1. /\ u \in Seq(Byte) /\ Len(t) = Len(u) + 1 /\ Len(u) \in Nat
    BY <1>3, ReadByteFacts, HeadAndTail
  <2>2. x \in States(u)
    BY <1>1, <2>1
  <2> HIDE DEF u, x
  <2>3. /\ x.value \in Ints /\ x.value \in Int
        /\ x.rest \in Seq(Byte) /\ Len(x.rest) \in Nat /\ Len(x.rest) <= Len(u)
        /\ x.bad \in BOOLEAN /\ x.wild \in BOOLEAN /\ x.trap \in BOOLEAN
    BY <2>1, <2>2, StateFields
  <2>4. y \in States(x.rest)
    BY <1>1, <2>3
  <2> HIDE DEF y
  <2>5. /\ y.value \in Ints
        /\ y.rest \in Seq(Byte) /\ Len(y.rest) <= Len(t)
        /\ y.bad \in BOOLEAN /\ y.wild \in BOOLEAN /\ y.trap \in BOOLEAN
    <3>1. /\ y.value \in Ints
          /\ y.rest \in Seq(Byte) /\ Len(y.rest) \in Nat /\ Len(y.rest) <= Len(x.rest)
          /\ y.bad \in BOOLEAN /\ y.wild \in BOOLEAN /\ y.trap \in BOOLEAN
      BY <2>3, <2>4, StateFields
    <3>2. Len(y.rest) <= Len(t)
      BY <2>1, <2>3, <3>1
    <3> QED BY <3>1, <3>2
  <2>6. \A e \in States(u) : e \in States(t)
    <3> SUFFICES ASSUME NEW e \in States(u) PROVE e \in States(t)
      OBVIOUS
    <3>1. /\ e = State(e.value, e.rest, e.bad, e.wild, e.trap)
          /\ e.value \in Ints /\ e.rest \in Seq(Byte)
          /\ Len(e.rest) \in Nat /\ Len(e.rest) <= Len(u)
          /\ e.bad \in BOOLEAN /\ e.wild \in BOOLEAN /\ e.trap \in BOOLEAN
      BY <2>1, StateFields
    <3>2. Len(e.rest) <= Len(t)
      BY <2>1, <3>1
    <3>3. State(e.value, e.rest, e.bad, e.wild, e.trap) \in States(t)
      BY <3>1, <3>2, StateType
    <3> QED BY <3>1, <3>3
  <2>7. CASE op \in Literals /\ OperandStep(R, t) = ParseLiteral(op, u)
    BY <2>1, <2>6, <2>7, ParseLiteralFacts
  <2>8. CASE op \in Unary /\ OperandStep(R, t) = Inverted(u, x)
    <3>1. Inverted(u, x) = State(Negate(x.value), x.rest, x.bad, x.wild /\ HasCode(u), x.trap)
      BY DEF Inverted
    <3>2. Negate(x.value) \in Ints /\ (x.wild /\ HasCode(u)) \in BOOLEAN
      BY <2>3, NegateInt
    <3>3. State(Negate(x.value), x.rest, x.bad, x.wild /\ HasCode(u), x.trap) \in States(u)
      BY <2>1, <2>3, <3>2, StateType
    <3> QED BY <2>6, <2>8, <3>1, <3>3
  <2>9. CASE op \in Binaries /\ OperandStep(R, t) = Combined(op, x, y)
    <3>1. Binary(op, x.value, y.value) \in Ints
      BY <2>3, <2>5, <2>9, BinaryIsValue
    <3> DEFINE b == x.bad \/ y.bad
               w == x.wild \/ y.wild
               p == x.trap \/ y.trap \/ (op \in Divisions /\ (y.wild \/ y.value = 0))
    <3>2. b \in BOOLEAN /\ w \in BOOLEAN /\ p \in BOOLEAN
      OBVIOUS
    <3>3. Combined(op, x, y) = State(Binary(op, x.value, y.value), y.rest, b, w, p)
      BY DEF Combined
    <3> HIDE DEF b, w, p
    <3>4. State(Binary(op, x.value, y.value), y.rest, b, w, p) \in States(t)
      BY <2>5, <3>1, <3>2, StateType
    <3> QED BY <2>9, <3>3, <3>4
  <2> QED BY <1>3, <2>7, <2>8, <2>9, StepCases DEF u, x, y
<1> QED BY <1>2, <1>3

(* What a step makes of t depends on what R tells of shorter inputs.       *)
LEMMA StepLooksAhead ==
  ASSUME NEW S \in Choices(Seq(Byte), [s \in Seq(Byte) |-> States(s)]), NEW R,
         NEW t \in Seq(Byte), \A u \in Seq(Byte) : Len(u) < Len(t) => R[u] = S[u]
  PROVE  OperandStep(R, t) = OperandStep(S, t)
<1>1. CASE ~ HasCode(t)
  BY <1>1 DEF OperandStep
<1>2. CASE HasCode(t)
  <2> DEFINE u == Tail(t)
             x == S[u]
  <2>1. u \in Seq(Byte) /\ Len(t) = Len(u) + 1 /\ Len(u) \in Nat
    BY <1>2, ReadByteFacts, HeadAndTail
  <2> HIDE DEF u
  <2>2. Len(u) < Len(t) /\ R[u] = x
    <3>1. Len(u) < Len(t)
      BY <2>1
    <3> QED BY <2>1, <3>1
  <2>3. x \in States(u)
    BY <2>1 DEF Choices
  <2> HIDE DEF x
  <2>4. x.rest \in Seq(Byte) /\ Len(x.rest) < Len(t)
    <3>1. x.rest \in Seq(Byte) /\ Len(x.rest) \in Nat /\ Len(x.rest) <= Len(u)
      BY <2>1, <2>3, StateFields
    <3> QED BY <2>1, <3>1
  <2>5. R[x.rest] = S[x.rest]
    BY <2>4
  <2> QED BY <1>2, <2>2, <2>5 DEF OperandStep, u, x
<1> QED BY <1>1, <1>2

(* Induction on the length of what is left.                                *)
LEMMA ByLength ==
  ASSUME NEW S, S \subseteq Seq(Byte),
         \A s \in Seq(Byte) : (\A r \in Seq(Byte) : Len(r) < Len(s) => r \in S) => s \in S
  PROVE  S = Seq(Byte)
<1> DEFINE N == {n \in Nat : \E s \in Seq(Byte) : s \notin S /\ Len(s) = n}
<1> SUFFICES ASSUME NEW s \in Seq(Byte), s \notin S PROVE FALSE
  OBVIOUS
<1>1. N \subseteq Nat /\ N # {}
  BY LenProperties
<1>2. PICK k \in N : \A j \in N : k <= j
  <2> HIDE DEF N
  <2> QED BY <1>1, LeastNumber
<1>3. PICK u \in Seq(Byte) : u \notin S /\ Len(u) = k
  OBVIOUS
<1>4. ASSUME NEW r \in Seq(Byte), Len(r) < Len(u), r \notin S PROVE FALSE
  <2>1. Len(r) \in Nat /\ k \in Nat /\ Len(r) < k
    BY <1>3, <1>4, LenProperties
  <2>2. k <= Len(r)
    BY <1>2, <1>4, <2>1
  <2> QED BY <2>1, <2>2
<1> QED BY <1>3, <1>4

(* The equation that defines Operand has a solution, and only one.         *)
LEMMA OperandEquation ==
  \A t \in Seq(Byte) : Operand[t] \in States(t) /\ Operand[t] = OperandStep(Operand, t)
<1> DEFINE D == Seq(Byte)
           V == [t \in D |-> States(t)]
           C == Choices(D, V)
           M == [t \in D |-> Len(t)]
           G == [f \in C |-> [t \in D |-> OperandStep(f, t)]]
           Solves(f) == f = [t \in D |-> OperandStep(f, t)]
<1>1. M \in [D -> Nat]
  BY LenProperties
<1>2. C # {}
  <2> DEFINE f == [t \in D |-> State(0, t, FALSE, FALSE, FALSE)]
  <2>1. ASSUME NEW t \in D PROVE f[t] \in V[t]
    <3>1. 0 \in Ints /\ Len(t) <= Len(t) /\ FALSE \in BOOLEAN
      BY IntsAre, LenProperties
    <3>2. State(0, t, FALSE, FALSE, FALSE) \in States(t)
      BY <3>1, StateType
    <3> QED BY <3>2
  <2> HIDE DEF V
  <2>2. f \in [D -> UNION {V[t] : t \in D}]
    <3> HIDE DEF D
    <3>1. \A t \in D : f[t] \in UNION {V[s] : s \in D}
      BY <2>1
    <3> QED BY <3>1
  <2> QED BY <2>1, <2>2 DEF Choices
<1>3. G \in [C -> C]
  <2> SUFFICES ASSUME NEW f \in C PROVE [t \in D |-> OperandStep(f, t)] \in C
    OBVIOUS
  <2>1. \A t \in D : OperandStep(f, t) \in V[t]
    BY StepType
  <2> HIDE DEF V, D
  <2> QED BY <2>1 DEF Choices
<1>4. \A f, g \in C, t \in D :
        (\A u \in D : M[u] < M[t] => f[u] = g[u]) => G[f][t] = G[g][t]
  BY StepLooksAhead
<1>5. PICK f0 \in C : f0 = G[f0]
  <2> HIDE DEF D, V, C, M, G
  <2> QED BY <1>1, <1>2, <1>3, <1>4, FixedPoint DEF C
<1>6. Solves(f0)
  BY <1>5
<1>7. Operand = CHOOSE f : Solves(f)
  BY DEF Operand, OperandStep
<1>8. Solves(Operand)
  <2> HIDE DEF Solves
  <2> QED BY <1>6, <1>7
<1>9. \A t \in D : Operand[t] = f0[t]
  <2> DEFINE S == {t \in D : Operand[t] = f0[t]}
  <2>1. ASSUME NEW t \in D, \A r \in D : Len(r) < Len(t) => r \in S
        PROVE  t \in S
    <3>1. OperandStep(Operand, t) = OperandStep(f0, t)
      BY <2>1, StepLooksAhead
    <3> QED BY <1>6, <1>8, <3>1
  <2>2. S \subseteq D
    OBVIOUS
  <2> HIDE DEF S
  <2>3. S = D
    BY <2>1, <2>2, ByLength
  <2> QED BY <2>3 DEF S
<1>10. \A t \in D : f0[t] \in States(t)
  BY DEF Choices
<1> QED BY <1>8, <1>9, <1>10

---------------------------------------------------------------------------
(***************************************************************************)
(* Byte sequences and their parts.                                         *)
(***************************************************************************)

LEMMA Cons ==
  ASSUME NEW h \in Byte, NEW e \in Seq(Byte)
  PROVE  LET s == <<h>> \o e
         IN  /\ s \in Seq(Byte) /\ s # <<>> /\ Len(s) = Len(e) + 1
             /\ Head(s) = h /\ Tail(s) = e
<1> DEFINE s == <<h>> \o e
<1>1. <<h>> \in Seq(Byte) /\ Len(<<h>>) = 1 /\ Len(e) \in Nat
  BY LenProperties
<1>2. /\ s \in Seq(Byte) /\ Len(s) = Len(e) + 1
      /\ \A i \in 1 .. Len(e) + 1 : s[i] = IF i <= 1 THEN <<h>>[i] ELSE e[i - 1]
  <2>1. 1 + Len(e) = Len(e) + 1
    BY <1>1
  <2> QED BY <1>1, <2>1, ConcatProperties
<1> HIDE DEF s
<1>3. s # <<>>
  BY <1>1, <1>2, EmptySeq
<1>4. Head(s) = h
  <2>1. 1 \in 1 .. Len(e) + 1
    BY <1>1
  <2>2. s[1] = h
    BY <1>2, <2>1
  <2> QED BY <1>2, <1>3, <2>2
<1>5. Tail(s) = e
  <2>1. /\ Tail(s) \in Seq(Byte) /\ Len(Tail(s)) = Len(e)
        /\ \A i \in 1 .. Len(e) : Tail(s)[i] = s[i + 1]
    BY <1>1, <1>2, <1>3, HeadTailProperties
  <2>2. ASSUME NEW i \in 1 .. Len(e) PROVE Tail(s)[i] = e[i]
    <3>1. PICK j \in 1 .. Len(e) + 1 : j = i + 1 /\ ~ (j <= 1) /\ j - 1 = i
      BY <1>1
    <3>2. s[j] = e[i]
      BY <1>2, <3>1
    <3> QED BY <2>1, <3>1, <3>2
  <2> QED BY <2>1, <2>2, SeqEqual
<1> QED BY <1>2, <1>3, <1>4, <1>5 DEF s

LEMMA HeadThenTail ==
  ASSUME NEW t \in Seq(Byte), t # <<>>
  PROVE  t = <<Head(t)>> \o Tail(t)
<1> DEFINE s == <<Head(t)>> \o Tail(t)
<1>1. Head(t) \in Byte /\ Tail(t) \in Seq(Byte) /\ Len(t) = Len(Tail(t)) + 1 /\ Len(t) \in Nat
  BY HeadAndTail
<1>2. s \in Seq(Byte) /\ s # <<>> /\ Len(s) = Len(t) /\ Head(s) = Head(t) /\ Tail(s) = Tail(t)
  BY <1>1, Cons
<1> HIDE DEF s
<1>3. ASSUME NEW i \in 1 .. Len(t) PROVE t[i] = s[i]
  <2>1. CASE i = 1
    BY <1>2, <2>1
  <2>2. CASE i # 1
    <3>1. PICK j \in 1 .. Len(t) - 1 : i = j + 1
      BY <1>1, <2>2
    <3>2. t[i] = Tail(t)[j] /\ s[i] = Tail(s)[j]
      BY <1>1, <1>2, <3>1, HeadTailProperties
    <3> QED BY <1>2, <3>2
  <2> QED BY <2>1, <2>2
<1>4. t = s
  BY <1>2, <1>3, SeqEqual
<1> QED BY <1>4 DEF s

(* A sequence is what is in front of a place and what is behind it.        *)
LEMMA Parts ==
  ASSUME NEW t \in Seq(Byte), NEW i \in 0 .. Len(t)
  PROVE  /\ Front(t, i) \in Seq(Byte) /\ Len(Front(t, i)) = i
         /\ Back(t, i) \in Seq(Byte) /\ Len(Back(t, i)) = Len(t) - i
         /\ t = Front(t, i) \o Back(t, i)
<1>1. Len(t) \in Nat /\ i \in Int /\ i + 1 \in Int /\ 1 \in Int /\ Len(t) \in Int
  BY LenProperties
<1>2. \A j \in 1 .. Len(t) : t[j] \in Byte
  BY ElementOfSeq
<1>3. Front(t, i) \in Seq(Byte) /\ Len(Front(t, i)) = i
  <2>1. \A j \in 1 .. i : t[j] \in Byte
    BY <1>1, <1>2
  <2>2. SubSeq(t, 1, i) \in Seq(Byte) /\ Len(SubSeq(t, 1, i)) = IF 1 <= i THEN i - 1 + 1 ELSE 0
    BY <1>1, <2>1, SubSeqProperties
  <2> QED BY <1>1, <2>2 DEF Front
<1>4. Back(t, i) \in Seq(Byte) /\ Len(Back(t, i)) = Len(t) - i
  <2>1. \A j \in i + 1 .. Len(t) : t[j] \in Byte
    BY <1>1, <1>2
  <2>2. /\ SubSeq(t, i + 1, Len(t)) \in Seq(Byte)
        /\ Len(SubSeq(t, i + 1, Len(t))) = IF i + 1 <= Len(t) THEN Len(t) - (i + 1) + 1 ELSE 0
    BY <1>1, <2>1, SubSeqProperties
  <2> QED BY <1>1, <2>2 DEF Back
<1>5. Front(t, i) \o Back(t, i) = SubSeq(t, 1, Len(t))
  <2>1. 1 \in 1 .. Len(t) + 1 /\ i \in 1 - 1 .. Len(t) /\ Len(t) \in i .. Len(t)
    BY <1>1
  <2> QED BY <2>1, ConcatAdjacentSubSeq DEF Front, Back
<1> QED BY <1>3, <1>4, <1>5, SubSeqFull

LEMMA Glued ==
  ASSUME NEW d \in Seq(Byte), NEW e \in Seq(Byte)
  PROVE  /\ d \o e \in Seq(Byte) /\ Len(d \o e) = Len(d) + Len(e)
         /\ Len(d) \in 0 .. Len(d \o e)
         /\ Front(d \o e, Len(d)) = d /\ Back(d \o e, Len(d)) = e
<1> DEFINE s == d \o e
           n == Len(d)
<1>1. /\ s \in Seq(Byte) /\ Len(s) = n + Len(e)
      /\ \A i \in 1 .. n + Len(e) : s[i] = IF i <= n THEN d[i] ELSE e[i - n]
      /\ n \in Nat /\ Len(e) \in Nat
  BY ConcatProperties, LenProperties
<1> HIDE DEF s, n
<1>2. n \in 0 .. Len(s) /\ Len(s) \in Nat
  BY <1>1
<1>3. /\ Front(s, n) \in Seq(Byte) /\ Len(Front(s, n)) = n
      /\ Back(s, n) \in Seq(Byte) /\ Len(Back(s, n)) = Len(s) - n
      /\ s = Front(s, n) \o Back(s, n)
  BY <1>1, <1>2, Parts
<1>4. \A i \in 1 .. n + Len(e) :
        s[i] = IF i <= n THEN Front(s, n)[i] ELSE Back(s, n)[i - n]
  <2> DEFINE f == Front(s, n)
             b == Back(s, n)
  <2>1. f \in Seq(Byte) /\ b \in Seq(Byte) /\ Len(f) = n /\ Len(b) = Len(e) /\ s = f \o b
    <3>1. Len(s) - n = Len(e)
      BY <1>1
    <3> QED BY <1>3, <3>1, Zenon
  <2> HIDE DEF f, b
  <2>2. \A i \in 1 .. Len(f) + Len(b) : (f \o b)[i] = IF i <= Len(f) THEN f[i] ELSE b[i - Len(f)]
    BY <2>1, ConcatProperties
  <2>3. \A i \in 1 .. n + Len(e) : s[i] = IF i <= n THEN f[i] ELSE b[i - n]
    BY <2>1, <2>2
  <2> QED BY <2>3 DEF f, b
<1>5. Front(s, n) = d
  <2>1. \A i \in 1 .. n : i \in 1 .. n + Len(e) /\ i <= n
    BY <1>1
  <2>2. \A i \in 1 .. n : Front(s, n)[i] = d[i]
    BY <1>1, <1>4, <2>1
  <2> QED BY <1>3, <2>2, SeqEqual DEF n
<1>6. Back(s, n) = e
  <2>1. ASSUME NEW i \in 1 .. Len(e) PROVE Back(s, n)[i] = e[i]
    <3>1. PICK j \in 1 .. n + Len(e) : j = i + n /\ ~ (j <= n) /\ j - n = i
      BY <1>1
    <3> QED BY <1>1, <1>4, <3>1
  <2>2. Len(Back(s, n)) = Len(e)
    BY <1>1, <1>3
  <2> QED BY <1>3, <2>1, <2>2, SeqEqual
<1> QED BY <1>1, <1>2, <1>5, <1>6 DEF s, n

LEMMA Regrouped ==
  \A a, b, c \in Seq(Byte) : (a \o b) \o c = a \o (b \o c)
BY ConcatAssociative

(* The same, under a name that keeps a step from rewriting it.             *)
Regroups(a, b, c) == (a \o b) \o c = a \o (b \o c)

LEMMA RegroupedOnce ==
  \A a, b, c \in Seq(Byte) : Regroups(a, b, c)
BY Regrouped DEF Regroups

---------------------------------------------------------------------------
(***************************************************************************)
(* Literals.                                                               *)
(***************************************************************************)

LEMMA ReadNext ==
  ASSUME NEW h \in Byte, NEW u \in Seq(Byte)
  PROVE  ReadByte(<<h>> \o u) = State(h, u, FALSE, FALSE, FALSE)
<1>1. <<h>> \o u \in Seq(Byte) /\ <<h>> \o u # <<>>
      /\ Head(<<h>> \o u) = h /\ Tail(<<h>> \o u) = u
  BY Cons
<1> QED BY <1>1, ReadByteFacts

LEMMA Lengths ==
  ASSUME NEW op \in Literals
  PROVE  \/ op \in {"UINT8", "INT8", "REPOSITORY"} /\ LiteralLength(op) = 1
         \/ op \in {"UINT16", "INT16"} /\ LiteralLength(op) = 2
BY DEF Literals, LiteralLength

(* Sequences of one byte and of two.                                       *)
LEMMA OneByte ==
  ASSUME NEW d \in Seq(Byte), Len(d) = 1
  PROVE  d[1] \in Byte /\ d = <<d[1]>>
<1>1. <<d[1]>> \in Seq(Byte) /\ Len(<<d[1]>>) = 1 /\ d[1] \in Byte
  BY ElementOfSeq
<1>2. \A i \in 1 .. 1 : d[i] = <<d[1]>>[i]
  OBVIOUS
<1> QED BY <1>1, <1>2, SeqEqual

LEMMA TwoBytes ==
  ASSUME NEW d \in Seq(Byte), Len(d) = 2, NEW u \in Seq(Byte)
  PROVE  /\ d[1] \in Byte /\ d[2] \in Byte
         /\ <<d[2]>> \o u \in Seq(Byte) /\ d \o u = <<d[1]>> \o (<<d[2]>> \o u)
<1>1. 1 \in 1 .. Len(d) /\ 2 \in 1 .. Len(d)
  OBVIOUS
<1>2. d[1] \in Byte /\ d[2] \in Byte
  BY <1>1, ElementOfSeq
<1>3. <<d[1]>> \in Seq(Byte) /\ <<d[2]>> \in Seq(Byte)
  BY <1>2
<1>4. /\ <<d[1]>> \o <<d[2]>> \in Seq(Byte) /\ Len(<<d[1]>> \o <<d[2]>>) = 2
      /\ (<<d[1]>> \o <<d[2]>>)[1] = d[1] /\ (<<d[1]>> \o <<d[2]>>)[2] = d[2]
  BY <1>3
<1>5. \A i \in 1 .. 2 : d[i] = (<<d[1]>> \o <<d[2]>>)[i]
  BY <1>4
<1>6. d = <<d[1]>> \o <<d[2]>>
  BY <1>4, <1>5, SeqEqual
<1>7. (<<d[1]>> \o <<d[2]>>) \o u = <<d[1]>> \o (<<d[2]>> \o u)
  BY <1>3, ConcatAssociative
<1>8. <<d[2]>> \o u \in Seq(Byte)
  BY <1>2, Cons
<1> QED BY <1>2, <1>6, <1>7, <1>8

(* The conversions of the bytes of a literal.                              *)
LEMMA OneByteNumber ==
  ASSUME NEW d, d[1] \in Byte
  PROVE  /\ Number("UINT8", d) = Unsigned(d[1])
         /\ Number("INT8", d) = Byte8(Unsigned(d[1]))
         /\ Number("REPOSITORY", d) = RepositoryValue(Unsigned(d[1]))
<1>1. d[1] \in Int /\ 0 <= d[1] /\ d[1] < 256
  BY BytesAre
<1>2. Unsigned(d[1]) = d[1]
  BY <1>1 DEF Unsigned
<1> QED BY <1>1, <1>2 DEF Number, Byte8, RepositoryValue

LEMMA TwoByteNumber ==
  ASSUME NEW op \in {"UINT16", "INT16"}, NEW d, d[1] \in Byte, d[2] \in Byte
  PROVE  Number(op, d) = Wrap(d[1] * 256 + d[2])
<1> DEFINE h == d[1]
           l == d[2]
<1>1. h \in Int /\ 0 <= h /\ h < 256 /\ l \in Int /\ 0 <= l /\ l < 256
  BY BytesAre
<1>2. Number(op, d) = IF h < 128 THEN h * 256 + l ELSE (h - 256) * 256 + l
  BY DEF Number
<1> HIDE DEF h, l
<1>3. Wrap(h * 256 + l) = IF h < 128 THEN h * 256 + l ELSE (h - 256) * 256 + l
  BY <1>1 DEF Wrap
<1> QED BY <1>2, <1>3 DEF h, l

(* A literal that is there has the number its bytes stand for, and what    *)
(* follows it is left.                                                     *)
LEMMA LiteralReads ==
  ASSUME NEW op \in Literals, NEW d \in Seq(Byte), Len(d) = LiteralLength(op),
         NEW u \in Seq(Byte)
  PROVE  ParseLiteral(op, d \o u) = State(Number(op, d), u, FALSE, FALSE, FALSE)
<1>1. CASE op \in {"UINT8", "INT8", "REPOSITORY"} /\ Len(d) = 1
  <2> DEFINE b == ReadByte(d \o u)
  <2>1. d[1] \in Byte /\ d = <<d[1]>>
    BY <1>1, OneByte
  <2>2. ReadByte(<<d[1]>> \o u) = State(d[1], u, FALSE, FALSE, FALSE)
    BY <2>1, ReadNext
  <2>3. b = State(d[1], u, FALSE, FALSE, FALSE)
    BY <2>1, <2>2
  <2> HIDE DEF b
  <2>4. b.value = d[1] /\ b.rest = u /\ b.bad = FALSE
    BY <2>3 DEF State
  <2>5. ParseLiteral(op, d \o u) = ParseByte(op, d \o u)
    BY <1>1 DEF ParseLiteral
  <2>6. CASE op = "UINT8"
    BY <2>1, <2>4, <2>5, <2>6, OneByteNumber DEF ParseByte, b
  <2>7. CASE op = "INT8"
    BY <2>1, <2>4, <2>5, <2>7, OneByteNumber DEF ParseByte, b
  <2>8. CASE op = "REPOSITORY"
    BY <2>1, <2>4, <2>5, <2>8, OneByteNumber DEF ParseByte, b
  <2> QED BY <1>1, <2>6, <2>7, <2>8
<1>2. CASE op \in {"UINT16", "INT16"} /\ Len(d) = 2
  <2> DEFINE hi == ReadByte(d \o u)
             lo == ReadByte(hi.rest)
  <2>1. /\ d[1] \in Byte /\ d[2] \in Byte /\ <<d[2]>> \o u \in Seq(Byte)
        /\ d \o u = <<d[1]>> \o (<<d[2]>> \o u)
    BY <1>2, TwoBytes
  <2>2. ReadByte(<<d[1]>> \o (<<d[2]>> \o u)) = State(d[1], <<d[2]>> \o u, FALSE, FALSE, FALSE)
    BY <2>1, ReadNext
  <2>3. hi = State(d[1], <<d[2]>> \o u, FALSE, FALSE, FALSE)
    BY <2>1, <2>2
  <2> HIDE DEF hi
  <2>4. hi.rest = <<d[2]>> \o u /\ hi.value = d[1]
    BY <2>3 DEF State
  <2>5. lo = State(d[2], u, FALSE, FALSE, FALSE)
    BY <2>1, <2>4, ReadNext
  <2> HIDE DEF lo
  <2>6. lo.value = d[2] /\ lo.rest = u /\ lo.bad = FALSE
    BY <2>5 DEF State
  <2>7. ParseLiteral(op, d \o u) = ParsePair(d \o u)
    BY <1>2 DEF ParseLiteral
  <2>8. ParsePair(d \o u) = State(Wrap(d[1] * 256 + d[2]), u, FALSE, FALSE, FALSE)
    <3> DEFINE v == IF lo.bad THEN 65535 ELSE hi.value * 256 + lo.value
    <3>1. ParsePair(d \o u) = State(Wrap(v), lo.rest, lo.bad, FALSE, FALSE)
      BY DEF ParsePair, hi, lo
    <3>2. v = d[1] * 256 + d[2]
      BY <2>4, <2>6
    <3> HIDE DEF v
    <3> QED BY <2>6, <3>1, <3>2
  <2>9. Number(op, d) = Wrap(d[1] * 256 + d[2])
    BY <1>2, <2>1, TwoByteNumber
  <2> QED BY <2>7, <2>8, <2>9
<1> QED BY <1>1, <1>2, Lengths

(* Nothing is missing only where the bytes of a literal are there.         *)
LEMMA LiteralAccepted ==
  ASSUME NEW op \in Literals, NEW t \in Seq(Byte), ~ ParseLiteral(op, t).bad
  PROVE  \E d \in Seq(Byte) : /\ Len(d) = LiteralLength(op)
                              /\ t = d \o ParseLiteral(op, t).rest
<1>1. \A s \in Seq(Byte) :
        ~ ReadByte(s).bad => /\ s # <<>> /\ ReadByte(s).rest = Tail(s)
                             /\ Head(s) \in Byte /\ Tail(s) \in Seq(Byte)
                             /\ s = <<Head(s)>> \o Tail(s)
  <2> SUFFICES ASSUME NEW s \in Seq(Byte), ~ ReadByte(s).bad
               PROVE  /\ s # <<>> /\ ReadByte(s).rest = Tail(s)
                      /\ Head(s) \in Byte /\ Tail(s) \in Seq(Byte)
                      /\ s = <<Head(s)>> \o Tail(s)
    OBVIOUS
  <2>1. s # <<>>
    <3>1. s = <<>> => ReadByte(s) = State(-1, s, TRUE, FALSE, FALSE)
      BY ReadByteFacts
    <3> QED BY <3>1 DEF State
  <2>2. ReadByte(s) = State(Head(s), Tail(s), FALSE, FALSE, FALSE)
    BY <2>1, ReadByteFacts
  <2>3. ReadByte(s).rest = Tail(s)
    BY <2>2 DEF State
  <2> QED BY <2>1, <2>3, HeadAndTail, HeadThenTail
<1>2. CASE op \in {"UINT8", "INT8", "REPOSITORY"} /\ LiteralLength(op) = 1
  <2>1. ParseLiteral(op, t) = ParseByte(op, t)
    BY <1>2 DEF ParseLiteral
  <2>2. ParseByte(op, t).rest = ReadByte(t).rest /\ ParseByte(op, t).bad = ReadByte(t).bad
    BY DEF ParseByte, State
  <2>3. /\ ParseLiteral(op, t).rest = Tail(t) /\ Head(t) \in Byte
        /\ t = <<Head(t)>> \o Tail(t)
    BY <1>1, <2>1, <2>2
  <2>4. <<Head(t)>> \in Seq(Byte) /\ Len(<<Head(t)>>) = 1
    BY <2>3
  <2> QED BY <1>2, <2>3, <2>4
<1>3. CASE op \in {"UINT16", "INT16"} /\ LiteralLength(op) = 2
  <2> DEFINE lo == ReadByte(ReadByte(t).rest)
  <2>1. ParseLiteral(op, t) = ParsePair(t)
    BY <1>3 DEF ParseLiteral
  <2>2. ParsePair(t).rest = lo.rest /\ ParsePair(t).bad = lo.bad
    BY DEF ParsePair, State
  <2>3. ReadByte(t).rest \in Seq(Byte)
    BY ReadByteFacts, StateFields
  <2>4. ReadByte(t).rest # <<>>
    BY <1>1, <2>1, <2>2, <2>3
  <2>5. t # <<>>
    <3>1. t = <<>> => ReadByte(t) = State(-1, t, TRUE, FALSE, FALSE)
      BY ReadByteFacts
    <3> QED BY <2>4, <3>1 DEF State
  <2>6. ReadByte(t) = State(Head(t), Tail(t), FALSE, FALSE, FALSE)
    BY <2>5, ReadByteFacts
  <2>7. ReadByte(t).rest = Tail(t) /\ ~ ReadByte(t).bad
    BY <2>6 DEF State
  <2> DEFINE h == Head(t)
             w == Tail(t)
             d == <<h>> \o <<Head(w)>>
  <2>8. h \in Byte /\ w \in Seq(Byte) /\ t = <<h>> \o w
    BY <1>1, <2>7
  <2>9. /\ ParseLiteral(op, t).rest = Tail(w)
        /\ Head(w) \in Byte /\ Tail(w) \in Seq(Byte) /\ w = <<Head(w)>> \o Tail(w)
    BY <1>1, <2>1, <2>2, <2>3, <2>7
  <2> HIDE DEF h, w
  <2>10. /\ <<h>> \in Seq(Byte) /\ <<Head(w)>> \in Seq(Byte)
         /\ Len(<<Head(w)>>) = 1
    BY <2>8, <2>9
  <2>11. d \in Seq(Byte) /\ Len(d) = 2
    BY <2>8, <2>10, Cons
  <2>12. d \o Tail(w) = <<h>> \o (<<Head(w)>> \o Tail(w))
    BY <2>9, <2>10, ConcatAssociative
  <2> QED BY <1>3, <2>8, <2>9, <2>11, <2>12
<1> QED BY <1>2, <1>3, Lengths

---------------------------------------------------------------------------
(***************************************************************************)
(* What specifications mean.                                               *)
(***************************************************************************)

Outcomes == Ints \cup {Undefined}

LEMMA NumberInts ==
  ASSUME NEW op \in Literals, NEW d \in Seq(Byte), Len(d) = LiteralLength(op)
  PROVE  Number(op, d) \in Ints
<1>1. <<>> \in Seq(Byte) /\ d \o <<>> = d
  BY EmptySeq, ConcatEmptySeq
<1>2. ParseLiteral(op, d \o <<>>) = State(Number(op, d), <<>>, FALSE, FALSE, FALSE)
  BY <1>1, LiteralReads
<1>3. State(Number(op, d), <<>>, FALSE, FALSE, FALSE) \in States(d)
  BY <1>1, <1>2, ParseLiteralFacts
<1>4. State(Number(op, d), <<>>, FALSE, FALSE, FALSE).value \in Ints
  BY <1>3, StateFields
<1> QED BY <1>4 DEF State

LEMMA OppositeOutcome ==
  ASSUME NEW x \in Outcomes
  PROVE  /\ Opposite(x) \in Outcomes
         /\ Opposite(x) = IF x = Undefined THEN Undefined ELSE Negate(x)
         /\ x # Undefined => x \in Ints /\ Negate(x) # Undefined
<1>1. \A i \in Ints : i \in Int /\ i # Undefined
  BY IntsAre, MembershipAssumption
<1>2. CASE x = Undefined
  BY <1>2 DEF Opposite, Outcomes
<1>3. CASE x # Undefined
  <2>1. x \in Ints /\ x \in Int
    BY <1>1, <1>3 DEF Outcomes
  <2>2. Opposite(x) = Negate(x) /\ Negate(x) \in Ints
    BY <1>3, <2>1, NegateInt DEF Opposite
  <2> QED BY <1>1, <1>3, <2>1, <2>2 DEF Outcomes
<1> QED BY <1>2, <1>3

LEMMA ValueOutcome ==
  ASSUME NEW op \in Binaries, NEW x \in Outcomes, NEW y \in Outcomes
  PROVE  /\ Value(op, x, y) \in Outcomes
         /\ Undefined \in {x, y} => Value(op, x, y) = Undefined
         /\ Undefined \notin {x, y} =>
              /\ x \in Ints /\ y \in Ints
              /\ Value(op, x, y) # Undefined => Value(op, x, y) = Binary(op, x, y)
              /\ Value(op, x, y) = Undefined <=> op \in Divisions /\ y = 0
<1>1. \A i \in Ints : i # Undefined
  BY IntsAre, MembershipAssumption
<1>2. CASE Undefined \in {x, y}
  <2>1. Value(op, x, y) = Undefined
    BY <1>2 DEF Value
  <2> QED BY <1>2, <2>1 DEF Outcomes
<1>3. CASE Undefined \notin {x, y}
  <2>1. x \in Ints /\ y \in Ints
    BY <1>3 DEF Outcomes
  <2>2. /\ Binary(op, x, y) \in Ints
        /\ Value(op, x, y) = IF op \in Divisions /\ y = 0 THEN Undefined ELSE Binary(op, x, y)
    BY <2>1, BinaryIsValue
  <2> QED BY <1>1, <1>3, <2>1, <2>2 DEF Outcomes
<1> QED BY <1>2, <1>3

(* One level of the recursion, if R tells what the parts mean.             *)
MeaningsStep(R, s) ==
  IF ~ HasCode(s) THEN {}
  ELSE LET op == Operations[Head(s) + 1]
           t  == Tail(s) IN
       CASE op \in Literals -> IF Len(t) = LiteralLength(op) THEN {Number(op, t)} ELSE {}
         [] op \in Unary -> {Opposite(x) : x \in R[t]}
         [] OTHER -> UNION {{Value(op, x, y) : x \in R[Front(t, i)], y \in R[Back(t, i)]} :
                              i \in 1 .. Len(t) - 1}

(* v is the value of a literal, of an operation on one expression or of    *)
(* one on two.                                                             *)
OfLiteral(s, v) ==
  LET op == Operations[Head(s) + 1] IN
  op \in Literals /\ Len(Tail(s)) = LiteralLength(op) /\ v = Number(op, Tail(s))

OfUnary(R, s, v) ==
  LET op == Operations[Head(s) + 1] IN
  op \in Unary /\ \E x \in R[Tail(s)] : v = Opposite(x)

OfBinary(R, s, v) ==
  LET op == Operations[Head(s) + 1]
      t  == Tail(s) IN
  op \in Binaries /\ \E i \in 1 .. Len(t) - 1 :
                       \E x \in R[Front(t, i)], y \in R[Back(t, i)] : v = Value(op, x, y)

LEMMA MeaningsStepIs ==
  ASSUME NEW R, NEW s \in Seq(Byte), NEW v
  PROVE  v \in MeaningsStep(R, s)
           <=> HasCode(s) /\ (OfLiteral(s, v) \/ OfUnary(R, s, v) \/ OfBinary(R, s, v))
<1>1. CASE ~ HasCode(s)
  BY <1>1 DEF MeaningsStep
<1>2. CASE HasCode(s)
  <2> DEFINE op == Operations[Head(s) + 1]
             t == Tail(s)
  <2>1. op \in Binaries \cup Unary \cup Literals
    BY <1>2, ReadByteFacts
  <2> HIDE DEF op, t
  <2>2. CASE op \in Literals
    <3>1. MeaningsStep(R, s) = IF Len(t) = LiteralLength(op) THEN {Number(op, t)} ELSE {}
      <4>1. op \notin Unary
        BY <2>2, OperationsApart
      <4> QED BY <1>2, <2>2, <4>1 DEF MeaningsStep, op, t
    <3>2. ~ OfUnary(R, s, v) /\ ~ OfBinary(R, s, v)
      BY <2>2, OperationsApart DEF OfUnary, OfBinary, op
    <3>3. OfLiteral(s, v) <=> Len(t) = LiteralLength(op) /\ v = Number(op, t)
      BY <2>2 DEF OfLiteral, op, t
    <3> QED BY <1>2, <3>1, <3>2, <3>3
  <2>3. CASE op \in Unary
    <3>1. op \notin Literals /\ op \notin Binaries
      BY <2>3, OperationsApart
    <3>2. MeaningsStep(R, s) = {Opposite(x) : x \in R[t]}
      BY <1>2, <2>3, <3>1 DEF MeaningsStep, op, t
    <3>3. ~ OfLiteral(s, v) /\ ~ OfBinary(R, s, v)
      BY <3>1 DEF OfLiteral, OfBinary, op
    <3>4. OfUnary(R, s, v) <=> \E x \in R[t] : v = Opposite(x)
      BY <2>3 DEF OfUnary, op, t
    <3> QED BY <1>2, <3>2, <3>3, <3>4
  <2>4. CASE op \in Binaries
    <3>1. op \notin Literals /\ op \notin Unary
      BY <2>4, OperationsApart
    <3>2. MeaningsStep(R, s)
            = UNION {{Value(op, x, y) : x \in R[Front(t, i)], y \in R[Back(t, i)]} :
                       i \in 1 .. Len(t) - 1}
      BY <1>2, <3>1 DEF MeaningsStep, op, t
    <3>3. ~ OfLiteral(s, v) /\ ~ OfUnary(R, s, v)
      BY <3>1 DEF OfLiteral, OfUnary, op
    <3>4. OfBinary(R, s, v) <=> \E i \in 1 .. Len(t) - 1 :
             \E x \in R[Front(t, i)], y \in R[Back(t, i)] : v = Value(op, x, y)
      BY <2>4 DEF OfBinary, op, t
    <3> QED BY <1>2, <3>2, <3>3, <3>4
  <2> QED BY <2>1, <2>2, <2>3, <2>4
<1> QED BY <1>1, <1>2

(* The parts of an expression without its operation, and those parts'.     *)
LEMMA Shorter ==
  ASSUME NEW s \in Seq(Byte), HasCode(s)
  PROVE  /\ Tail(s) \in Seq(Byte) /\ Len(Tail(s)) \in Nat /\ Len(Tail(s)) < Len(s)
         /\ \A i \in 1 .. Len(Tail(s)) - 1 :
              /\ Front(Tail(s), i) \in Seq(Byte) /\ Len(Front(Tail(s), i)) < Len(s)
              /\ Back(Tail(s), i) \in Seq(Byte) /\ Len(Back(Tail(s), i)) < Len(s)
              /\ Tail(s) = Front(Tail(s), i) \o Back(Tail(s), i)
<1> DEFINE t == Tail(s)
<1>1. t \in Seq(Byte) /\ Len(t) \in Nat /\ Len(s) = Len(t) + 1
  BY ReadByteFacts, HeadAndTail
<1> HIDE DEF t
<1>2. ASSUME NEW i \in 1 .. Len(t) - 1
      PROVE  /\ Front(t, i) \in Seq(Byte) /\ Len(Front(t, i)) < Len(s)
             /\ Back(t, i) \in Seq(Byte) /\ Len(Back(t, i)) < Len(s)
             /\ t = Front(t, i) \o Back(t, i)
  <2>1. i \in 0 .. Len(t) /\ i < Len(s) /\ Len(t) - i < Len(s)
    BY <1>1
  <2> QED BY <1>1, <2>1, Parts
<1>3. Len(t) < Len(s)
  BY <1>1
<1> QED BY <1>1, <1>2, <1>3 DEF t

LEMMA MeaningsType ==
  ASSUME NEW R \in Choices(Seq(Byte), [s \in Seq(Byte) |-> SUBSET Outcomes]),
         NEW s \in Seq(Byte)
  PROVE  MeaningsStep(R, s) \in SUBSET Outcomes
<1>1. \A t \in Seq(Byte) : R[t] \subseteq Outcomes
  BY DEF Choices
<1> SUFFICES ASSUME NEW v \in MeaningsStep(R, s)
             PROVE  v \in Outcomes
  OBVIOUS
<1>2. HasCode(s) /\ (OfLiteral(s, v) \/ OfUnary(R, s, v) \/ OfBinary(R, s, v))
  BY MeaningsStepIs
<1>3. CASE OfLiteral(s, v)
  BY <1>2, <1>3, Shorter, NumberInts DEF OfLiteral, Outcomes
<1>4. CASE OfUnary(R, s, v)
  BY <1>1, <1>2, <1>4, Shorter, OppositeOutcome DEF OfUnary
<1>5. CASE OfBinary(R, s, v)
  <2> DEFINE op == Operations[Head(s) + 1]
             t == Tail(s)
  <2>1. PICK i \in 1 .. Len(t) - 1 :
          \E x \in R[Front(t, i)], y \in R[Back(t, i)] : v = Value(op, x, y)
    BY <1>5 DEF OfBinary
  <2>2. op \in Binaries
    BY <1>5 DEF OfBinary
  <2>3. Front(t, i) \in Seq(Byte) /\ Back(t, i) \in Seq(Byte)
    BY <1>2, Shorter
  <2>4. PICK x \in R[Front(t, i)], y \in R[Back(t, i)] : v = Value(op, x, y)
    BY <2>1
  <2>5. x \in Outcomes /\ y \in Outcomes
    BY <1>1, <2>3
  <2> HIDE DEF op
  <2> QED BY <2>2, <2>4, <2>5, ValueOutcome
<1> QED BY <1>2, <1>3, <1>4, <1>5

LEMMA MeaningsLookAhead ==
  ASSUME NEW R, NEW S, NEW s \in Seq(Byte),
         \A u \in Seq(Byte) : Len(u) < Len(s) => R[u] = S[u]
  PROVE  MeaningsStep(R, s) = MeaningsStep(S, s)
<1>1. ASSUME NEW v, HasCode(s) PROVE OfUnary(R, s, v) <=> OfUnary(S, s, v)
  <2>1. R[Tail(s)] = S[Tail(s)]
    BY <1>1, Shorter
  <2> QED BY <2>1 DEF OfUnary
<1>2. ASSUME NEW v, HasCode(s) PROVE OfBinary(R, s, v) <=> OfBinary(S, s, v)
  <2>1. \A i \in 1 .. Len(Tail(s)) - 1 :
          /\ R[Front(Tail(s), i)] = S[Front(Tail(s), i)]
          /\ R[Back(Tail(s), i)] = S[Back(Tail(s), i)]
    BY <1>2, Shorter
  <2> QED BY <2>1 DEF OfBinary
<1>3. \A v : v \in MeaningsStep(R, s) <=> v \in MeaningsStep(S, s)
  BY <1>1, <1>2, MeaningsStepIs
<1> QED BY <1>3

LEMMA MeaningsEquation ==
  \A s \in Seq(Byte) : Meanings[s] \subseteq Outcomes /\ Meanings[s] = MeaningsStep(Meanings, s)
<1> DEFINE D == Seq(Byte)
           V == [s \in D |-> SUBSET Outcomes]
           C == Choices(D, V)
           M == [s \in D |-> Len(s)]
           G == [f \in C |-> [s \in D |-> MeaningsStep(f, s)]]
           Solves(f) == f = [s \in D |-> MeaningsStep(f, s)]
<1>1. M \in [D -> Nat]
  BY LenProperties
<1>2. C # {}
  <2> DEFINE f == [s \in D |-> {}]
  <2>1. \A s \in D : f[s] \in V[s]
    OBVIOUS
  <2> HIDE DEF V, D
  <2>2. f \in [D -> UNION {V[s] : s \in D}]
    BY <2>1
  <2> QED BY <2>1, <2>2 DEF Choices
<1>3. G \in [C -> C]
  <2> SUFFICES ASSUME NEW f \in C PROVE [s \in D |-> MeaningsStep(f, s)] \in C
    OBVIOUS
  <2>1. \A s \in D : MeaningsStep(f, s) \in V[s]
    BY MeaningsType
  <2> HIDE DEF V, D
  <2> QED BY <2>1 DEF Choices
<1>4. \A f, g \in C, s \in D :
        (\A u \in D : M[u] < M[s] => f[u] = g[u]) => G[f][s] = G[g][s]
  BY MeaningsLookAhead
<1>5. PICK f0 \in C : f0 = G[f0]
  <2> HIDE DEF D, V, C, M, G
  <2> QED BY <1>1, <1>2, <1>3, <1>4, FixedPoint DEF C
<1>6. Solves(f0)
  BY <1>5
<1>7. Meanings = CHOOSE f : Solves(f)
  BY DEF Meanings, MeaningsStep
<1>8. Solves(Meanings)
  <2> HIDE DEF Solves
  <2> QED BY <1>6, <1>7
<1>9. \A s \in D : Meanings[s] = f0[s]
  <2> DEFINE S == {s \in D : Meanings[s] = f0[s]}
  <2>1. ASSUME NEW s \in D, \A r \in D : Len(r) < Len(s) => r \in S
        PROVE  s \in S
    <3>1. MeaningsStep(Meanings, s) = MeaningsStep(f0, s)
      BY <2>1, MeaningsLookAhead
    <3> QED BY <1>6, <1>8, <3>1
  <2>2. S \subseteq D
    OBVIOUS
  <2> HIDE DEF S
  <2>3. S = D
    BY <2>1, <2>2, ByLength
  <2> QED BY <2>3 DEF S
<1>10. \A s \in D : f0[s] \subseteq Outcomes
  BY DEF Choices
<1> QED BY <1>8, <1>9, <1>10

---------------------------------------------------------------------------
(***************************************************************************)
(* The interpreter makes of an expression what it means.                   *)
(***************************************************************************)

(* x is the state after an expression of the value v, with u to follow.    *)
AsMeant(x, u, v) ==
  /\ x.rest = u /\ x.bad = FALSE /\ x.wild = FALSE
  /\ x.trap <=> v = Undefined
  /\ v # Undefined => x.value = v

(* Bytes that begin with an operation are its code and the others, and     *)
(* remain so when more bytes follow.                                       *)
LEMMA Followed ==
  ASSUME NEW e \in Seq(Byte), HasCode(e), NEW u \in Seq(Byte)
  PROVE  /\ e \o u \in Seq(Byte) /\ HasCode(e \o u)
         /\ Head(e \o u) = Head(e) /\ Tail(e \o u) = Tail(e) \o u
<1> DEFINE h == Head(e)
           t == Tail(e)
<1>1. h \in Byte /\ t \in Seq(Byte) /\ IsValid(h) /\ e = <<h>> \o t
  BY ReadByteFacts, HeadAndTail, HeadThenTail
<1> HIDE DEF h, t
<1>2. <<h>> \in Seq(Byte)
  BY <1>1
<1>3. e \o u = <<h>> \o (t \o u)
  BY <1>1, <1>2, ConcatAssociative
<1>4. t \o u \in Seq(Byte)
  BY <1>1, Glued
<1>5. /\ <<h>> \o (t \o u) \in Seq(Byte) /\ <<h>> \o (t \o u) # <<>>
      /\ Head(<<h>> \o (t \o u)) = h /\ Tail(<<h>> \o (t \o u)) = t \o u
  BY <1>1, <1>4, Cons
<1>6. e \o u \in Seq(Byte) /\ e \o u # <<>> /\ Head(e \o u) = h /\ Tail(e \o u) = t \o u
  BY <1>3, <1>5
<1>7. HasCode(e \o u)
  BY <1>1, <1>6, ReadByteFacts
<1> QED BY <1>6, <1>7 DEF h, t

LEMMA InvertedAsMeant ==
  ASSUME NEW t, NEW x, NEW u, NEW v \in Outcomes, AsMeant(x, u, v)
  PROVE  AsMeant(Inverted(t, x), u, Opposite(v))
<1> DEFINE z == Inverted(t, x)
<1>1. /\ z.value = Negate(x.value) /\ z.rest = x.rest /\ z.bad = x.bad
      /\ z.wild = (x.wild /\ HasCode(t)) /\ z.trap = x.trap
  BY DEF Inverted, State
<1> HIDE DEF z
<1>2. /\ Opposite(v) = IF v = Undefined THEN Undefined ELSE Negate(v)
      /\ v # Undefined => Negate(v) # Undefined
  BY OppositeOutcome
<1>3. z.rest = u /\ z.bad = FALSE /\ z.wild = FALSE
  BY <1>1 DEF AsMeant
<1>4. CASE v = Undefined
  <2>1. Opposite(v) = Undefined /\ z.trap
    BY <1>1, <1>2, <1>4 DEF AsMeant
  <2> QED BY <1>3, <2>1 DEF AsMeant, z
<1>5. CASE v # Undefined
  <2>1. Opposite(v) = Negate(v) /\ Negate(v) # Undefined
    BY <1>2, <1>5
  <2>2. z.value = Negate(v) /\ ~ z.trap
    BY <1>1, <1>5 DEF AsMeant
  <2> QED BY <1>3, <2>1, <2>2 DEF AsMeant, z
<1> QED BY <1>4, <1>5 DEF z

LEMMA CombinedAsMeant ==
  ASSUME NEW op \in Binaries, NEW x, NEW y, NEW w, NEW u,
         NEW v1 \in Outcomes, NEW v2 \in Outcomes, AsMeant(x, w, v1), AsMeant(y, u, v2)
  PROVE  AsMeant(Combined(op, x, y), u, Value(op, v1, v2))
<1> DEFINE z == Combined(op, x, y)
           v == Value(op, v1, v2)
<1>1. /\ z.value = Binary(op, x.value, y.value) /\ z.rest = y.rest
      /\ z.bad = (x.bad \/ y.bad) /\ z.wild = (x.wild \/ y.wild)
      /\ z.trap = (x.trap \/ y.trap \/ (op \in Divisions /\ (y.wild \/ y.value = 0)))
  BY DEF Combined, State
<1>2. /\ Undefined \in {v1, v2} => v = Undefined
      /\ Undefined \notin {v1, v2} =>
           /\ v # Undefined => v = Binary(op, v1, v2)
           /\ v = Undefined <=> op \in Divisions /\ v2 = 0
  BY ValueOutcome
<1> HIDE DEF z, v
<1>3. z.rest = u /\ z.bad = FALSE /\ z.wild = FALSE
  BY <1>1 DEF AsMeant
<1>4. CASE Undefined \in {v1, v2}
  <2>1. v = Undefined
    BY <1>2, <1>4
  <2>2. z.trap
    BY <1>1, <1>4 DEF AsMeant
  <2> QED BY <1>3, <2>1, <2>2 DEF AsMeant, z, v
<1>5. CASE Undefined \notin {v1, v2}
  <2>1. x.value = v1 /\ y.value = v2 /\ ~ x.trap /\ ~ y.trap /\ ~ y.wild
    BY <1>5 DEF AsMeant
  <2>2. z.trap <=> v = Undefined
    BY <1>1, <1>2, <1>5, <2>1
  <2>3. v # Undefined => z.value = v
    BY <1>1, <1>2, <1>5, <2>1
  <2> QED BY <1>3, <2>2, <2>3 DEF AsMeant, z, v
<1> QED BY <1>4, <1>5 DEF z, v

(* Whatever follows an expression, the interpreter reads the expression,   *)
(* has its value and leaves what follows.                                  *)
LEMMA Reads ==
  ASSUME NEW e \in Seq(Byte), NEW v \in Meanings[e], NEW u \in Seq(Byte)
  PROVE  AsMeant(Operand[e \o u], u, v)
<1> DEFINE Read == {s \in Seq(Byte) :
                      \A n \in Meanings[s], r \in Seq(Byte) : AsMeant(Operand[s \o r], r, n)}
<1>1. ASSUME NEW s \in Seq(Byte), \A r \in Seq(Byte) : Len(r) < Len(s) => r \in Read
      PROVE  s \in Read
  <2> SUFFICES ASSUME NEW n \in Meanings[s], NEW r \in Seq(Byte)
               PROVE  AsMeant(Operand[s \o r], r, n)
    OBVIOUS
  <2> DEFINE op == Operations[Head(s) + 1]
             t == Tail(s)
             x == Operand[t \o r]
  <2>1. HasCode(s) /\ (OfLiteral(s, n) \/ OfUnary(Meanings, s, n) \/ OfBinary(Meanings, s, n))
    BY MeaningsEquation, MeaningsStepIs
  <2>2. /\ s \o r \in Seq(Byte) /\ HasCode(s \o r)
        /\ Head(s \o r) = Head(s) /\ Tail(s \o r) = t \o r
    BY <2>1, Followed
  <2>3. \/ op \in Literals /\ Operand[s \o r] = ParseLiteral(op, t \o r)
        \/ op \in Unary /\ Operand[s \o r] = Inverted(t \o r, x)
        \/ op \in Binaries /\ Operand[s \o r] = Combined(op, x, Operand[x.rest])
    BY <2>2, OperandEquation, StepCases
  <2>4. t \in Seq(Byte) /\ Len(t) < Len(s)
    BY <2>1, Shorter
  <2>5. CASE OfLiteral(s, n)
    <3>1. op \in Literals /\ Len(t) = LiteralLength(op) /\ n = Number(op, t)
      BY <2>5 DEF OfLiteral
    <3>2. Operand[s \o r] = ParseLiteral(op, t \o r)
      BY <2>3, <3>1, OperationsApart
    <3> HIDE DEF op, t, x
    <3>3. Operand[s \o r] = State(n, r, FALSE, FALSE, FALSE)
      BY <2>4, <3>1, <3>2, LiteralReads
    <3>4. n # Undefined
      BY <2>4, <3>1, NumberInts, IntsAre, MembershipAssumption
    <3> QED BY <3>3, <3>4 DEF AsMeant, State
  <2>6. CASE OfUnary(Meanings, s, n)
    <3>1. PICK m \in Meanings[t] : n = Opposite(m)
      BY <2>6 DEF OfUnary
    <3>2. op \in Unary
      BY <2>6 DEF OfUnary
    <3>3. Operand[s \o r] = Inverted(t \o r, x)
      BY <2>3, <3>2, OperationsApart
    <3>4. AsMeant(x, r, m)
      BY <1>1, <2>4
    <3>5. m \in Outcomes
      BY <2>4, MeaningsEquation
    <3> HIDE DEF op, t, x
    <3> QED BY <3>1, <3>3, <3>4, <3>5, InvertedAsMeant
  <2>7. CASE OfBinary(Meanings, s, n)
    <3>1. PICK i \in 1 .. Len(t) - 1 :
            \E m1 \in Meanings[Front(t, i)], m2 \in Meanings[Back(t, i)] : n = Value(op, m1, m2)
      BY <2>7 DEF OfBinary
    <3>2. op \in Binaries
      BY <2>7 DEF OfBinary
    <3>3. Operand[s \o r] = Combined(op, x, Operand[x.rest])
      BY <2>3, <3>2, OperationsApart
    <3> DEFINE a == Front(t, i)
               b == Back(t, i)
    <3>4. /\ a \in Seq(Byte) /\ Len(a) < Len(s) /\ b \in Seq(Byte) /\ Len(b) < Len(s)
          /\ t = a \o b
      BY <2>1, Shorter
    <3>5. PICK m1 \in Meanings[a], m2 \in Meanings[b] : n = Value(op, m1, m2)
      BY <3>1
    <3> HIDE DEF a, b
    <3>6. b \o r \in Seq(Byte) /\ t \o r = a \o (b \o r)
      <4>1. b \o r \in Seq(Byte)
        BY <3>4, Glued
      <4>2. a \in Seq(Byte) /\ b \in Seq(Byte) /\ r \in Seq(Byte)
        BY <3>4
      <4> HIDE DEF t, x, op
      <4>3. (a \o b) \o r = a \o (b \o r)
        <5>1. Regroups(a, b, r)
          BY <4>2, RegroupedOnce
        <5> QED BY <5>1 DEF Regroups
      <4> QED BY <3>4, <4>1, <4>3
    <3>7. AsMeant(Operand[a \o (b \o r)], b \o r, m1) /\ AsMeant(Operand[b \o r], r, m2)
      BY <1>1, <3>4, <3>6
    <3>8. AsMeant(x, b \o r, m1) /\ x.rest = b \o r
      BY <3>6, <3>7 DEF AsMeant
    <3>9. m1 \in Outcomes /\ m2 \in Outcomes
      BY <3>4, MeaningsEquation
    <3> HIDE DEF op, t, x
    <3>10. AsMeant(Combined(op, x, Operand[b \o r]), r, Value(op, m1, m2))
      BY <3>2, <3>7, <3>8, <3>9, CombinedAsMeant
    <3> QED BY <3>3, <3>5, <3>8, <3>10
  <2> QED BY <2>1, <2>5, <2>6, <2>7
<1>2. Read \subseteq Seq(Byte)
  OBVIOUS
<1>3. Read = Seq(Byte)
  <2> HIDE DEF Read
  <2> QED BY <1>1, <1>2, ByLength
<1> QED BY <1>3

(* Expressions can be put together.                                        *)
LEMMA Built ==
  ASSUME NEW h \in Byte, IsValid(h), NEW t \in Seq(Byte)
  PROVE  LET op == Operations[h + 1]
             e == <<h>> \o t
         IN  /\ e \in Seq(Byte)
             /\ op \in Literals /\ Len(t) = LiteralLength(op) => Meanings[e] # {}
             /\ op \in Unary /\ Meanings[t] # {} => Meanings[e] # {}
             /\ \A a, b \in Seq(Byte) :
                  op \in Binaries /\ t = a \o b /\ Meanings[a] # {} /\ Meanings[b] # {}
                    => Meanings[e] # {}
<1> DEFINE op == Operations[h + 1]
           e == <<h>> \o t
<1>1. e \in Seq(Byte) /\ e # <<>> /\ Head(e) = h /\ Tail(e) = t
  BY Cons
<1>2. HasCode(e)
  BY <1>1, ReadByteFacts
<1>3. \A v : OfLiteral(e, v) \/ OfUnary(Meanings, e, v) \/ OfBinary(Meanings, e, v)
               => v \in Meanings[e]
  BY <1>1, <1>2, MeaningsEquation, MeaningsStepIs
<1> HIDE DEF e
<1>4. ASSUME op \in Literals, Len(t) = LiteralLength(op) PROVE Meanings[e] # {}
  <2>1. OfLiteral(e, Number(op, t))
    BY <1>1, <1>4 DEF OfLiteral
  <2> QED BY <1>3, <2>1
<1>5. ASSUME op \in Unary, Meanings[t] # {} PROVE Meanings[e] # {}
  <2>1. PICK m : m \in Meanings[t]
    BY <1>5
  <2>2. OfUnary(Meanings, e, Opposite(m))
    BY <1>1, <1>5, <2>1 DEF OfUnary
  <2> QED BY <1>3, <2>2
<1>6. ASSUME NEW a \in Seq(Byte), NEW b \in Seq(Byte),
             op \in Binaries, t = a \o b, Meanings[a] # {}, Meanings[b] # {}
      PROVE  Meanings[e] # {}
  <2>1. \A s \in Seq(Byte) : Meanings[s] # {} => Len(s) \in Nat /\ Len(s) # 0
    <3> SUFFICES ASSUME NEW s \in Seq(Byte), Meanings[s] # {}
                 PROVE  Len(s) \in Nat /\ Len(s) # 0
      OBVIOUS
    <3>1. HasCode(s)
      BY MeaningsEquation, MeaningsStepIs
    <3>2. s # <<>>
      BY <3>1, ReadByteFacts
    <3> QED BY <3>2, EmptySeq, LenProperties
  <2>2. /\ Len(a) \in Nat /\ Len(b) \in Nat /\ Len(a) # 0 /\ Len(b) # 0
        /\ Len(t) = Len(a) + Len(b) /\ Front(t, Len(a)) = a /\ Back(t, Len(a)) = b
    BY <1>6, <2>1, Glued
  <2>3. Len(a) \in 1 .. Len(t) - 1
    BY <2>2
  <2>4. PICK m1 \in Meanings[a], m2 \in Meanings[b] : TRUE
    BY <1>6
  <2>5. OfBinary(Meanings, e, Value(op, m1, m2))
    BY <1>1, <1>6, <2>2, <2>3, <2>4 DEF OfBinary
  <2> QED BY <1>3, <2>5
<1> QED BY <1>1, <1>4, <1>5, <1>6 DEF e

(* What the interpreter finds nothing wrong with begins with an            *)
(* expression, and it leaves what follows that.                            *)
LEMMA Accepted ==
  ASSUME NEW s \in Seq(Byte), ~ Operand[s].bad
  PROVE  \E e \in Seq(Byte) : Meanings[e] # {} /\ s = e \o Operand[s].rest
<1> DEFINE Sound == {r \in Seq(Byte) :
                       ~ Operand[r].bad =>
                         \E e \in Seq(Byte) : Meanings[e] # {} /\ r = e \o Operand[r].rest}
<1>1. ASSUME NEW z \in Seq(Byte), \A r \in Seq(Byte) : Len(r) < Len(z) => r \in Sound
      PROVE  z \in Sound
  <2> SUFFICES ASSUME ~ Operand[z].bad
               PROVE  \E e \in Seq(Byte) : Meanings[e] # {} /\ z = e \o Operand[z].rest
    OBVIOUS
  <2>1. HasCode(z)
    <3>1. Operand[z] = OperandStep(Operand, z)
      BY OperandEquation
    <3> QED BY <3>1 DEF OperandStep, State
  <2> DEFINE h == Head(z)
             t == Tail(z)
             op == Operations[h + 1]
             x == Operand[t]
             y == Operand[x.rest]
  <2>2. /\ h \in Byte /\ IsValid(h) /\ t \in Seq(Byte) /\ z = <<h>> \o t
        /\ Len(t) \in Nat /\ Len(z) = Len(t) + 1
    BY <2>1, ReadByteFacts, HeadAndTail, HeadThenTail
  <2>3. \/ op \in Literals /\ Operand[z] = ParseLiteral(op, t)
        \/ op \in Unary /\ Operand[z] = Inverted(t, x)
        \/ op \in Binaries /\ Operand[z] = Combined(op, x, y)
    BY <2>1, OperandEquation, StepCases
  <2>4. Operand[z].rest \in Seq(Byte)
    BY OperandEquation, StateFields
  <2>5. /\ x.rest \in Seq(Byte) /\ Len(x.rest) \in Nat /\ Len(x.rest) <= Len(t)
    BY <2>2, OperandEquation, StateFields
  <2>6. Len(t) < Len(z) /\ Len(x.rest) < Len(z)
    BY <2>2, <2>5
  <2>7. ~ x.bad => \E e \in Seq(Byte) : Meanings[e] # {} /\ t = e \o x.rest
    BY <1>1, <2>2, <2>6
  <2>8. ~ y.bad => \E e \in Seq(Byte) : Meanings[e] # {} /\ x.rest = e \o y.rest
    BY <1>1, <2>5, <2>6
  <2>9. ASSUME NEW d \in Seq(Byte), t = d \o Operand[z].rest
        PROVE  /\ <<h>> \o d \in Seq(Byte) /\ z = (<<h>> \o d) \o Operand[z].rest
    <3>1. <<h>> \in Seq(Byte) /\ <<h>> \o d \in Seq(Byte)
      BY <2>2, Cons
    <3>2. z = <<h>> \o (d \o Operand[z].rest)
      BY <2>2, <2>9
    <3>3. (<<h>> \o d) \o Operand[z].rest = <<h>> \o (d \o Operand[z].rest)
      <4> DEFINE c == Operand[z].rest
      <4>1. c \in Seq(Byte)
        BY <2>4
      <4> HIDE DEF c, h
      <4>2. (<<h>> \o d) \o c = <<h>> \o (d \o c)
        BY <3>1, <4>1, Regrouped
      <4> QED BY <4>2 DEF c
    <3> QED BY <3>1, <3>2, <3>3
  <2> HIDE DEF h, t, x, y, op
  <2>10. CASE op \in Literals /\ Operand[z] = ParseLiteral(op, t)
    <3>1. PICK d \in Seq(Byte) : Len(d) = LiteralLength(op) /\ t = d \o Operand[z].rest
      <4>1. ~ ParseLiteral(op, t).bad /\ op \in Literals
        BY <2>10
      <4>2. \E d \in Seq(Byte) : Len(d) = LiteralLength(op) /\ t = d \o ParseLiteral(op, t).rest
        BY <2>2, <4>1, LiteralAccepted
      <4> QED BY <2>10, <4>2
    <3>2. Meanings[<<h>> \o d] # {}
      BY <2>2, <2>10, <3>1, Built DEF op
    <3> QED BY <2>9, <3>1, <3>2
  <2>11. CASE op \in Unary /\ Operand[z] = Inverted(t, x)
    <3>1. Operand[z].bad = x.bad /\ Operand[z].rest = x.rest
      BY <2>11 DEF Inverted, State
    <3>2. PICK d \in Seq(Byte) : Meanings[d] # {} /\ t = d \o Operand[z].rest
      BY <2>7, <3>1
    <3>3. Meanings[<<h>> \o d] # {}
      BY <2>2, <2>11, <3>2, Built DEF op
    <3> QED BY <2>9, <3>2, <3>3
  <2>12. CASE op \in Binaries /\ Operand[z] = Combined(op, x, y)
    <3>1. Operand[z].bad = (x.bad \/ y.bad) /\ Operand[z].rest = y.rest
      BY <2>12 DEF Combined, State
    <3>2. PICK a \in Seq(Byte) : Meanings[a] # {} /\ t = a \o x.rest
      BY <2>7, <3>1
    <3>3. PICK b \in Seq(Byte) : Meanings[b] # {} /\ x.rest = b \o y.rest
      BY <2>8, <3>1
    <3>4. a \o b \in Seq(Byte)
      BY <3>2, <3>3, Glued
    <3>5. t = (a \o b) \o Operand[z].rest
      <4>1. y.rest \in Seq(Byte)
        BY <2>4, <3>1
      <4>2. a \in Seq(Byte) /\ b \in Seq(Byte)
        OBVIOUS
      <4>3. (a \o b) \o y.rest = a \o (b \o y.rest)
        <5>1. Regroups(a, b, y.rest)
          BY <4>1, <4>2, RegroupedOnce
        <5> QED BY <5>1 DEF Regroups
      <4> QED BY <3>1, <3>2, <3>3, <4>3
    <3>6. Meanings[<<h>> \o (a \o b)] # {}
      BY <2>2, <2>12, <3>2, <3>3, <3>4, Built DEF op
    <3> QED BY <2>9, <3>4, <3>5, <3>6
  <2> QED BY <2>3, <2>10, <2>11, <2>12
<1>2. Sound \subseteq Seq(Byte)
  OBVIOUS
<1>3. Sound = Seq(Byte)
  <2> HIDE DEF Sound
  <2> QED BY <1>1, <1>2, ByLength
<1> QED BY <1>3

---------------------------------------------------------------------------
(***************************************************************************)
(* The specification: every verdict is the interpreter's.                  *)
(***************************************************************************)

Inv == spec \in Seq(Alphabet) /\ verdict = Judge(spec)

LEMMA InvInit == Init => Inv
BY EmptySeq DEF Init, Inv

LEMMA InvNext == Inv /\ [Next]_<<spec, verdict>> => Inv'
<1> SUFFICES ASSUME Inv, [Next]_<<spec, verdict>> PROVE Inv'
  OBVIOUS
<1>1. CASE UNCHANGED <<spec, verdict>>
  BY <1>1 DEF Inv
<1>2. ASSUME NEW b \in Alphabet, Extend(b) PROVE Inv'
  <2>1. Append(spec, b) \in Seq(Alphabet)
    BY AppendProperties DEF Inv
  <2> QED BY <1>2, <2>1 DEF Extend, Inv
<1> QED BY <1>1, <1>2 DEF Next

(* Every verdict is parse's of the whole specification.                    *)
THEOREM Invariant == Spec => []Inv
BY InvInit, InvNext, PTL DEF Spec

LEMMA SpecBytes ==
  ASSUME Inv
  PROVE  spec \in Seq(Byte) /\ Len(spec) \in Nat
<1>1. Seq(Alphabet) \subseteq Seq(Byte)
  BY MembershipAssumption
<1> QED BY <1>1, LenProperties DEF Inv

LEMMA Judgement ==
  ASSUME NEW s \in Seq(Byte)
  PROVE  Judge(s) = IF Operand[s].trap THEN Undefined
                    ELSE IF Operand[s].bad THEN 0 ELSE Operand[s].value
BY DEF Judge

(* A specification that begins with an expression is judged by it.         *)
LEMMA JudgedByPart ==
  ASSUME NEW s \in Seq(Byte), NEW n \in 1 .. Len(s), NEW v \in Meanings[Front(s, n)]
  PROVE  Judge(s) = v
<1> DEFINE e == Front(s, n)
           u == Back(s, n)
           x == Operand[s]
<1>1. n \in 0 .. Len(s)
  BY LenProperties
<1>2. e \in Seq(Byte) /\ u \in Seq(Byte) /\ s = e \o u
  BY <1>1, Parts
<1> HIDE DEF e, u
<1>3. AsMeant(Operand[e \o u], u, v)
  <2>1. v \in Meanings[e]
    BY DEF e
  <2> QED BY <1>2, <2>1, Reads
<1>4. AsMeant(x, u, v)
  BY <1>2, <1>3
<1> HIDE DEF x
<1>5. CASE x.trap
  <2>1. v = Undefined
    BY <1>4, <1>5 DEF AsMeant
  <2> QED BY <1>5, <2>1, Judgement DEF x
<1>6. CASE ~ x.trap
  <2>1. ~ x.bad /\ x.value = v
    BY <1>4, <1>6 DEF AsMeant
  <2> QED BY <1>6, <2>1, Judgement DEF x
<1> QED BY <1>5, <1>6

(* The verdict is an int of the node or undefined, whatever the bytes.     *)
THEOREM TypeCorrect == Spec => []TypeOK
<1>1. ASSUME Inv PROVE TypeOK
  <2>1. Operand[spec] \in States(spec)
    BY <1>1, SpecBytes, OperandEquation
  <2>2. Operand[spec].value \in Ints /\ 0 \in Ints
    BY <1>1, <2>1, SpecBytes, StateFields, IntsAre
  <2>3. verdict \in Ints \cup {Undefined}
    BY <1>1, <2>2, SpecBytes, Judgement DEF Inv
  <2> QED BY <1>1, <2>3 DEF TypeOK, Inv
<1> QED BY <1>1, Invariant, PTL

(* A specification that begins with an expression is judged by the value   *)
(* of that expression, however it is nested: parse and the functions that  *)
(* it calls compute what the expression means.                             *)
THEOREM JudgedByMeaningCorrect == Spec => []JudgedByMeaning
<1>1. ASSUME Inv PROVE JudgedByMeaning
  <2> SUFFICES ASSUME NEW n \in 1 .. Len(spec), NEW v \in Meanings[Front(spec, n)]
               PROVE  verdict = v
    BY DEF JudgedByMeaning
  <2> QED BY <1>1, SpecBytes, JudgedByPart DEF Inv
<1> QED BY <1>1, Invariant, PTL

(* A specification that is cut short or has an invalid code makes nobody a *)
(* member, where its judgement is defined: invalid_input is set for every  *)
(* one that does not begin with an expression.                             *)
THEOREM MalformedIsFalseCorrect == Spec => []MalformedIsFalse
<1>1. ASSUME Inv PROVE MalformedIsFalse
  <2> SUFFICES ASSUME verdict # 0, verdict # Undefined
               PROVE  Complete(spec) # {}
    BY DEF MalformedIsFalse
  <2> DEFINE u == Operand[spec].rest
  <2>1. ~ Operand[spec].bad
    BY <1>1, SpecBytes, Judgement DEF Inv
  <2>2. u \in Seq(Byte)
    BY <1>1, SpecBytes, OperandEquation, StateFields
  <2>3. PICK e \in Seq(Byte) : Meanings[e] # {} /\ spec = e \o u
    BY <1>1, <2>1, SpecBytes, Accepted
  <2> HIDE DEF u
  <2>4. Len(e) \in Nat /\ Len(e) # 0
    <3>1. HasCode(e)
      BY <2>3, MeaningsEquation, MeaningsStepIs
    <3>2. e # <<>>
      BY <3>1, ReadByteFacts
    <3> QED BY <3>2, EmptySeq, LenProperties
  <2>5. Front(spec, Len(e)) = e /\ Len(e) \in 0 .. Len(spec)
    BY <2>2, <2>3, Glued
  <2>6. Len(e) \in 1 .. Len(spec)
    BY <2>4, <2>5
  <2> QED BY <2>3, <2>5, <2>6 DEF Complete
<1> QED BY <1>1, Invariant, PTL
=============================================================================
