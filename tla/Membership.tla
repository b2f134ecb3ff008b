----------------------------- MODULE Membership -----------------------------
(***************************************************************************)
(* The membership interpreter (scopes-membership-simple.c): does a node    *)
(* satisfy a scope's specification, a program in prefix notation of one    *)
(* byte per operation and per byte of a literal?                           *)
(*                                                                         *)
(* First the interpreter as the code has it: recursive descent over what   *)
(* is left to read of the byte code and one flag that is set when          *)
(* something is missing or is no operation.  Then what a specification     *)
(* means: the expressions, built from their parts, each with its value and *)
(* its byte code.  The state machine reads specifications byte by byte and *)
(* has the interpreter judge every one of them.                            *)
(*                                                                         *)
(* Undefined behaviour: an operand that cannot be parsed leaves its        *)
(* variable uninitialised (`wild'), and a division by zero, or by a wild   *)
(* operand, may do anything (`trap').  int has 16 bits, as on the nodes.   *)
(***************************************************************************)
EXTENDS Integers, Sequences, FiniteSets

CONSTANTS
  Alphabet,    (* the bytes that specifications are made of                *)
  MaxLength,   (* BOUND: their length                                      *)
  Repository,  (* Repository[i]: value i of scopes-repository.c            *)
  Undefined    (* the outcome of undefined behaviour                       *)

(* UINT8_MAX, INT_MIN and INT_MAX of the node.                             *)
ByteMax == 255
IntMin == 0 - 32768
IntMax == 32767

Byte == 0 .. ByteMax
Ints == IntMin .. IntMax

ASSUME MembershipAssumption ==
  /\ Alphabet \subseteq Byte
  /\ MaxLength \in Nat
  /\ DOMAIN Repository \subseteq Byte
  /\ \A i \in DOMAIN Repository : Repository[i] \in Ints
  /\ Undefined \notin Int

-----------------------------------------------------------------------------
(* Numbers                                                                 *)

WrapNot(x) == x                                     \* MUTANT: an int never wraps
Wrap(x) == ((x + 32768) % 65536) - 32768

Byte8(b) == IF b > 127 THEN b - 256 ELSE b

(* C divides towards zero.                                                 *)
Abs(x) == IF x < 0 THEN 0 - x ELSE x
Quotient(x, y) == IF (x < 0) = (y < 0) THEN Abs(x) \div Abs(y)
                                       ELSE 0 - (Abs(x) \div Abs(y))

RepositoryValue(i) == IF i \in DOMAIN Repository THEN Repository[i] ELSE -1

-----------------------------------------------------------------------------
(* The interpreter                                                         *)

Unary == {"NOT"}
Divisions == {"DIV", "MOD"}
Literals == {"UINT8", "UINT16", "INT8", "INT16", "REPOSITORY"}

(* enum opcodes: the indices of parser[], and IS_VALID.                    *)
Operations == <<"AND", "OR", "NOT", "EQ", "NEQ", "LT", "GT", "LET", "GET",
                "UINT8", "UINT16", "INT8", "INT16", "REPOSITORY",
                "ADD", "SUB", "DIV", "MULT", "MOD">>
IsValid(code) == code >= 0 /\ code < Len(Operations)

Truth(b) == IF b THEN 1 ELSE 0
Negate(x) == Truth(x = 0)

LessOrEqualByLess(x, y) == Negate(Truth(x < y))     \* MUTANT: of the wrong predicate
LessOrEqual(x, y) == Negate(Truth(x > y))

(* parse_operator_... and parse_predicate_... once the operands are known. *)
Binary(op, x, y) ==
  CASE op = "AND" -> Truth(x # 0 /\ y # 0)
    [] op = "OR"  -> Truth(x # 0 \/ y # 0)
    [] op = "EQ"  -> Truth(x = y)
    [] op = "NEQ" -> Negate(Truth(x = y))
    [] op = "LT"  -> Truth(x < y)
    [] op = "GT"  -> Truth(x > y)
    [] op = "LET" -> LessOrEqual(x, y)
    [] op = "GET" -> Negate(Truth(x < y))
    [] op = "ADD" -> Wrap(x + y)
    [] op = "SUB" -> Wrap(x - y)
    [] op = "MULT" -> Wrap(x * y)
    [] op = "DIV" -> IF y = 0 THEN 0 ELSE Wrap(Quotient(x, y))
    [] op = "MOD" -> IF y = 0 THEN 0 ELSE x - y * Quotient(x, y)

(* The interpreter's state: the bytes it has not read yet (bytecode from   *)
(* pos to length), the value, the invalid_input flag and the marks of      *)
(* undefined behaviour.                                                    *)
State(value, rest, bad, wild, trap) ==
  [value |-> value, rest |-> rest, bad |-> bad, wild |-> wild, trap |-> trap]

(* read_byte; -1 is MEMBERSHIP_NO_MORE_INPUT.                              *)
ReadByte(t) == IF t = <<>> THEN State(-1, t, TRUE, FALSE, FALSE)
                           ELSE State(Head(t), Tail(t), FALSE, FALSE, FALSE)

(* A missing byte reads as -1, all of its bits set.                        *)
Unsigned(b) == b % 256

ParseByte(op, t) ==
  LET b == ReadByte(t)
      v == CASE op = "UINT8" -> Unsigned(b.value)
             [] op = "INT8" -> Byte8(Unsigned(b.value))
             [] op = "REPOSITORY" -> RepositoryValue(Unsigned(b.value)) IN
  State(v, b.rest, b.bad, FALSE, FALSE)

ParsePair(t) ==
  LET hi == ReadByte(t)
      lo == ReadByte(hi.rest)
      v  == IF lo.bad THEN 65535 ELSE hi.value * 256 + lo.value IN
  State(Wrap(v), lo.rest, lo.bad, FALSE, FALSE)

ParseLiteral(op, t) ==
  IF op \in {"UINT16", "INT16"} THEN ParsePair(t) ELSE ParseByte(op, t)

(* The next byte is an operation.                                          *)
HasCode(t) == IsValid(ReadByte(t).value)

(* parse_operator_not on the operand x at t.  Its operand starts at zero;  *)
(* those of parse_binary are not initialised: `wild' where none can be     *)
(* parsed.                                                                 *)
Inverted(t, x) ==
  State(Negate(x.value), x.rest, x.bad, x.wild /\ HasCode(t), x.trap)

(* The functions that call parse_binary, on the operands x and y.          *)
Combined(op, x, y) ==
  State(Binary(op, x.value, y.value), y.rest, x.bad \/ y.bad, x.wild \/ y.wild,
        x.trap \/ y.trap \/ (op \in Divisions /\ (y.wild \/ y.value = 0)))

(* What is made of the bytes t, in parse_unary, parse_binary and parse: a  *)
(* code is read and, if it is valid, its parser is called.                 *)
Operand[t \in Seq(Byte)] ==
  IF ~ HasCode(t) THEN State(0, ReadByte(t).rest, TRUE, TRUE, FALSE)
  ELSE LET op == Operations[Head(t) + 1]
           x  == Operand[Tail(t)] IN
       CASE op \in Literals -> ParseLiteral(op, Tail(t))
         [] op \in Unary -> Inverted(Tail(t), x)
         [] OTHER -> Combined(op, x, Operand[x.rest])

(* MUTANT of Judge: the flag is not looked at.                             *)
JudgeUnchecked(s) ==
  LET e == Operand[s] IN IF e.trap THEN Undefined ELSE e.value

(* parse, the membership module's check: 0 is no.                          *)
Judge(s) ==
  LET e == Operand[s] IN
  IF e.trap THEN Undefined ELSE IF e.bad THEN 0 ELSE e.value

VARIABLES
  spec,     (* a scope's specification                                     *)
  verdict   (* what check makes of it                                      *)

Init == spec = <<>> /\ verdict = Judge(<<>>)

(* The specification of the next scope is one byte longer.                 *)
Extend(b) ==
  /\ Len(spec) < MaxLength
  /\ spec' = Append(spec, b)
  /\ verdict' = Judge(spec')

Next == \E b \in Alphabet : Extend(b)

Spec == Init /\ [][Next]_<<spec, verdict>>

-----------------------------------------------------------------------------
(* What specifications mean, by the shape of the whole instead of byte by  *)
(* byte.                                                                   *)

LiteralLength(op) == IF op \in {"UINT16", "INT16"} THEN 2 ELSE 1

Number(op, s) ==
  CASE op = "UINT8" -> s[1]
    [] op = "INT8" -> IF s[1] < 128 THEN s[1] ELSE s[1] - 256
    [] op = "REPOSITORY" -> IF s[1] \in DOMAIN Repository THEN Repository[s[1]] ELSE -1
    [] OTHER -> IF s[1] < 128 THEN s[1] * 256 + s[2] ELSE (s[1] - 256) * 256 + s[2]

(* x modulo 2^16, between -2^15 and 2^15 - 1.                              *)
Int16(x) == IF x % 65536 < 32768 THEN x % 65536 ELSE (x % 65536) - 65536

(* The quotient is the number whose product with y comes closest to x      *)
(* without exceeding it in size.                                           *)
Divided(x, y) == CHOOSE q \in {Abs(x) \div Abs(y), 0 - (Abs(x) \div Abs(y))} :
                   Abs(x - q * y) < Abs(y) /\ Abs(q * y) <= Abs(x)

(* What an operation has no value for, or one of its operands not, is      *)
(* undefined.                                                              *)
Opposite(x) == IF x = Undefined THEN x ELSE IF x = 0 THEN 1 ELSE 0

Value(op, x, y) ==
  IF Undefined \in {x, y} THEN Undefined ELSE
  CASE op = "AND" -> IF 0 \in {x, y} THEN 0 ELSE 1
    [] op = "OR"  -> IF {x, y} = {0} THEN 0 ELSE 1
    [] op = "EQ"  -> IF x = y THEN 1 ELSE 0
    [] op = "NEQ" -> IF x # y THEN 1 ELSE 0
    [] op = "LT"  -> IF x < y THEN 1 ELSE 0
    [] op = "GT"  -> IF x > y THEN 1 ELSE 0
    [] op = "LET" -> IF x <= y THEN 1 ELSE 0
    [] op = "GET" -> IF x >= y THEN 1 ELSE 0
    [] op = "ADD" -> Int16(x + y)
    [] op = "SUB" -> Int16(x - y)
    [] op = "MULT" -> Int16(x * y)
    [] op = "DIV" -> IF y = 0 THEN Undefined ELSE Int16(Divided(x, y))
    [] op = "MOD" -> IF y = 0 THEN Undefined ELSE x - y * Divided(x, y)

Front(s, n) == SubSeq(s, 1, n)
Back(s, n)  == SubSeq(s, n + 1, Len(s))

(* The values of s as an expression: none if it is no expression, and      *)
(* those of all ways to read it if there were several.                     *)
Meanings[s \in Seq(Byte)] ==
  IF ~ HasCode(s) THEN {}
  ELSE LET op == Operations[Head(s) + 1]
           t  == Tail(s) IN
       CASE op \in Literals -> IF Len(t) = LiteralLength(op) THEN {Number(op, t)} ELSE {}
         [] op \in Unary -> {Opposite(x) : x \in Meanings[t]}
         [] OTHER -> UNION {{Value(op, x, y) : x \in Meanings[Front(t, i)],
                                              y \in Meanings[Back(t, i)]} :
                              i \in 1 .. Len(t) - 1}

(* Where a specification that begins with an expression is complete.       *)
Complete(s) == {n \in 1 .. Len(s) : Meanings[Front(s, n)] # {}}

-----------------------------------------------------------------------------
(* The verdict is an int of the node.                                      *)
TypeOK ==
  /\ spec \in Seq(Alphabet)
  /\ verdict \in Ints \union {Undefined}

(* A specification is judged by what it says: if it begins with an         *)
(* expression, by that expression's value, however long it is nested and   *)
(* in whatever order the interpreter met its operands.                     *)
JudgedByMeaning ==
  \A n \in 1 .. Len(spec) : \A v \in Meanings[Front(spec, n)] : verdict = v

(* scopes-membership-simple.c:419, "return false if something went wrong   *)
(* during parsing": a specification that is cut short or holds no valid    *)
(* operation makes nobody a member, unless it divides by the operand that  *)
(* was lost.                                                               *)
MalformedIsFalse ==
  Complete(spec) = {} => verdict \in {0, Undefined}
=============================================================================
