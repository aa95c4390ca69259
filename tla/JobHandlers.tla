----------------------------- MODULE JobHandlers -----------------------------
(***************************************************************************)
(* The parameters and the handlers of the five kinds of jobs               *)
(* (communication/jobs): what pydantic accepts, what it makes of it, and   *)
(* what execute() returns.  Pure functions.                                *)
(*                                                                         *)
(* A value of a JSON object is a record named by its kind:                 *)
(*   "int", "float"  a number, in halves: 5 stands for 2.5;                *)
(*   "digits"        a string that spells an integer, "2";                 *)
(*   "point"         one that spells a number with a point, "2.0", "2.5";  *)
(*   "word"          any other string;                                     *)
(*   "null", "list", "printed" (the str() of a list).                      *)
(* Floats are exact, quotients are pairs <<numerator, denominator>>;       *)
(* booleans, nan and inf are left out.                                     *)
(***************************************************************************)
EXTENDS Integers, Sequences, SequencesExt, FiniteSets

Kinds == {"echo", "calc", "stats", "hash", "fib"}
SyncKinds == {"echo", "calc", "stats"}

Whole(n) == [kind |-> "int", half |-> 2 * n]
Float(h) == [kind |-> "float", half |-> h]
Digits(n) == [kind |-> "digits", half |-> 2 * n]
Point(h) == [kind |-> "point", half |-> h]
Word(s) == [kind |-> "word", text |-> s]
List(s) == [kind |-> "list", items |-> s]
Null == [kind |-> "null"]

Field(p, f, default) == IF f \in DOMAIN p THEN p[f] ELSE default

IsFloat(v) == v.kind \in {"int", "float", "digits", "point"}
IsInt(v) == IsFloat(v) /\ v.half % 2 = 0

\* What is a number, or spells one, is so of a number, in a list as well.
IsNumeric(v) ==
  IsFloat(v) => v.half \in Int /\ (v.kind \in {"int", "digits"} => v.half % 2 = 0)
IsValue(v) ==
  /\ IsNumeric(v)
  /\ v.kind = "list" => /\ v.items \in Seq(Range(v.items))
                        /\ \A i \in DOMAIN v.items : IsNumeric(v.items[i])

-----------------------------------------------------------------------------
(* Validation.                                                             *)

Ops == {"add", "sub", "mul", "div"}

ValidCalc(p) ==
  /\ Field(p, "op", Word("add")) \in {Word(op) : op \in Ops}
  /\ IsFloat(Field(p, "a", Whole(0))) /\ IsFloat(Field(p, "b", Whole(0)))

ValidStats(p) ==
  /\ "values" \in DOMAIN p /\ p.values.kind = "list"
  /\ \A i \in DOMAIN p.values.items : IsFloat(p.values.items[i])

ValidFib(p) == "n" \in DOMAIN p /\ IsInt(p.n) /\ p.n.half \div 2 \in 0..40

Validates(k, p) ==
  CASE k = "calc"  -> ValidCalc(p)
    [] k = "stats" -> ValidStats(p)
    [] k = "fib"   -> ValidFib(p)
    [] OTHER       -> TRUE

\* What the handler gets: numbers whatever they were spelled as.
Validated(k, p) ==
  CASE k = "calc"  -> [op |-> Field(p, "op", Word("add")).text,
                       a |-> Field(p, "a", Whole(0)).half, b |-> Field(p, "b", Whole(0)).half]
    [] k = "stats" -> [i \in DOMAIN p.values.items |-> p.values.items[i].half]
    [] k = "fib"   -> p.n.half \div 2
    [] OTHER       -> p

-----------------------------------------------------------------------------
(* The handlers.                                                           *)

Failed(why) == [error |-> why]

\* CalcJobHandler.execute().
Calc(q) ==
  IF q.op = "div" /\ q.b = 0 THEN Failed("division by zero")
  ELSE [op |-> q.op, a |-> q.a, b |-> q.b,
        result |-> CASE q.op = "add" -> <<q.a + q.b, 2>>
                     [] q.op = "sub" -> <<q.a - q.b, 2>>
                     [] q.op = "mul" -> <<q.a * q.b, 4>>
                     [] q.op = "div" -> <<q.a, q.b>>]

\* Mutant: the last value is left out.
TotalWithoutLast(s) ==
  LET partial[i \in 0..Len(s)] == IF i = 0 THEN 0 ELSE partial[i - 1] + s[i]
  IN partial[Len(s) - 1]

\* sum().
Total(s) ==
  LET partial[i \in 0..Len(s)] == IF i = 0 THEN 0 ELSE partial[i - 1] + s[i]
  IN partial[Len(s)]

\* sorted(): the values in an order in which they do not decrease.
Sorted(s) ==
  LET order == CHOOSE p \in Bijection(DOMAIN s, DOMAIN s) :
                 \A i, j \in DOMAIN s : i < j => s[p[i]] =< s[p[j]]
  IN [i \in DOMAIN s |-> s[order[i]]]

\* _median(), over a sorted list that Python counts from 0.
Median(s) ==
  LET mid == Len(s) \div 2
  IN IF Len(s) % 2 = 1 THEN <<s[mid + 1], 2>> ELSE <<s[mid] + s[mid + 1], 4>>

\* StatsJobHandler.execute().
Stats(values) ==
  IF values = <<>> THEN Failed("values must be an array")
  ELSE LET sorted == Sorted(values)
       IN [count |-> Len(values), min |-> Head(sorted), max |-> Last(sorted),
           sum |-> Total(values), mean |-> <<Total(values), 2 * Len(values)>>,
           median |-> Median(sorted)]

\* a, b = b, a + b; and (a, b) in _fib_iter() after i passes of its loop.
FibStep[ab \in Nat \X Nat] == <<ab[2], ab[1] + ab[2]>>
FibPass[i \in 0..39] == IF i = 0 THEN <<0, 1>> ELSE FibStep[FibPass[i - 1]]

Fib(n) == IF n < 2 THEN n ELSE FibPass[n - 1][2]

Echo(q) == [echo |-> q]

\* The digest, a function of the input, is left out.
Hash(q) == [algo |-> "sha256", input |-> q]

Execute(k, q) ==
  CASE k = "echo"  -> Echo(q)
    [] k = "calc"  -> Calc(q)
    [] k = "stats" -> Stats(q)
    [] k = "hash"  -> Hash(q)
    [] k = "fib"   -> [n |-> q, fib |-> Fib(q)]

-----------------------------------------------------------------------------
(* What a result should be, without reference to how it is computed.       *)

Fibonacci[n \in 0..40] ==
  IF n < 2 THEN n
  ELSE LET k == n \div 2
       IN IF n % 2 = 0 THEN Fibonacci[k] * (2 * Fibonacci[k - 1] + Fibonacci[k])
          ELSE Fibonacci[k + 1] * Fibonacci[k + 1] + Fibonacci[k] * Fibonacci[k]

\* x would be in place r if s were sorted.
HasRank(s, x, r) ==
  /\ Cardinality({i \in DOMAIN s : s[i] < x}) < r
  /\ Cardinality({i \in DOMAIN s : s[i] =< x}) >= r

\* x is what the values add up to, taken from the last to the first.
AddsUpTo(s, x) ==
  LET rest[i \in 1..(Len(s) + 1)] == IF i > Len(s) THEN 0 ELSE s[i] + rest[i + 1]
  IN x = rest[1]

RightCalc(q, r) ==
  LET n == r.result[1]
      d == r.result[2]
  IN /\ r.op = q.op /\ r.a = q.a /\ r.b = q.b
     /\ d # 0
     /\ q.op = "add" => 2 * n = d * (q.a + q.b)
     /\ q.op = "sub" => 2 * n = d * (q.a - q.b)
     /\ q.op = "mul" => 4 * n = d * q.a * q.b
     /\ q.op = "div" => n * q.b = d * q.a

RightStats(values, r) ==
  LET n == Len(values)
  IN /\ r.count = n
     /\ HasRank(values, r.min, 1) /\ HasRank(values, r.max, n)
     /\ \E i, j \in 1..n :
          /\ HasRank(values, values[i], (n + 1) \div 2)
          /\ HasRank(values, values[j], n \div 2 + 1)
          /\ 4 * r.median[1] = r.median[2] * (values[i] + values[j])
     /\ AddsUpTo(values, r.sum) /\ r.mean[2] # 0
     /\ r.mean[1] * 2 * n = r.mean[2] * r.sum

Right(k, q, r) ==
  IF "error" \in DOMAIN r
  THEN \/ k = "calc" /\ q.op = "div" /\ q.b = 0
       \/ k = "stats" /\ q = <<>>
  ELSE CASE k = "echo"  -> r.echo = q
         [] k = "calc"  -> RightCalc(q, r)
         [] k = "stats" -> RightStats(q, r)
         [] k = "hash"  -> r.input = q
         [] k = "fib"   -> r.n = q /\ r.fib = Fibonacci[q]
=============================================================================
