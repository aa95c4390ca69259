----------------------------- MODULE MCUiBatch -----------------------------
(***************************************************************************)
(* Instances of UiBatch.  Each payload is there for a case of its own:     *)
(* numbers as strings with and without a point, an even number of values   *)
(* in no order, a division by zero, an operation, a kind or a parameter    *)
(* that does not validate, the bounds of fib, and counts and concurrencies *)
(* out of range.                                                           *)
(***************************************************************************)
EXTENDS UiBatch

Raw(p) == [kind |-> "object", fields |-> p]
Request(k, p) == [type |-> k, params |-> Raw(p), count |-> Whole(2), concurrency |-> Whole(2)]
Sized(count, concurrency) ==
  [type |-> "hash", params |-> [kind |-> "json", fields |-> [text |-> Word("x")]],
   count |-> count, concurrency |-> concurrency]

Values(s) == [values |-> List(s)]
Division(b) == [op |-> Word("div"), a |-> Whole(3), b |-> b]

MCPayload ==
  { Request("echo", [a |-> Whole(1), b |-> Null, c |-> List(<<Float(3)>>)]),
    Request("calc", Division(Point(5))),
    Request("calc", Division(Float(0))),
    Request("calc", [a |-> Float(-3)]),
    Request("calc", [op |-> Word("pow"), a |-> Whole(2), b |-> Whole(3)]),
    Request("calc", [op |-> Word("mul"), a |-> Word("two")]),
    Request("calc", [op |-> Word("sub"), b |-> Null]),
    Request("stats", Values(<<Whole(4), Float(1), Digits(3), Whole(-2)>>)),
    Request("stats", Values(<<Whole(3), Whole(3), Whole(1)>>)),
    Request("stats", Values(<<>>)),
    Request("stats", [values |-> Whole(3)]),
    Request("fib", [n |-> Whole(40)]),
    Request("fib", [n |-> Whole(41)]),
    Request("fib", [n |-> Float(5)]),
    Request("fib", [n |-> Digits(3)]),
    Request("fib", [n |-> Point(6)]),
    Request("fib", [n |-> Point(7)]),
    Request("fib", <<>>),
    Request("sort", [result |-> Word("x")]),
    [type |-> "stats", params |-> Word("x"), count |-> Null, concurrency |-> Null],
    Sized(Whole(0), Whole(1)), Sized(Whole(9), Whole(-1)), Sized(Float(5), Point(4)),
    Sized(Word("many"), Whole(2)) }
=============================================================================
