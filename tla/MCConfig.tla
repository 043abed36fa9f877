------------------------------ MODULE MCConfig ------------------------------
(***************************************************************************)
(* A small instance of Config: every order of the three options that are   *)
(* required, with any two more pieces of a command line in between, good,  *)
(* bad or cut short.                                                       *)
(***************************************************************************)
EXTENDS Config, Functions

Texts == {"eth0", "iface64", "encrypt", "decrypt", "sign", "key16", "key32", "0011", "key16x",
          "cbc-aes", "chacha20", "tc", "both", "7", "0", "65536", "-1", "-ULONG_MAX", "2^64", "7x"}

AllTokens == Options \union Texts

Lengths == [t \in AllTokens |-> IF t = "iface64" THEN 64 ELSE 10]

Keys == [t \in {"key16", "key32", "0011"} |->
          CASE t = "key16" -> 16 [] t = "key32" -> 32 [] t = "0011" -> 2]

ULong == 16777215

Num(neg, value) == [neg |-> neg, value |-> value]

Numerals ==
  [t \in {"7", "0", "65536", "-1", "-ULONG_MAX", "2^64", "0011"} |->
    CASE t = "7" -> Num(FALSE, 7) [] t = "0" -> Num(FALSE, 0)
      [] t = "65536" -> Num(FALSE, 65536) [] t = "-1" -> Num(TRUE, 1)
      [] t = "-ULONG_MAX" -> Num(TRUE, ULong) [] t = "2^64" -> Num(FALSE, ULong + 1)
      [] t = "0011" -> Num(FALSE, 11)]

Required == <<<<"--iface", "eth0">>, <<"--mode", "decrypt">>, <<"--key", "key16">>>>

Pieces ==
  {<<>>, <<"--iface">>, <<"--mode">>, <<"--key">>, <<"--algo">>, <<"--port">>, <<"--hook">>,
   <<"--iface", "iface64">>, <<"--mode", "encrypt">>, <<"--mode", "sign">>,
   <<"--key", "key32">>, <<"--key", "0011">>, <<"--key", "key16x">>,
   <<"--algo", "chacha20">>, <<"--algo", "cbc-aes">>, <<"--algo", "7">>,
   <<"--hook", "tc">>, <<"--hook", "both">>, <<"--duration", "7">>, <<"--stats-interval", "0">>,
   <<"--stats-interval", "65536">>, <<"eth0">>}
  \union {<<"--port", n>> : n \in {"7", "0", "65536", "-1", "-ULONG_MAX", "2^64", "7x"}}
  \union {<<f>> : f \in Flags \union PointFlags}

Places == {p \in [1..3 -> 1..5] : IsInjective(p)}

\* What stands at place k: a required piece or one of the two others.
At(p, x, y, k) ==
  IF \E j \in 1..3 : p[j] = k THEN Required[CHOOSE j \in 1..3 : p[j] = k]
  ELSE IF \A l \in 1..(k - 1) : \E j \in 1..3 : p[j] = l THEN x ELSE y

AllLines ==
  {At(p, x, y, 1) \o At(p, x, y, 2) \o At(p, x, y, 3) \o At(p, x, y, 4) \o At(p, x, y, 5) :
     p \in Places, x \in Pieces, y \in Pieces}
=============================================================================
