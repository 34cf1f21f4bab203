----------------------------- MODULE MCInterner -----------------------------
(* Names are short sequences of letters; push_str is concatenation *)
EXTENDS Interner

CONSTANTS t1, t2

a == <<"a">>
b == <<"b">>

MCThread == {t1, t2}
MCName == {<<>>, a, b, a \o b, a \o b \o b}
MCLength == [n \in MCName |-> Len(n)]
MCKeywords == <<<<>>, a>>
MCSuffix == {b}
MCPush(n, s) == n \o s
MCPowersOfTwo == {1, 2, 4, 8, 16}
=============================================================================
