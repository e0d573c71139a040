------------------------------ MODULE MCStores ------------------------------
(* Small instances of Stores for TLC: two paths and the index's own, and   *)
(* three registrations.  One upload's content is enough, as what a         *)
(* response cut short delivers is another; a name is a label only.         *)
EXTENDS Stores, TLC

CONSTANTS n1, p1, p2, ip, d1, a1

Names == {n1}
PlainPaths == {p1, p2}
Paths == PlainPaths \cup {ip}
Data == {d1}
Models == {a1}
AnyPaths == Permutations(PlainPaths)
=============================================================================
