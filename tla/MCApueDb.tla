------------------------------ MODULE MCApueDb ------------------------------
EXTENDS ApueDb, TLC
CONSTANTS k1, k2, k3, d1, d2, p1, p2

\* One chain for k1 and k2, one for k3; k3 is longer than the others.
MCHash == [k \in Key |-> IF k = k3 THEN 1 ELSE 0]
MCKeyLen == [k \in Key |-> IF k = k3 THEN 2 ELSE 1]
MCDatLen == [d \in Data |-> IF d = d1 THEN 2 ELSE 3]
Symmetric == Permutations(Proc)

\* A kill anywhere but between the last two pointer writes of _db_dodelete.
Benign == PC \ {"del_head", "del_link"}
=============================================================================
