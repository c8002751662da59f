---------------------------- MODULE KeyedTables ----------------------------
(***************************************************************************)
(* The hashes and maps of the helper processes and of the notification     *)
(* runtime (QHash, QMap, std::map in their code) are functions from the    *)
(* keys they hold.                                                         *)
(***************************************************************************)
EXTENDS Functions

(* The table with v under x, which may be new.                              *)
Put(f, x, v) == [y \in DOMAIN f \cup {x} |-> IF y = x THEN v ELSE f[y]]

(* The entries of g, and of f under the other keys.                         *)
Over(g, f) == [y \in DOMAIN g \cup DOMAIN f |-> IF y \in DOMAIN g THEN g[y] ELSE f[y]]

(* The table without the entries under the keys in S.                       *)
Omit(f, S) == Restrict(f, DOMAIN f \ S)
=============================================================================
