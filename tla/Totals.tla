------------------------------- MODULE Totals -------------------------------
(***************************************************************************)
(* The sum of a function's values, for the modules that keep amounts of    *)
(* money in maps.  It counts the units each key holds, so that what it     *)
(* does under an update follows from the cardinality of finite sets and    *)
(* needs no recursion.                                                     *)
(***************************************************************************)
EXTENDS Integers, FiniteSets

\* The units of f: for every key i, the pairs <<i, 1>> ... <<i, f[i]>>.
Units(f) == UNION {{i} \X (1 .. f[i]) : i \in DOMAIN f}

Total(f) == Cardinality(Units(f))
=============================================================================
