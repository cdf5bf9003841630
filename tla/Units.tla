------------------------------- MODULE Units -------------------------------
(***************************************************************************)
(* Sums of money as sizes of finite sets.                                  *)
(*                                                                         *)
(* The books add amounts up with SQL: SUM(amount) over the rows that match *)
(* a condition.  An amount is a number of units of money, so the sum of a  *)
(* family of amounts is the number of units that the family holds:         *)
(* TotalOf(f) counts the pairs <<x, k>> with k one of the f[x] units of x. *)
(* Written so, a sum needs no recursion and the library's theorems on the  *)
(* cardinality of finite sets apply to it (module SettlementProofs).       *)
(***************************************************************************)
EXTENDS Integers, FiniteSets

\* The units that the family f of natural numbers holds.
UnitsOf(f) == UNION {{x} \X (1 .. f[x]) : x \in DOMAIN f}

\* The sum of f[x] over every x in the domain of f.
TotalOf(f) == Cardinality(UnitsOf(f))

\* GREATEST(a, b) and LEAST(a, b) of the SQL, money.max0 of the TypeScript.
Greater(a, b) == IF a >= b THEN a ELSE b
Lesser(a, b) == IF a <= b THEN a ELSE b
=============================================================================
