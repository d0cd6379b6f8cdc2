----------------------------- MODULE MCCheckout -----------------------------
(* Two users and four requests; requests are interchangeable.                *)
EXTENDS Checkout, TLC

RequestSymmetry == Permutations(Requests) \cup Permutations(Users)
=============================================================================
