----------------------------- MODULE StorefrontMC -----------------------------
(* A small instance of Storefront for TLC.                                 *)
EXTENDS Storefront, TLC

CONSTANTS o1, o2, o3, u1, m1, m2, a1, k1, combo, drink, d1, d2

\* o1: a preferential and a general seat, with food; o2: a ticket without seat,
\* function or food.  Together they ask for more tickets than their film has; o3
\* is for the other film.
WhoBuys == o1 :> u1 @@ o2 :> u1 @@ o3 :> u1
WhichFilm == o1 :> m1 @@ o2 :> m1 @@ o3 :> m2
HowMany == o1 :> 2 @@ o2 :> 1 @@ o3 :> 1
WhichSeats == o1 :> {a1, k1} @@ o2 :> {} @@ o3 :> {}
WhichFood == o1 :> (combo :> 1) @@ o2 :> << >> @@ o3 :> << >>
When == o1 :> d1 @@ o2 :> d2 @@ o3 :> d2
OnSale == combo :> 7 @@ drink :> 3
===============================================================================
