--------------------------- MODULE MCRateLimiter ---------------------------
(* Bounded instance of RateLimiter for TLC. *)
EXTENDS RateLimiter, TLC

CONSTANTS m1, m2, k1, k2, k3

\* Two keys of one merchant and one of another.
MCMerchantOf == k1 :> m1 @@ k2 :> m1 @@ k3 :> m2
=============================================================================
