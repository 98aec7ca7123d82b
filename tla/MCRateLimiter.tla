--------------------------- MODULE MCRateLimiter ---------------------------
(* The rate limiter on a small instance: limits of one to three requests in *)
(* a window of two seconds, for one API key and the requests without one.   *)
EXTENDS RateLimiter
=============================================================================
