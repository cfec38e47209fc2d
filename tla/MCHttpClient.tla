---------------------------- MODULE MCHttpClient ----------------------------
(* Two requests compete for one connection, with two retries and a breaker    *)
(* that the two of them, or two attempts of one of them, can trip; one call   *)
(* of close waits at a time, and may come back after the next start.          *)
EXTENDS HttpClient

CONSTANTS r1, r2

MCRequests == {r1, r2}
=============================================================================
