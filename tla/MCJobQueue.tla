----------------------------- MODULE MCJobQueue -----------------------------
(* JobQueue on a small instance: the constants TLC cannot read from a cfg.  *)
EXTENDS JobQueue, TLC

CONSTANTS w1, w2, email, digest

\* w2 is the older instance of a rolling deploy: it lacks a handler.
MCHandles == (w1 :> {email, digest}) @@ (w2 :> {email})
=============================================================================
