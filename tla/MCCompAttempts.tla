--------------------------- MODULE MCCompAttempts ---------------------------
(* CompAttempts on a small instance.                                       *)
EXTENDS CompAttempts, TLC

CONSTANTS p1, foreign, k1, k2

Tap(p, type, key) == <<[problem |-> p, type |-> type, key |-> key]>>

\* A keyed tap and its keyed undo, each of which may be sent and sent again,
\* the tap also in a batch the phone had queued with a problem of another
\* competition; and a tap of an old client, without a key.
MCBatches ==
    { Tap(p1, "increment", k1),
      Tap(p1, "increment", k1) \o Tap(foreign, "zone", NoKey),
      Tap(p1, "undo", k2),
      Tap(p1, "top", NoKey) }

MCOverrideStates ==
    { [attempts |-> 2, zoneAttempts |-> 1, zone |-> TRUE, top |-> FALSE] }

\* The requests are alike.
RequestSymmetry == Permutations(Requests)
=============================================================================
