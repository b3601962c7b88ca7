---------------------------- MODULE FixedWindow -----------------------------
(***************************************************************************)
(* The fixed-window counter that the gateway's rate limiters and the       *)
(* per-(agent, connection) limit of the connection proxy both keep: a Map  *)
(* from a key to { count, resetAt }.  A key without an entry is            *)
(* NoBucket; clocks start at 1, so NoBucket reads as a window that is over.*)
(***************************************************************************)
EXTENDS Naturals

Bucket == [count: Nat, resetAt: Nat]

NoBucket == [count |-> 0, resetAt |-> 0]

\* Count one hit at time t, opening a window of length w if none is open.
Hit(b, t, w) ==
  IF b.resetAt <= t THEN [count |-> 1, resetAt |-> t + w]
                    ELSE [count |-> b.count + 1, resetAt |-> b.resetAt]

\* The lazy sweep: entries whose window is over are deleted.
Swept(bs, t) ==
  [k \in DOMAIN bs |-> IF bs[k].resetAt <= t THEN NoBucket ELSE bs[k]]

=============================================================================
