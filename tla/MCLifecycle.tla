---------------------------- MODULE MCLifecycle ----------------------------
(* Small instances of Lifecycle. *)
EXTENDS Lifecycle, TLC

CONSTANTS c1, c2, s1, s2

\* The second source arrives later than the first.
MCIngestedAt == s1 :> 0 @@ s2 :> 1

\* A caller may use the key that another correction derives.
MCReplacementKey ==
  "k" :> "k:replacement" @@ "k:replacement" :> "k:replacement:replacement"
=============================================================================
