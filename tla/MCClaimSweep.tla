---------------------------- MODULE MCClaimSweep -----------------------------
(***************************************************************************)
(* ClaimSweep for TLC: a gate that trusts what claims declare, one whose   *)
(* operator overrides it, and one whose environment variable is unusable.  *)
(***************************************************************************)
EXTENDS ClaimSweep

MCTrusting == {[cli |-> <<>>, env |-> <<>>]}

MCSettings ==
    MCTrusting \cup {[cli |-> <<1>>, env |-> <<>>], [cli |-> <<>>, env |-> <<LastInstant + 1>>]}
=============================================================================
