------------------------------ MODULE ClaimGate ------------------------------
(***************************************************************************)
(* The verdict of check-claim-generation.py on a pull request: which claim *)
(* of the item it delivers is live, whether the pull request's             *)
(* authorization names that claim, and the exit code the verdict becomes.  *)
(*                                                                         *)
(* A claim is a comment on the item: its id, the instant it was last       *)
(* updated and the lease it declares, 0 if it declares none that is a      *)
(* positive number.  A pull request's body is the sequence of its          *)
(* authorizations; generation 0 stands for one that is not a comment id or *)
(* that names another item.  `settings` are the gate's --lease-minutes and *)
(* its environment variable, each a sequence of at most one number; an     *)
(* environment variable that is not a number counts as 0.                  *)
(*                                                                         *)
(* Definitions named ...Mutant are plausible faults: nothing refers to     *)
(* them, and substituting one must break a property.                       *)
(***************************************************************************)
EXTENDS Integers, Sequences

CONSTANTS
    LastInstant,    \* the last instant that can be represented
    DefaultLease    \* the engine's own lease

ASSUME ClaimGateAssumption == LastInstant \in Nat /\ DefaultLease \in Nat \ {0}

\* expiry_of: no instant if the sum is too large to be one.
ExpiryOf(at, lease) == {at + lease} \cap (0 .. LastInstant)

\* lease_minutes.
OwnLease(settings) ==
    IF settings.cli # <<>> THEN settings.cli[1]
    ELSE IF settings.env # <<>> THEN settings.env[1]
    ELSE DefaultLease

\* lease_minutes and main refuse a lease of the gate's own that it could not use.
Usable(settings, t) ==
    /\ settings.cli = <<>> /\ settings.env # <<>> => settings.env[1] > 0
    /\ ExpiryOf(t, OwnLease(settings)) # {}

\* marker_lease: what the claim declares, unless an operator overrides it.
MarkerLease(claim, settings) ==
    IF settings.cli # <<>> \/ claim.lease <= 0 THEN OwnLease(settings) ELSE claim.lease

\* A lease without an expiry falls back too.
Lease(claim, settings) ==
    IF ExpiryOf(claim.at, MarkerLease(claim, settings)) = {}
    THEN OwnLease(settings)
    ELSE MarkerLease(claim, settings)

\* The deadline that a green verdict publishes.
Deadline(claim, settings) == claim.at + Lease(claim, settings)

Lapsed(claim, settings, t) == t - claim.at > Lease(claim, settings)

Live(claims, settings, t) == {c \in claims : ~Lapsed(c, settings, t)}

WinsMutant(claim, claims, settings, t) == claim \in Live(claims, settings, t)

\* The live claim of lowest id is the winner, and its id the live generation.
Wins(claim, claims, settings, t) ==
    /\ claim \in Live(claims, settings, t)
    /\ \A other \in Live(claims, settings, t) : claim.id <= other.id

Holds(gen, claims, settings, t) ==
    \E claim \in claims : Wins(claim, claims, settings, t) /\ claim.id = gen

ClaimFindingMutant(gen, claims, settings, t) ==
    IF Live(claims, settings, t) = {} \/ Holds(gen, claims, settings, t) THEN "none" ELSE "stale"

\* The diagnosis of an authorization whose item could be read.
ClaimFinding(gen, claims, settings, t) ==
    CASE claims = {} -> "mismatched"
      [] claims # {} /\ Live(claims, settings, t) = {} -> "expired"
      [] Live(claims, settings, t) # {} /\ ~Holds(gen, claims, settings, t) -> "stale"
      [] OTHER -> "none"

\* What the body alone decides, before anything is read.
BodyFinding(body, head) ==
    IF Len(body) # 1 THEN "missing"
    ELSE IF ~body[1].complete THEN "missing"
    ELSE IF body[1].gen = 0 \/ body[1].head # head THEN "mismatched"
    ELSE "none"

\* classify: `t` is the clock after the read.
Classify(body, head, claims, settings, t) ==
    IF BodyFinding(body, head) # "none"
    THEN BodyFinding(body, head)
    ELSE ClaimFinding(body[1].gen, claims, settings, t)

ExitMutant(result) ==
    CASE result \in {"none", "unreachable"} -> 0
      [] result \in {"missing", "mismatched", "expired", "stale"} -> 1
      [] OTHER -> 3

\* gate.py's run: a failed read and a refusal never share a code with a verdict.
Exit(result) ==
    CASE result = "none" -> 0
      [] result \in {"missing", "mismatched", "expired", "stale"} -> 1
      [] result = "unreachable" -> 2
      [] OTHER -> 3
=============================================================================
