--------------------------- MODULE ClaimGateProofs ---------------------------
(***************************************************************************)
(* Theorems about the verdict of the claim gate, for every set of claims,  *)
(* every lease and every clock.                                            *)
(***************************************************************************)
EXTENDS ClaimGate, TLAPS

Claim == [id : Nat, at : Nat, lease : Nat]
Setting == [cli : Seq(Nat), env : Seq(Nat)]

\* The gate's own lease is a number of minutes.
LEMMA OwnLeaseIsNat ==
    ASSUME NEW settings \in Setting
    PROVE  OwnLease(settings) \in Nat
<1>1. DefaultLease \in Nat
    BY ClaimGateAssumption
<1>2. \A s \in Seq(Nat) : s # <<>> => s[1] \in Nat
    OBVIOUS
<1>3. settings.cli \in Seq(Nat) /\ settings.env \in Seq(Nat)
    BY DEF Setting
<1> QED BY <1>1, <1>2, <1>3 DEF OwnLease

\* The lease of a claim is a number of minutes.
LEMMA LeaseIsNat ==
    ASSUME NEW settings \in Setting, NEW claim \in Claim
    PROVE  Lease(claim, settings) \in Nat /\ claim.at \in Nat /\ claim.id \in Nat
<1>1. claim.lease \in Nat /\ claim.at \in Nat /\ claim.id \in Nat
    BY DEF Claim
<1>2. OwnLease(settings) \in Nat
    BY OwnLeaseIsNat
<1> QED BY <1>1, <1>2 DEF Lease, MarkerLease

\* A claim that has lapsed stays lapsed, if it is not renewed.
LEMMA LapseIsFinal ==
    ASSUME NEW settings \in Setting, NEW claim \in Claim, NEW t \in Nat, NEW u \in Nat, t <= u,
           Lapsed(claim, settings, t)
    PROVE  Lapsed(claim, settings, u)
BY LeaseIsNat DEF Lapsed

\* The deadline is the last instant at which a claim is not lapsed.
LEMMA LapsesAfterDeadline ==
    ASSUME NEW settings \in Setting, NEW claim \in Claim, NEW t \in Nat
    PROVE  Lapsed(claim, settings, t) <=> t > Deadline(claim, settings)
BY LeaseIsNat DEF Lapsed, Deadline

(***************************************************************************)
(* Two claims never hold the item at once: whatever markers the item has,  *)
(* read_claim_state has one live generation.                               *)
(***************************************************************************)
THEOREM OneGeneration ==
    ASSUME NEW claims \in SUBSET Claim, NEW settings, NEW t, NEW g, NEW k,
           Holds(g, claims, settings, t), Holds(k, claims, settings, t)
    PROVE  g = k
<1>1. PICK c \in claims : Wins(c, claims, settings, t) /\ c.id = g
    BY DEF Holds
<1>2. PICK d \in claims : Wins(d, claims, settings, t) /\ d.id = k
    BY DEF Holds
<1>3. c.id <= d.id /\ d.id <= c.id
    BY <1>1, <1>2 DEF Wins
<1>4. c.id \in Nat /\ d.id \in Nat
    BY DEF Claim
<1> QED BY <1>1, <1>2, <1>3, <1>4

\* No finding about the claims means that the generation holds the item, and conversely.
LEMMA NoFindingIsHolding ==
    ASSUME NEW claims, NEW settings, NEW t, NEW g
    PROVE  ClaimFinding(g, claims, settings, t) = "none" <=> Holds(g, claims, settings, t)
<1>1. Holds(g, claims, settings, t) => Live(claims, settings, t) # {}
    BY DEF Holds, Wins
<1>2. claims = {} => Live(claims, settings, t) = {}
    BY DEF Live
<1> QED BY <1>1, <1>2 DEF ClaimFinding

(***************************************************************************)
(* The claim of the docstring of marker_lease: "a forged marker can never  *)
(* turn a red verdict green".  A comment with another id, whatever instant *)
(* and lease it declares, only ever takes a green away.                    *)
(***************************************************************************)
THEOREM ForgedNeverGrants ==
    ASSUME NEW claims \in SUBSET Claim, NEW forged \in Claim, NEW settings, NEW t, NEW g,
           forged.id # g,
           ClaimFinding(g, claims \cup {forged}, settings, t) = "none"
    PROVE  ClaimFinding(g, claims, settings, t) = "none"
<1> DEFINE all == claims \cup {forged}
<1>1. PICK c \in all : Wins(c, all, settings, t) /\ c.id = g
    BY NoFindingIsHolding DEF Holds
<1>2. c \in claims
    BY <1>1
<1>3. Live(claims, settings, t) \subseteq Live(all, settings, t)
    BY DEF Live
<1>4. c \in Live(claims, settings, t)
    BY <1>1, <1>2 DEF Wins, Live
<1>5. \A other \in Live(all, settings, t) : c.id <= other.id
    BY <1>1 DEF Wins
<1>6. Wins(c, claims, settings, t)
    BY <1>3, <1>4, <1>5 DEF Wins
<1>7. Holds(g, claims, settings, t)
    BY <1>1, <1>2, <1>6 DEF Holds
<1> QED BY <1>7, NoFindingIsHolding

(***************************************************************************)
(* What the body decides, classify decides before it reads: a body that is *)
(* not one complete authorization, bound to the head and to a comment id,  *)
(* is refused with the same result whatever there is to read, under any    *)
(* settings and at any clock; and a green is for one that is, and whose    *)
(* generation holds the item.                                              *)
(***************************************************************************)
THEOREM GreenIsAuthorized ==
    ASSUME NEW S, NEW body \in Seq(S), NEW head, NEW claims, NEW settings, NEW t
    PROVE  LET result == Classify(body, head, claims, settings, t)
               Authorizes(a) == body = <<a>> /\ a.complete /\ a.gen # 0 /\ a.head = head
           IN  /\ Exit(result) = 0 <=> \E a \in S : Authorizes(a) /\ Holds(a.gen, claims, settings, t)
               /\ (\A a \in S : ~Authorizes(a)) =>
                    /\ result \in {"missing", "mismatched"}
                    /\ \A others, own, u : Classify(body, head, others, own, u) = result
<1> DEFINE result == Classify(body, head, claims, settings, t)
           Authorizes(a) == body = <<a>> /\ a.complete /\ a.gen # 0 /\ a.head = head
<1>1. Len(body) = 1 => body[1] \in S /\ body = <<body[1]>>
    OBVIOUS
<1>2. \A a : body = <<a>> => Len(body) = 1 /\ body[1] = a
    OBVIOUS
<1>3. BodyFinding(body, head) = "none" <=> Len(body) = 1 /\ Authorizes(body[1])
    BY <1>1, <1>2 DEF BodyFinding
<1>4. BodyFinding(body, head) \in {"none", "missing", "mismatched"}
    BY DEF BodyFinding
<1>5. CASE BodyFinding(body, head) = "none"
    <2>1. result = ClaimFinding(body[1].gen, claims, settings, t)
        BY <1>5 DEF Classify
    <2>2. Exit(result) = 0 <=> result = "none"
        BY DEF Exit
    <2>3. Exit(result) = 0 <=> Holds(body[1].gen, claims, settings, t)
        BY <2>1, <2>2, NoFindingIsHolding
    <2>4. body[1] \in S /\ Authorizes(body[1]) /\ \A a \in S : Authorizes(a) => a = body[1]
        BY <1>1, <1>2, <1>3, <1>5
    <2> QED BY <2>3, <2>4
<1>6. CASE BodyFinding(body, head) # "none"
    <2>1. \A a \in S : ~Authorizes(a)
        BY <1>2, <1>3, <1>6
    <2>2. result = BodyFinding(body, head) /\ result \in {"missing", "mismatched"}
        BY <1>4, <1>6 DEF Classify
    <2>3. \A others, own, u : Classify(body, head, others, own, u) = result
        BY <1>6, <2>2 DEF Classify
    <2>4. Exit(result) # 0
        BY <2>2 DEF Exit
    <2> QED BY <2>1, <2>2, <2>3, <2>4
<1> QED BY <1>5, <1>6

(***************************************************************************)
(* verdict-expires-at (deadline_lines) is exact: whatever claims are added *)
(* behind the winner, it wins up to that instant and not after it, unless  *)
(* a claim is renewed or removed.                                          *)
(***************************************************************************)
THEOREM DeadlineIsExact ==
    ASSUME NEW claims \in SUBSET Claim, NEW later \in SUBSET Claim, NEW settings \in Setting,
           NEW t \in Nat, NEW u \in Nat, t <= u,
           NEW claim \in claims, Wins(claim, claims, settings, t),
           \A c \in later : claim.id < c.id
    PROVE  Wins(claim, claims \cup later, settings, u) <=> u <= Deadline(claim, settings)
<1> DEFINE all == claims \cup later
<1>1. claim \in Claim
    OBVIOUS
<1>2. Deadline(claim, settings) \in Nat
    BY <1>1, LeaseIsNat DEF Deadline
<1>3. claim \in Live(all, settings, u) <=> u <= Deadline(claim, settings)
    BY <1>1, <1>2, LapsesAfterDeadline DEF Live
<1>4. ASSUME NEW other \in Live(all, settings, u)
      PROVE  claim.id <= other.id
    <2>1. other \in all /\ ~Lapsed(other, settings, u)
        BY DEF Live
    <2>2. claim.id \in Nat /\ other.id \in Nat
        BY <1>1, <2>1 DEF Claim
    <2>3. CASE other \in later
        BY <2>2, <2>3
    <2>4. CASE other \in claims
        <3>1. other \in Claim
            BY <2>4
        <3>2. ~Lapsed(other, settings, t)
            BY <2>1, <3>1, LapseIsFinal
        <3>3. other \in Live(claims, settings, t)
            BY <2>4, <3>2 DEF Live
        <3> QED BY <3>3 DEF Wins
    <2> QED BY <2>1, <2>3, <2>4
<1> QED BY <1>3, <1>4 DEF Wins

(***************************************************************************)
(* The branch of read_claim_state marked "Unreachable" is: once main has   *)
(* accepted the gate's own lease, every claim made until then has a        *)
(* deadline that can be represented, whatever lease it declares.           *)
(***************************************************************************)
THEOREM DeadlineIsRepresentable ==
    ASSUME NEW settings \in Setting, NEW claim \in Claim, NEW t \in Nat, claim.at <= t,
           Usable(settings, t)
    PROVE  Deadline(claim, settings) \in 0 .. LastInstant
<1>1. LastInstant \in Nat
    BY ClaimGateAssumption
<1>2. OwnLease(settings) \in Nat
    BY OwnLeaseIsNat
<1>3. Lease(claim, settings) \in Nat /\ claim.at \in Nat
    BY LeaseIsNat
<1>4. t + OwnLease(settings) <= LastInstant
    BY <1>1, <1>2 DEF Usable, ExpiryOf
<1>5. CASE ExpiryOf(claim.at, MarkerLease(claim, settings)) = {}
    <2>1. Lease(claim, settings) = OwnLease(settings)
        BY <1>5 DEF Lease
    <2> QED BY <1>1, <1>2, <1>3, <1>4, <2>1 DEF Deadline
<1>6. CASE ExpiryOf(claim.at, MarkerLease(claim, settings)) # {}
    <2>1. Lease(claim, settings) = MarkerLease(claim, settings)
        BY <1>6 DEF Lease
    <2>2. claim.at + MarkerLease(claim, settings) \in 0 .. LastInstant
        BY <1>6 DEF ExpiryOf
    <2> QED BY <2>1, <2>2 DEF Deadline
<1> QED BY <1>5, <1>6
=============================================================================
