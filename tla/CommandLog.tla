----------------------------- MODULE CommandLog -----------------------------
(***************************************************************************)
(* What a command store promises, without leases, tokens or epochs: every  *)
(* submitted command is decided at most once and, within its entity, in    *)
(* the order of submission; committing it appends it to the log.           *)
(***************************************************************************)
EXTENDS Naturals, Sequences

CONSTANT Entities

VARIABLES
    entityOf,  \* the submitted commands: the entity of each
    fate,      \* the decision on each: "open", "committed" or "dropped"
    log        \* the committed commands, in commit order

logVars == <<entityOf, fate, log>>

LogInit ==
    /\ entityOf = <<>>
    /\ fate = <<>>
    /\ log = <<>>

Accept(entity) ==
    /\ entityOf' = Append(entityOf, entity)
    /\ fate' = Append(fate, "open")
    /\ UNCHANGED log

Decidable(id) ==
    /\ fate[id] = "open"
    /\ \A earlier \in 1 .. id - 1 : entityOf[earlier] = entityOf[id] => fate[earlier] # "open"

CommitCommand(id) ==
    /\ Decidable(id)
    /\ fate' = [fate EXCEPT ![id] = "committed"]
    /\ log' = Append(log, id)
    /\ UNCHANGED entityOf

DropCommand(id) ==
    /\ Decidable(id)
    /\ fate' = [fate EXCEPT ![id] = "dropped"]
    /\ UNCHANGED <<entityOf, log>>

LogNext ==
    \/ \E entity \in Entities : Accept(entity)
    \/ \E id \in DOMAIN fate : CommitCommand(id) \/ DropCommand(id)

LogSpec == LogInit /\ [][LogNext]_logVars
=============================================================================
