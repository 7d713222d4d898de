----------------------------- MODULE DispatchLog -----------------------------
(***************************************************************************)
(* What a dispatch promises of the events it publishes, without files,     *)
(* retries or crashes.  SKILL.md: the adapter "persists each exact batch   *)
(* and next phase before submission; a retry replays those bytes and never *)
(* regenerates" them.  So the engine has one log of the dispatch, events   *)
(* are only ever appended to it, the next one only when the one before is  *)
(* known to be there, and the dispatch moves on with the event it counts.  *)
(* That an event comes again, as an entry of its own, is not excluded      *)
(* where the phase it led to lets it be published again.                   *)
(***************************************************************************)
EXTENDS Naturals

VARIABLES
    log,      \* the events in the engine, each with its cursor
    counted,  \* how many of them the dispatch knows to be there
    reached   \* the phase it has reached

logVars == <<log, counted, reached>>

\* What can be published in a phase.
Publishable ==
    [absent   |-> {"begin"},
     expected |-> {"started"},
     started  |-> {"finish", "observation"},
     terminal |-> {"observation", "native-thread", "native-usage"}]

Lead(phase, kind) ==
    CASE kind = "begin"   -> "expected"
      [] kind = "started" -> "started"
      [] kind = "finish"  -> "terminal"
      [] OTHER            -> phase

LogInit ==
    /\ log = {}
    /\ counted = 0
    /\ reached = "absent"

Appends(entry) ==
    /\ entry.cursor = counted + 1
    /\ \A earlier \in log : earlier.cursor <= counted
    /\ entry.event.kind \in Publishable[reached]
    /\ log' = log \cup {entry}

Counts(entry) ==
    /\ entry.cursor = counted + 1
    /\ counted' = counted + 1
    /\ reached' = Lead(reached, entry.event.kind)

\* An event is appended, and the dispatch does not know it.
AppendUnknown ==
    /\ \E entry \in log' : Appends(entry)
    /\ UNCHANGED <<counted, reached>>

AppendKnown == \E entry \in log' : Appends(entry) /\ Counts(entry)

\* It turns out to have been there.
CountAppended ==
    /\ \E entry \in log : Counts(entry)
    /\ UNCHANGED log

LogNext == AppendUnknown \/ AppendKnown \/ CountAppended

LogSpec == LogInit /\ [][LogNext]_logVars
=============================================================================
