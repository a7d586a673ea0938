----------------------------- MODULE MutationRun -----------------------------
(***************************************************************************)
(* What a mutation run promises to whoever calls Engine.Run, with no       *)
(* goroutine, channel, counter or worker in sight.                         *)
(*                                                                         *)
(* A run accepts mutants, settles each accepted mutant exactly once, by    *)
(* reporting it or by giving up on it, and returns only when nothing it    *)
(* accepted is open.  Once it has been stopped it accepts no more; once it *)
(* has returned its report never changes.  A process that crashes owes     *)
(* nothing.                                                                *)
(***************************************************************************)
CONSTANT Mutants

VARIABLES
    accepted,   \* mutants the run has taken responsibility for
    reported,   \* mutants in the report
    given_up,   \* mutants that could not be applied, or whose worker panicked
    stopped,    \* the run has been told to take no more
    phase       \* "running", "returned" or "crashed"

vars == <<accepted, reported, given_up, stopped, phase>>

Open == accepted \ (reported \cup given_up)

TypeOK ==
    /\ accepted \subseteq Mutants
    /\ reported \subseteq accepted
    /\ given_up \subseteq accepted
    /\ stopped \in BOOLEAN
    /\ phase \in {"running", "returned", "crashed"}

Init ==
    /\ accepted = {} /\ reported = {} /\ given_up = {}
    /\ stopped = FALSE
    /\ phase = "running"

Accept(m) ==
    /\ phase = "running" /\ ~stopped
    /\ m \notin accepted
    /\ accepted' = accepted \cup {m}
    /\ UNCHANGED <<reported, given_up, stopped, phase>>

Report(m) ==
    /\ phase = "running" /\ m \in Open
    /\ reported' = reported \cup {m}
    /\ UNCHANGED <<accepted, given_up, stopped, phase>>

GiveUp(m) ==
    /\ phase = "running" /\ m \in Open
    /\ given_up' = given_up \cup {m}
    /\ UNCHANGED <<accepted, reported, stopped, phase>>

StopAccepting ==
    /\ phase = "running"
    /\ ~stopped /\ stopped' = TRUE
    /\ UNCHANGED <<accepted, reported, given_up, phase>>

Return ==
    /\ phase = "running" /\ Open = {}
    /\ phase' = "returned"
    /\ UNCHANGED <<accepted, reported, given_up, stopped>>

(* A panic takes the process down, even one that has just returned.        *)
Crash ==
    /\ phase # "crashed" /\ given_up # {}
    /\ phase' = "crashed"
    /\ UNCHANGED <<accepted, reported, given_up, stopped>>

Next ==
    \/ \E m \in Mutants : Accept(m) \/ Report(m) \/ GiveUp(m)
    \/ StopAccepting
    \/ Return
    \/ Crash

Spec == Init /\ [][Next]_vars
=============================================================================
