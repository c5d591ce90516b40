------------------------------ MODULE ParseRuns ------------------------------
(***************************************************************************)
(* What the S1 workflow promises about a submitted run, with no queues,    *)
(* workers, locks or redeliveries: it is opened once; as long as it is     *)
(* open, its status may be reported again and it may store its result; it  *)
(* is closed only after a job has settled it, and from then on nothing     *)
(* late revives it: its status stays, and it stores nothing more.          *)
(* S1Workflow is shown to implement it.                                    *)
(***************************************************************************)
CONSTANTS Projects, Runs, ProjectOf, NoRun, Reports

VARIABLES
    phase,    \* of a run: "new", "open" or "over"
    report,   \* the status its submitter is shown
    settled,  \* a job has ended it: completed, failed or cancelled
    result    \* the run that wrote a project's parse_result

runs == <<phase, report, settled, result>>

RunsInit ==
    /\ phase = [r \in Runs |-> "new"]
    /\ report = [r \in Runs |-> "absent"]
    /\ settled = [r \in Runs |-> FALSE]
    /\ result = [p \in Projects |-> NoRun]

Submit(r) ==
    /\ phase[r] = "new"
    /\ phase' = [phase EXCEPT ![r] = "open"]
    /\ report' = [report EXCEPT ![r] = "queued"]
    /\ UNCHANGED <<settled, result>>

\* A worker reports on its run; one that restarts, on all it had in hand.
Work ==
    /\ report' \in [Runs -> Reports] /\ settled' \in [Runs -> BOOLEAN]
    /\ \A r \in Runs : phase[r] # "open" => UNCHANGED <<report[r], settled[r]>>
    /\ UNCHANGED <<phase, result>>

Store(r) ==
    /\ phase[r] = "open"
    /\ result' = [result EXCEPT ![ProjectOf[r]] = r]
    /\ UNCHANGED <<phase, report, settled>>

\* The run's last job is gone; a last report may go with it.
Close(r) ==
    /\ phase[r] = "open"
    /\ phase' = [phase EXCEPT ![r] = "over"]
    /\ settled' = [settled EXCEPT ![r] = TRUE]
    /\ \E s \in Reports : report' = [report EXCEPT ![r] = s]
    /\ UNCHANGED result

RunsNext == Work \/ \E r \in Runs : Submit(r) \/ Store(r) \/ Close(r)

RunsSpec == RunsInit /\ [][RunsNext]_runs
=============================================================================
