------------------------------ MODULE RunStages ------------------------------
(***************************************************************************)
(* The two status vocabularies of the control plane and the one rule that  *)
(* guards a run's stage (services/runs.py, orchestrator/semaphores.py).    *)
(* A thread is one lane of a run: a database row plus, most of the time, a *)
(* worker container.                                                       *)
(***************************************************************************)

\* Stages in which a blueprint is expected to be driving the run.
WorkingStages == {"queued", "provisioning", "investigating", "planning", "developing"}

\* Stages in which the run waits for its owner.
ParkedStages == {"awaiting_user", "verifying", "pr_ready", "interrupted"}

\* TERMINAL_STAGES
TerminalStages == {"completed", "failed", "abandoned"}

Stages == WorkingStages \cup ParkedStages \cup TerminalStages

\* What stop_run, resume_run and the boot sweep call a live lane.
LiveRows == {"queued", "running", "idle", "input_required"}

\* ACTIVE_STATUSES without "interrupted", which nothing stores: the rows the
\* reaper looks at.
ActiveRows == {"queued", "running", "idle"}

\* The rows no heartbeat may change any more.
ClosedRows == {"completed", "failed", "stopped", "replaced"}

\* Mutant: the await set before H-38, without the rows others close.
TurnOverMutant == {"idle", "completed", "failed", "input_required"}

\* What a blueprint's _await_thread takes for the end of the lane's turn.
TurnOverRows == ClosedRows \cup {"idle", "input_required"}

\* "absent": the lane has not been created.
RowStatuses == LiveRows \cup ClosedRows \cup {"absent"}

\* transition() without allow_terminal_exit raises instead of assigning.
MayTransition(stage) == stage \notin TerminalStages

==============================================================================
