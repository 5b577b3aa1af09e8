----------------------------- MODULE MCApprovals -----------------------------
(* What the lanes of a run ask the owner for.  Two lanes edit files, one of them then
   runs a destructive command. *)
EXTENDS Approvals

Edits ==
  <<[lane |-> "l1", class |-> "file_edit", destructive |-> FALSE],
    [lane |-> "l1", class |-> "terminal_exec", destructive |-> TRUE],
    [lane |-> "l2", class |-> "file_edit", destructive |-> FALSE]>>
=============================================================================
