--------------------------- MODULE MigrationSteps ---------------------------
(***************************************************************************)
(* The fixed vocabulary of ValidatorShift: the two agent roles, the states *)
(* of a session and the edges between them, the nine migration steps with  *)
(* the agent that runs each, and the rollback sequence.  It mirrors the    *)
(* tables of packages/shared and packages/hub/src/orchestrator; it has no  *)
(* variables, so every other module extends it.                            *)
(***************************************************************************)
EXTENDS Naturals, Sequences

Roles == {"source", "target"}

Peer(role) == IF role = "source" THEN "target" ELSE "source"

-----------------------------------------------------------------------------
(* Session states.                                                         *)

States == {"IDLE", "PAIRING", "PREFLIGHT", "AWAITING_WINDOW",
           "MIGRATING", "COMPLETE", "ROLLBACK", "FAILED"}

Terminal == {"COMPLETE", "FAILED"}

\* ALLOWED_TRANSITIONS as a set of edges.
AllowedTransitions ==
  { <<"IDLE", "PAIRING">>,            <<"IDLE", "FAILED">>,
    <<"PAIRING", "PREFLIGHT">>,       <<"PAIRING", "IDLE">>,
    <<"PAIRING", "FAILED">>,
    <<"PREFLIGHT", "AWAITING_WINDOW">>, <<"PREFLIGHT", "FAILED">>,
    <<"PREFLIGHT", "IDLE">>,
    <<"AWAITING_WINDOW", "MIGRATING">>, <<"AWAITING_WINDOW", "FAILED">>,
    <<"MIGRATING", "COMPLETE">>,      <<"MIGRATING", "ROLLBACK">>,
    <<"MIGRATING", "FAILED">>,
    <<"ROLLBACK", "FAILED">> }

-----------------------------------------------------------------------------
(* The nine steps.                                                         *)

TotalSteps == 9

Steps == 1 .. TotalSteps

\* Steps 6, 7 and 8 (activate, authorise, verify) belong to the target.
Executor(step) == IF step \in 6 .. 8 THEN "target" ELSE "source"

\* The two transfers, which both agents run and both must acknowledge.
BilateralSteps == {4, 5}

\* Mutant: an off-by-one spares step 2 its rollback.
ShouldRollbackLate(step) == step > 2

\* Mutant: an off-by-one rolls back the step that only waits.
ShouldRollbackEarly(step) == step >= 1

\* A step the source may have failed halfway through: its validator has
\* already been told to drop the staked identity.
ShouldRollback(step) == step >= 2

-----------------------------------------------------------------------------
(* Rollback.                                                               *)

RollbackSequence ==
  << "restore_source_identity", "readd_authorized_voter_source",
     "remove_transferred_files_target", "verify_source_voting" >>

RollbackNames == {RollbackSequence[i] : i \in DOMAIN RollbackSequence}

RollbackExecutor(name) ==
  IF name = "remove_transferred_files_target" THEN "target" ELSE "source"

GetRollbackSteps(failedAt) ==
  IF ShouldRollback(failedAt) THEN RollbackSequence ELSE << >>
=============================================================================
