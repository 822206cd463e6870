----------------------------- MODULE Background -----------------------------
(***************************************************************************)
(* What a process does beside its requests: the logs fed by the outbox,    *)
(* the policies its replica follows, and the process itself, which starts  *)
(* these workers after what they use and stops them before it.             *)
(***************************************************************************)
EXTENDS AuditLog, PolicySync

VARIABLES phase, opened, started, unit, budget    \* Runtime

Process == INSTANCE Runtime

\* ClosedAfterUse of Runtime: nothing is closed under what uses it.
ClosedAfterUse == Process!ClosedAfterUse

\* ShutdownEnds of Runtime: a process that has begun to stop exits, and a consumer
\* whose subscription broke subscribes again while the process is up.
ShutdownEnds == Process!ShutdownEnds
=============================================================================
