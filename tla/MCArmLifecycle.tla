--------------------------- MODULE MCArmLifecycle ---------------------------
(* Small instances of ArmLifecycle for TLC. *)
EXTENDS ArmLifecycle, TLC

CONSTANTS a1, t1, t2

OneArm == {a1}
OneTask == {t1}
TwoTasks == {t1, t2}

\* The interface of the class, and what brain.ts sends of it.
EveryEvent == (PlainEvents \cup TaskEvents) \ {"TIMEOUT"}
BrainEvents == {"TASK_ACKNOWLEDGED", "TASK_COMPLETED", "HEARTBEAT", "STOP",
                "CONNECTION_LOST", "CONNECTION_RESTORED"}

TaskSymmetry == Permutations({t1, t2})
=============================================================================
