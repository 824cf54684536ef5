---------------------------- MODULE MCEventQueue ----------------------------
(* EventQueue with one thread beside the runner, a job of each kind that is *)
(* treated differently and one cancellation point of each kind.             *)
EXTENDS EventQueue, TLC

CONSTANTS t1, runner, fast1, idle1, idle2, tick1, sync1, async1

MCOneThread == {t1}
MCCPoints == {sync1, async1}
MCSync == {sync1}

MCJobs == {fast1, idle1, idle2, tick1}
MCClass == fast1 :> "fast" @@ idle1 :> "idle" @@ idle2 :> "idle" @@ tick1 :> "timer"
MCCPoint == fast1 :> sync1 @@ idle1 :> sync1 @@ idle2 :> async1 @@ tick1 :> async1
=============================================================================
