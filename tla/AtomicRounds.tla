---------------------------- MODULE AtomicRounds ----------------------------
(***************************************************************************)
(* What a durable agent run promises about the workspace, without files,   *)
(* journals or processes: mutations are applied inside rounds; a round is  *)
(* either recorded as a whole, together with everything before it, or it   *)
(* is torn.  After that the run never begins another round; the one        *)
(* mutation that was under way when it was torn may still be applied.      *)
(***************************************************************************)
EXTENDS Naturals

CONSTANT Effects    \* the mutations a run can apply

VARIABLES
    applied,    \* mutations applied to the workspace
    recorded,   \* mutations the saved conversation knows about
    mode,       \* "open" between rounds, "round", "torn" or "over"
    late        \* mutations under way that nobody waits for any more

avars == <<applied, recorded, mode, late>>

AInit == applied = {} /\ recorded = {} /\ mode = "open" /\ late = {}

BeginRound == mode = "open" /\ mode' = "round" /\ UNCHANGED <<applied, recorded, late>>

(* Every mutation is applied at most once.                                 *)
Apply(e) ==
    /\ mode = "round" /\ e \notin applied
    /\ applied' = applied \union {e}
    /\ UNCHANGED <<recorded, mode, late>>

CommitRound ==
    /\ mode = "round"
    /\ recorded' = applied
    /\ mode' = "open"
    /\ UNCHANGED <<applied, late>>

(* One mutation of the round may be under way.                             *)
Tear ==
    /\ mode = "round" /\ mode' = "torn"
    /\ late' = {} \/ \E e \in Effects \ applied : late' = {e}
    /\ UNCHANGED <<applied, recorded>>

(* It is applied after all, or never.                                      *)
ApplyLate ==
    /\ mode = "torn" /\ late # {}
    /\ late' = {}
    /\ applied' \in {applied, applied \union late}
    /\ UNCHANGED <<recorded, mode>>

End == mode \in {"open", "round"} /\ mode' = "over" /\ UNCHANGED <<applied, recorded, late>>

ANext == BeginRound \/ (\E e \in Effects : Apply(e)) \/ CommitRound \/ Tear \/ ApplyLate \/ End

ASpec == AInit /\ [][ANext]_avars
=============================================================================
