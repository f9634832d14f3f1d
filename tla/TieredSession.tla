---------------------------- MODULE TieredSession ----------------------------
(***************************************************************************)
(* What moving history between tiers promises the rest of the engine,      *)
(* whatever queues, batches and workers do to get there: a session's       *)
(* blocks go to the WARM tier only in one whole move, taken while the      *)
(* session is parked; nothing else happens to it until the move is over;   *)
(* and WARM history leaves the tier only when the session is preempted     *)
(* (it will be computed again) or gone.                                    *)
(***************************************************************************)
CONSTANTS Req, Index  \* logical block indices

VARIABLE session

Phase == {"gone", "active", "parked", "moving"}
Session == [phase : Phase, warm : SUBSET Index, aim : SUBSET Index]

Init == session = [r \in Req |-> [phase |-> "gone", warm |-> {}, aim |-> {}]]

(* old and new are one session before and after a step. *)
Work(old, new) ==
  /\ old.phase \in {"gone", "active", "parked"}
  /\ new.phase \in {"gone", "active", "parked"}
  /\ new.aim = {}
  /\ IF new.phase = "gone" THEN new.warm = {}
     ELSE new.warm = old.warm \/ (old.phase = "active" /\ new.warm = {})

BeginMove(old, new) ==
  /\ old.phase = "parked" /\ new.phase = "moving"
  /\ new.warm = old.warm
  /\ new.aim # {} /\ new.aim \cap old.warm = {}

(* The move ends with all of its blocks in the WARM tier or with none, and *)
(* with what was waiting for it: a turn, or the end of the session.        *)
EndMove(old, new) ==
  /\ old.phase = "moving" /\ new.phase # "moving"
  /\ new.aim = {}
  /\ IF new.phase = "gone" THEN new.warm = {}
     ELSE new.warm \in {old.warm, old.warm \cup old.aim}

Change(r) ==
  \/ Work(session[r], session'[r])
  \/ BeginMove(session[r], session'[r])
  \/ EndMove(session[r], session'[r])

(* One step of the engine is a step of several sessions at once. *)
Next ==
  /\ session' \in [Req -> Session]
  /\ \A r \in Req : session'[r] = session[r] \/ Change(r)

Spec == Init /\ [][Next]_session
=============================================================================
