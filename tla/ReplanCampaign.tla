---------------------------- MODULE ReplanCampaign ----------------------------
(***************************************************************************)
(* What the replan coordinator reads from a campaign directory.  A campaign *)
(* is the sequence of its attempt directories; an attempt answers the       *)
(* terminal event of one cycle with a successor queue or a stop.  The       *)
(* directory is filled by durable writes, each file before its sidecar; a   *)
(* kill leaves it at the stage it has reached.                              *)
(***************************************************************************)
EXTENDS Naturals, Sequences

CONSTANTS Cycles   \* numbers of cycle directories, in the order of their names

Decisions == {"successor", "stop"}
Stages    == {"dir", "accepted_json", "accepted", "successor_json", "successor", "campaign_json", "campaign"}
Attempt   == [cycle : Cycles, decision : Decisions, stage : Stages]

\* persist_replan_result: the write after the stage; a stop has no queue.
NextStage(a) ==
  CASE a.stage = "dir"            -> "accepted_json"
    [] a.stage = "accepted_json"  -> "accepted"
    [] a.stage = "accepted"       -> IF a.decision = "stop" THEN "campaign_json" ELSE "successor_json"
    [] a.stage = "successor_json" -> "successor"
    [] a.stage = "successor"      -> "campaign_json"
    [] OTHER                      -> "campaign"

\* load_verified_accepted_replan: the first pair is complete.
AcceptedLoads(a) == a.stage \notin {"dir", "accepted_json"}

\* _load_attempts: the first and the last pair of every attempt verify.
CampaignLoads(attempts) == \A n \in DOMAIN attempts : attempts[n].stage = "campaign"

\* Fault: what was answered before is not recognised.
NoneAnswers(attempts, c) == {}

\* _same_event, over the attempts that load.
Answers(attempts, c) == {n \in DOMAIN attempts : attempts[n].cycle = c}

\* terminal_event_conflict: an event older than one that was answered.
Fresh(attempts, c) == attempts # <<>> => c > attempts[Len(attempts)].cycle
=============================================================================
