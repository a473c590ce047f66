-------------------------- MODULE MissionLifecycle --------------------------
(* The vocabulary of a mission: its types, the slots it asks for, the status  *)
(* graph that the conversation state and the mission manager share, and the   *)
(* kinds of transition a proposal may ask for.                                *)
EXTENDS Integers, Sequences

MissionType == {"auto_claim_guidance", "general_orientation", "knowledge_lookup"}

\* "none" is the absent mission (active_mission is None).
NoType == "none"

MissionStatus == {"initialized", "gathering_information", "ready_to_progress",
                  "progressing", "waiting_user", "completed", "suspended"}

\* The edges a mission status may take, MISSION_LIFECYCLE.
MISSION_LIFECYCLE ==
  [initialized           |-> {"gathering_information", "waiting_user",
                              "ready_to_progress", "suspended"},
   gathering_information |-> {"waiting_user", "ready_to_progress",
                              "progressing", "suspended"},
   ready_to_progress     |-> {"progressing", "waiting_user", "completed", "suspended"},
   progressing           |-> {"waiting_user", "ready_to_progress", "completed",
                              "suspended"},
   waiting_user          |-> {"gathering_information", "ready_to_progress",
                              "progressing", "suspended"},
   completed             |-> {"suspended"},
   suspended             |-> {"gathering_information", "waiting_user"}]

Slot == {"injuries", "user_role", "user_need"}

\* An answered slot carries its value; "yes" and "no" are the two values of
\* injuries (true, false) and of user_role (insured, third party).
SlotState == {"absent", "pending", "partially_filled", "yes", "no"}
ClosedSlotState == {"yes", "no"}

PendingSlots(slots) == {s \in Slot : slots[s] \in {"pending", "partially_filled"}}

NoSlots == [s \in Slot |-> "absent"]

\* What is kept of the mission dictionary: the snapshot of the slots it carries
\* is the one _advance_mission or _mission_with_slots stored last.
Mission == [type    : MissionType \union {NoType},
            status  : MissionStatus,
            missing : SUBSET Slot,
            slots   : [Slot -> SlotState]]

NoMission == [type |-> NoType, status |-> "initialized", missing |-> {}, slots |-> NoSlots]

IsMission(m) == m.type # NoType

\* The mission MissionManager.before_kernel creates when a conversation has none.
NewMission(type) ==
  [type    |-> type,
   status  |-> "initialized",
   missing |-> CASE type = "auto_claim_guidance" -> {"injuries", "user_role"}
                 [] type = "general_orientation" -> {"user_need"}
                 [] OTHER                        -> {},
   slots   |-> NoSlots]
=============================================================================
