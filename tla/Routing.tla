------------------------------ MODULE Routing ------------------------------
(***************************************************************************)
(* The choice RoutingEngine.assign_conversation makes under the default     *)
(* policy, the only one its callers pass: the agent of the contact's last   *)
(* conversation if there is one, active, within working hours and below its *)
(* limit; else the active agent with the best score.  Callers pass neither  *)
(* skills nor a language and nothing sets is_online, so a score is          *)
(* (1 - load / limit) * 40 and the best one has the lowest relative load.   *)
(***************************************************************************)
EXTENDS Naturals, FiniteSets

CONSTANTS
    Agents,      \* the users of the company
    Limit,       \* max_concurrent_conversations of each agent
    Nobody       \* "no agent": a conversation that is unassigned

ASSUME LimitIsNat == Limit \in [Agents -> Nat]
ASSUME NobodyIsNoAgent == Nobody \notin Agents

(* The agents below their limit; load is a function of the agents.          *)
Free(load) == {a \in Agents : load[a] < Limit[a]}

(* _is_agent_available, the limit, and the agent still active.              *)
StickyAgent(prev, active, onDuty, load) ==
    {prev} \cap active \cap onDuty \cap Free(load)

(* _calculate_score, compared without the division.                         *)
ScoresAtLeast(a, b, load) == load[a] * Limit[b] <= load[b] * Limit[a]

(* _scoring_fallback: working hours play no part here; ties go to whichever *)
(* agent the database lists first.                                          *)
ScoringFallback(active, load) ==
    LET scored == active \cap Free(load)
    IN  {a \in scored : \A b \in scored : ScoresAtLeast(a, b, load)}

(* The agents the engine may return, given the contact's previous agent.    *)
Assignable(prev, active, onDuty, load) ==
    LET sticky == StickyAgent(prev, active, onDuty, load)
        fallback == ScoringFallback(active, load)
    IN  IF sticky # {} THEN sticky
        ELSE IF fallback # {} THEN fallback ELSE {Nobody}
=============================================================================
