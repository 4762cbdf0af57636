------------------------------- MODULE Teams -------------------------------
(***************************************************************************)
(* Teams of keys with a shared budget and quota (teams.ts).  memberKeys of *)
(* a team and the reverse index keyToTeam always change together, so one   *)
(* function teamOf stands for both.                                        *)
(***************************************************************************)
EXTENDS KeyStore, FiniteSets

CONSTANTS Keys,          \* key strings the generator may produce
          TeamIds,       \* team ids the generator may produce
          NoTeam,        \* the absence of a team
          MaxTeamKeys,   \* members a team may have (100 in the code)
          Budgets,       \* budgets an administrator sets
          TeamQuotas     \* quotas an administrator sets

ASSUME TeamsAssumption ==
    /\ NoTeam \notin TeamIds
    /\ Budgets \subseteq Nat
    /\ TeamQuotas \subseteq Quota
    /\ MaxTeamKeys \in Nat

VARIABLES team,          \* team[t]: the record of team t
          teamOf         \* teamOf[k]: the team of key k, or NoTeam

teamVars == <<team, teamOf>>

TeamRecord == [exists : BOOLEAN, active : BOOLEAN, budget : Nat,
               totalSpent : Nat, quota : Quota, used : Usage]

BlankTeam == [exists |-> FALSE, active |-> FALSE, budget |-> 0,
              totalSpent |-> 0, quota |-> NoQuota, used |-> FreshUsage(0)]

TeamsInit == /\ team = [t \in TeamIds |-> BlankTeam]
             /\ teamOf = [k \in Keys |-> NoTeam]

Members(t) == {k \in Keys : teamOf[k] = t}

CreateTeam(t, budget, q, d) ==
    /\ ~team[t].exists
    /\ team' = [team EXCEPT ![t] =
                 [exists |-> TRUE, active |-> TRUE, budget |-> budget,
                  totalSpent |-> 0, quota |-> q, used |-> FreshUsage(d)]]
    /\ UNCHANGED teamOf

(* updateTeam: a new budget and quota for an active team. *)
UpdateTeam(t, budget, q) ==
    /\ team[t].active
    /\ team' = [team EXCEPT ![t].budget = budget, ![t].quota = q]
    /\ UNCHANGED teamOf

DeleteTeam(t) ==
    /\ team[t].active
    /\ team' = [team EXCEPT ![t].active = FALSE]
    /\ teamOf' = [k \in Keys |-> IF teamOf[k] = t THEN NoTeam ELSE teamOf[k]]

(* assignKey: a key of no team joins an active team with room. *)
AssignKey(t, k) ==
    /\ team[t].active
    /\ teamOf[k] = NoTeam
    /\ Cardinality(Members(t)) < MaxTeamKeys
    /\ teamOf' = [teamOf EXCEPT ![k] = t]
    /\ UNCHANGED team

RemoveKey(t, k) ==
    /\ teamOf[k] = t
    /\ teamOf' = [teamOf EXCEPT ![k] = NoTeam]
    /\ UNCHANGED team

(* checkBudget and checkQuota, as the gate's teamChecker runs them.  The   *)
(* quota check always counts one call, a batch included.                   *)
InTeam(k) == teamOf[k] # NoTeam

(* Slip: the budget compared with what is already spent only. *)
TeamAllowsSpent(k, c, d) ==
    InTeam(k) =>
        LET m == team[teamOf[k]]
        IN  /\ WithinLimit(m.totalSpent, 0, m.budget)
            /\ QuotaAllows(m.quota, ResetIfNeeded(m.used, d), 1, c)

TeamAllows(k, c, d) ==
    InTeam(k) =>
        LET m == team[teamOf[k]]
        IN  /\ WithinLimit(m.totalSpent, c, m.budget)
            /\ QuotaAllows(m.quota, ResetIfNeeded(m.used, d), 1, c)

(* recordUsage: one call for c credits, for a batch too. *)
CountTeamUsage(m, c, d) ==
    [m EXCEPT !.totalSpent = m.totalSpent + c, !.used = QuotaRecord(m.used, d, 1, c)]

TeamRecordUsage(k, c, d) ==
    /\ team' = IF InTeam(k)
               THEN [team EXCEPT ![teamOf[k]] = CountTeamUsage(@, c, d)]
               ELSE team
    /\ UNCHANGED teamOf
=============================================================================
