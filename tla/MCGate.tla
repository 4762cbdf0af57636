------------------------------- MODULE MCGate -------------------------------
(***************************************************************************)
(* Gate for TLC: two keys, two tools, up to three calls, in four setups    *)
(* that let different parts of the gate vary.  The setup is chosen in the  *)
(* initial state and stays; what a setup leaves out cannot happen in it.   *)
(***************************************************************************)
EXTENDS Gate, TLC

CONSTANTS k1, k2, t1, t2, team1

VARIABLE setup

Accounts == Permutations({k1, k2})
TwoKeys == {k1, k2}
TwoTools == {t1, t2}
OneTeam == {team1}
PriceTwo == t1 :> 2 @@ t2 :> 2
PriceTwoOne == t1 :> 2 @@ t2 :> 1
PriceOne == t1 :> 1 @@ t2 :> 1
OneAndTwo == t1 :> 1 @@ t2 :> 2
AllOpen == {[ipOk |-> TRUE, open |-> Tools]}
OnlyT2 == {[ipOk |-> TRUE, open |-> {t2}]}
AnyOrigin == {[ipOk |-> FALSE, open |-> Tools], [ipOk |-> TRUE, open |-> {}],
              [ipOk |-> TRUE, open |-> Tools]}
TwoADay == [NoQuota EXCEPT !.on = TRUE, !.dailyCalls = 2, !.monthlyCredits = 4]
OneADay == [NoQuota EXCEPT !.on = TRUE, !.dailyCalls = 1]
QuotaChoices == {NoQuota, OneADay}
TopupOnce == [threshold |-> 2, amount |-> 2, maxDaily |-> 1]
TopupChoices == {TopupOnce}

(* Credits move between accounts, with a restart. *)
Money == INSTANCE Gate WITH
    Price <- PriceOne,
    ShadowModes <- {}, Grants <- {2}, Limits <- {1}, KeyQuotas <- {}, Topups <- {},
    Expiries <- {}, Origins <- OnlyT2, Budgets <- {}, TeamQuotas <- {},
    AdminOps <- {"topup", "transfer", "rotate", "clone", "suspend"},
    MaxNow <- 0, MaxDay <- 0, MaxBalance <- 2

(* Windows and quotas of one key, over midnight and a restart. *)
Rates == INSTANCE Gate WITH
    Price <- PriceTwoOne,
    ShadowModes <- {}, Limits <- {}, KeyQuotas <- {}, Topups <- {},
    Grants <- {6}, Expiries <- {1}, Origins <- AllOpen,
    Budgets <- {}, TeamQuotas <- {}, AdminOps <- {},
    MaxBalance <- 3

(* A team whose members come and go, over midnight. *)
Sharing == INSTANCE Gate WITH
    ShadowModes <- {}, Grants <- {4}, Limits <- {}, KeyQuotas <- {}, Topups <- {},
    Expiries <- {}, Origins <- OnlyT2, AdminOps <- {}, MaxNow <- 0, MaxLife <- 0

(* Shadow mode is switched on and off, the key's own quota changes, and it *)
(* is topped up automatically.                                             *)
Reload == INSTANCE Gate WITH
    Limits <- {}, KeyQuotas <- {NoQuota, OneADay}, Topups <- {TopupOnce},
    Expiries <- {}, Budgets <- {}, TeamQuotas <- {}, AdminOps <- {},
    MaxNow <- 0, MaxLife <- 0

(* At most the keys K and n calls are used. *)
Within(K, n) == known' \subseteq K /\ \A i \in CallIds : i > n => calls'[i] = NoCall

MCInit == Init /\ setup \in {"money", "rates", "sharing", "reload"}
MCNext == /\ UNCHANGED setup
          /\ \/ setup = "money" /\ Money!Next /\ Within(Keys, 2)
             \/ setup = "rates" /\ Rates!Next /\ Within({k1}, 3)
             \/ setup = "sharing" /\ Sharing!Next /\ Within(Keys, 2)
             \/ setup = "reload" /\ Reload!Next /\ Within({k1}, 2)
MCSpec == MCInit /\ [][MCNext]_<<vars, setup>>
=============================================================================
