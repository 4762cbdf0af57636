-------------------------------- MODULE Fleet --------------------------------
(***************************************************************************)
(* Several servers behind Redis, side by side: the connection of one of    *)
(* them (RedisClient), and the key all of them share (RedisSync, F), for   *)
(* the runs and the proofs.                                                *)
(***************************************************************************)
EXTENDS RedisClient

CONSTANTS Instances, Initial, Price, TopUpAmount, Budgets   \* of RedisSync

VARIABLES loc, rds, q, r, ev, listens, budget, left, tally

F == INSTANCE RedisSync

(* What Redis holds is the balance of the fleet (RedisSync): every charge  *)
(* and top-up that reached it, of all instances.                           *)
FleetBalance == F!FleetBalance
=============================================================================
