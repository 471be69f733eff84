----------------------------- MODULE MCMigrations -----------------------------
(* Model-checking values for Migrations: an old release, its successor, and *)
(* a release that edited the second migration.                              *)
EXTENDS Migrations

CONSTANTS old_r, new_r, edited_r, old_q, new_q, a, b, c, x, y

MCFiles ==
  [p \in Runners \cup Probes |->
     CASE p \in {old_r, old_q} -> <<a, b, NoMigration>>
       [] p \in {new_r, new_q} -> <<a, b, c>>
       [] p = edited_r -> <<a, x, y>>]
=============================================================================
