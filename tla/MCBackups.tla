------------------------------ MODULE MCBackups ------------------------------
(***************************************************************************)
(* Small instances of Backups: one of the tables that are compared.        *)
(***************************************************************************)
EXTENDS Backups, TLC

OrdersAndMigrations == <<"orders", "_sqlx_migrations">>
OrdersOnly == <<"orders">>
=============================================================================
