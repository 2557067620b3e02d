---------------------------- MODULE MCBlockSync ----------------------------
(* The start-up sync of the databases; the configurations choose the heights *)
(* at which the databases are found and what may happen meanwhile.           *)
EXTENDS BlockSync

\* Heights of postgres (-1: empty), SQLite (-1: empty) and the stake DB.
Fresh == {<<-1, -1, 0>>}
\* Postgres is not ahead of the stake DB, as after a clean stop, after a crash
\* that lost postgres' block, or after a time in lite mode.
NotBehind == {<<1, 1, 1>>, <<1, 2, 2>>, <<1, 2, 1>>, <<2, 2, 2>>}
\* SQLite lost the last block of postgres.
Behind == {<<2, 1, 2>>}

AnyStart == Fresh \cup NotBehind \cup Behind
=============================================================================
