---------------------------- MODULE MCTransactions ----------------------------
(* A session and an autocommitted write on one row, for TLC to check        *)
(* Transactions on: TXCommits.cfg names them.  They differ in kind (the     *)
(* session is on a follower, the write on the leader), so there is no       *)
(* symmetry, and no definition here but the module's own.                   *)
EXTENDS Transactions
=============================================================================
