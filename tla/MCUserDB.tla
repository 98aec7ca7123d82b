------------------------------ MODULE MCUserDB ------------------------------
(* The user database on a small instance: nodes of at most three accounts, *)
(* four emails, ids that are given out again after a restart.              *)
EXTENDS UserDB

MCEmails == 1..4
MCVal == [id: 1..MaxUserId, role: {ROLE_USER, ROLE_ADMIN}, active: BOOLEAN]
=============================================================================
