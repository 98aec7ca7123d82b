---------------------------- MODULE MCProjectDB ----------------------------
(* The project database on a small instance: nodes of at most three *)
(* projects, ids that are given out again after a restart.          *)
EXTENDS ProjectDB

MCIds == 1..5
MCApiKeys == 1..5
MCUsers == {1, 2}
MCVal == [user_id: User, api_key: ApiKey, fast_threshold: {100}]
=============================================================================
