------------------------------ MODULE MCLanes -------------------------------
(***************************************************************************)
(* The multi-client server in a calm environment: two lanes of one client  *)
(* whose connections only drop once they run, and one lane of a second     *)
(* client that fails anywhere and is revoked by a reload.                  *)
(***************************************************************************)
EXTENDS MCMultiClient

ASSUME LanesCalm == Calm
=============================================================================
