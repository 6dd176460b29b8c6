------------------------------- MODULE MCLobby -------------------------------
(* One visitor who wants one or two games. *)
EXTENDS LobbyProps, TLC

CONSTANT DearForm  \* the form with a creator fee

Alike == Permutations(Pages) \cup Permutations(Nonces)

SomeFee == [f \in Forms |-> IF f = DearForm THEN 20 ELSE 0]
=============================================================================
