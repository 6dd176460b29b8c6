----------------------------- MODULE MCGameServer -----------------------------
(* One arena, two tabs, and entries of one life each. *)
EXTENDS GameServerProps, TLC

CONSTANTS alice, bob, c1, c2

TwoPlayers == c1 :> alice @@ c2 :> bob
TwoTabs    == c1 :> alice @@ c2 :> alice

OneEach    == <<alice, bob>>
AllAlice   == <<alice, alice>>

SoloTab   == c1 :> alice
SoloEntry == <<alice>>
=============================================================================
