------------------------------ MODULE MCActors ------------------------------
(* Instances of the actor scheduler for TLC.                               *)
EXTENDS ActorsProperties

Everyone == (Id \cup {Main}) \X Id

(* A chain of command: main drives 1, which drives 2, which drives 3.       *)
Hierarchy == {<<0, 1>>, <<1, 2>>, <<2, 3>>} \cap Everyone

(* Main starts three; 1 asks 3, and 2 asks 1.                               *)
Crossing == {<<0, 1>>, <<0, 2>>, <<0, 3>>, <<1, 3>>, <<2, 1>>} \cap Everyone

(* The same, and 3 asks 1 in turn.                                          *)
Mutual == Crossing \cup ({<<3, 1>>} \cap Everyone)
=============================================================================
