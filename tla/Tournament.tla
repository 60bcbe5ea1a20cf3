------------------------------ MODULE Tournament ------------------------------
(***************************************************************************)
(* What the game loop promises to the clients of a game: the order of the  *)
(* phases of a tournament, and the messages that announce each change.  A  *)
(* client hears no phase number: it counts these messages.                 *)
(***************************************************************************)
EXTENDS Naturals, Sequences

CONSTANTS Races, Tables

VARIABLES
  round,  \* races begun or about to begin, the first is 0
  phase,  \* "lobby", "racing", "results", "choosing", "waiting", "final", "over"
  shown,  \* result tables announced in the final phase
  said    \* the messages of this step, in order

tvars == <<round, phase, shown, said>>

TInit == round = 0 /\ phase = "lobby" /\ shown = 0 /\ said = <<>>

Quiet == said' = <<>> /\ UNCHANGED <<round, phase, shown>>

\* Every race opens with a pregame message, and only then are there snapshots.
OpenRace ==
  /\ phase \in {"lobby", "waiting"}
  /\ phase' = "racing" /\ said' = <<"pregame">>
  /\ UNCHANGED <<round, shown>>

TSnapshot ==
  /\ phase = "racing" /\ said' = <<"snapshot">>
  /\ UNCHANGED <<round, phase, shown>>

\* Between two races: the results, and one message at the end of each screen.
CloseRace ==
  /\ phase = "racing" /\ round + 1 < Races
  /\ phase' = "results" /\ round' = round + 1 /\ said' = <<"results">>
  /\ UNCHANGED shown

OfferUpgrades ==
  /\ phase = "results"
  /\ phase' = "choosing" /\ said' = <<"phase">>
  /\ UNCHANGED <<round, shown>>

CollectUpgrades ==
  /\ phase = "choosing"
  /\ phase' = "waiting" /\ said' = <<"phase">>
  /\ UNCHANGED <<round, shown>>

\* After the last race: all the tables, then one message, then nothing.
CloseLastRace ==
  /\ phase = "racing" /\ round + 1 = Races
  /\ phase' = "final" /\ said' = <<>>
  /\ UNCHANGED <<round, shown>>

ShowTables ==
  /\ phase = "final"
  /\ \E n \in 0 .. Tables - shown :
       /\ shown' = shown + n
       /\ \/ phase' = "final" /\ said' = [i \in 1 .. n |-> "final_results"]
          \/ /\ shown' = Tables
             /\ phase' = "over" /\ said' = Append([i \in 1 .. n |-> "final_results"], "phase")
  /\ UNCHANGED round

TNext ==
  \/ Quiet \/ OpenRace \/ TSnapshot \/ CloseRace \/ OfferUpgrades \/ CollectUpgrades
  \/ CloseLastRace \/ ShowTables

TSpec == TInit /\ [][TNext]_tvars

=============================================================================
