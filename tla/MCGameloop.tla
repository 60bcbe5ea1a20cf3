----------------------------- MODULE MCGameloop -----------------------------
EXTENDS Gameloop, TLC

CONSTANTS c1, c2

\* One client drives, the other cheats; none wins by
\* cheating.
RaceMoves == (c1 :> {"press", "release"}) @@ (c2 :> {"undestroyable", "ghost"})
\* Both win and lose by cheating.
TournamentMoves == [c \in Clients |-> {"win", "lose"}]

\* Symmetry: clients are only compared.
ClientSymmetry == Permutations(Clients)

Penalties == [l \in 1 .. 3 |-> l]

=============================================================================
