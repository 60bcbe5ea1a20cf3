---------------------------- MODULE MCGameManager ----------------------------
\* The instance of GameManager that TLC checks: clients and game objects are
\* interchangeable (the model compares them for equality only).
EXTENDS GameManager, TLC

Interchangeable == Permutations(Clients) \cup Permutations(Games)

=============================================================================
