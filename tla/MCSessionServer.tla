--------------------------- MODULE MCSessionServer ---------------------------
\* The instance of SessionServer that TLC checks.  Game addresses are
\* interchangeable; client ids are not, the acceptor visits them in order.
EXTENDS SessionServer, TLC

Interchangeable == Permutations(Games)

\* What steers the threads.  The variables left out (cars, told, view) only
\* record what was queued, for GameManager's properties: no guard of this
\* module reads them.  Nor does one read at[c] of a client in FreeClients, but
\* to change it again.
Control ==
  <<mem, lobby, started, players, registry, closed, loop, outq, avars,
    hs, rpc, rgame, definite, snd, cur, cmdq, peer,
    [c \in Clients \ FreeClients |-> at[c]]>>

=============================================================================
