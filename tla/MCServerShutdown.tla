-------------------------- MODULE MCServerShutdown --------------------------
\* The instance of ServerShutdown that TLC checks.
EXTENDS ServerShutdown

\* What steers the threads.  No guard and no property of the module reads cars,
\* told, view, snapshot or what a closed queue holds, nor at of a client in
\* FreeClients: two states that differ only there have the same futures.
Control ==
  <<mem, lobby, started, players, registry, closed, loop, outq \ closedOut,
    hs, rpc, rgame, definite, snd, cur, cmdq, peer,
    [c \in Clients \ FreeClients |-> at[c]],
    apc, reaped, todo, joining, shvars, twice>>

=============================================================================
