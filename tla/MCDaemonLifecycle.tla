------------------------- MODULE MCDaemonLifecycle -------------------------
\* A small instance of DaemonLifecycle for TLC.
EXTENDS DaemonLifecycle, TLC

\* Before the first start: the device that is not the fallback is or is not plugged
\* in, is or is not saved, and is the default sink the user once chose; or the daemon's
\* own sink is saved, and nothing is plugged in; or it is the very first start of the
\* session, with nothing saved, plugged in or configured and no metadata object yet.
MCInit ==
  /\ Init
  /\ graph[2] = None /\ {graph[1], saved} \cap {Fallback} = {}
  /\ saved = Own => graph[1] = None
  /\ configured = IF published THEN CHOOSE n \in Names \ {Fallback} : TRUE ELSE None
  /\ published \/ (saved = None /\ graph[1] = None)

MCSpec == MCInit /\ [][Next]_vars /\ Fairness
=============================================================================
