------------------------- MODULE MCControlCommands -------------------------
\* Small instances of ControlCommands for TLC.
EXTENDS ControlCommands, TLC

ClientSymmetry == Permutations(Clients)

\* Entry 0 is the bundled default; the user's files are 1 and 2.
OneBundled == <<0>>

\* Where no file comes or goes a watch that inotify refuses makes no difference.
Watching == phase' = "device" => watched'
=============================================================================
