---- MODULE MCControlSession ----
\* A small instance of ControlSession for TLC.
EXTENDS ControlSession
====
