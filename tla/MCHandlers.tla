------------------------------ MODULE MCHandlers ------------------------------
(***************************************************************************)
(* Every command of commands[] that has a script, over every transport.    *)
(***************************************************************************)
EXTENDS Handlers

AllCommands == DOMAIN commands
AllTransports == DOMAIN Hooks
=============================================================================
