------------------------------- MODULE MCBots -------------------------------
(* One bot, created again at most once; three commands at a time.            *)
EXTENDS Bots

CONSTANTS s1, s2
=============================================================================
