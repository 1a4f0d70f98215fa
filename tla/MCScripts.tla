----------------------------- MODULE MCScripts ------------------------------
(* load.lua, the script of one signal and new scripts; two texts.            *)
EXTENDS Scripts

CONSTANTS load, sig, new1, new2

MCNewNames   == <<new1, new2>>
MCOtherNames == {}
=============================================================================
