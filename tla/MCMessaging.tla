---------------------------- MODULE MCMessaging ----------------------------
(* Instance of Messaging for TLC; the .cfg files give the constants.        *)
EXTENDS Messaging
=============================================================================
