-------------------------------- MODULE MCWaits --------------------------------
EXTENDS Waits

CONSTANTS cb, poll, msg, s1, s2

MCSessionOf(i) == IF i = msg THEN s2 ELSE s1
MCModeOf(i) == IF i = cb THEN "callback" ELSE IF i = poll THEN "poll" ELSE "message"
===============================================================================
