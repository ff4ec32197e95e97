---------------------------- MODULE MCDevicePoll ----------------------------
(* Small numbers for DevicePoll: two units to the minimum interval, codes   *)
(* that expire before the first request, between requests, exactly at one,  *)
(* and out of range.                                                        *)
EXTENDS DevicePoll

MCExpiries == (1 .. 16) \cup {100}
MCIntervals == {0, 2, 3}
MCRetryAfters == {0, 3, 50}
=============================================================================
