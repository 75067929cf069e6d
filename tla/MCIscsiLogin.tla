----------------------------- MODULE MCIscsiLogin -----------------------------
(***************************************************************************)
(* Two sessions, two device names and two rounds of each waiting loop.     *)
(***************************************************************************)
EXTENDS IscsiLogin

CONSTANTS s1, s2, sda, sdb

MCSids == {s1, s2}
MCDevices == {sda, sdb}
================================================================================
