------------------------------- MODULE MCDaemon -------------------------------
(* Daemon for TLC: two pid files, a configuration file for each. *)
EXTENDS Daemon

Set(n, v) == [name |-> n, value |-> v]

TwoFiles == {
  << Set("pid_file", 1), Set("work_retry_count", 1), Set("mysql_server", 1) >>,
  << Set("mysql_server", 1), Set("pid_file", 2), Set("obey_work_retry_count", 1),
     Set("mysql_server", 2) >> }
=============================================================================
