---------------------------- MODULE MCCliSessions ----------------------------
(* Two tasks, which may reply to the same message or to none. *)
EXTENDS CliSessions
CONSTANTS t1, t2
MCTask == {t1, t2}
=============================================================================
