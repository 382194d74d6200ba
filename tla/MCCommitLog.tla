---------------------------- MODULE MCCommitLog ----------------------------
(***************************************************************************)
(* CommitLog and LogReader for TLC.  Three messages share a key, so that   *)
(* compaction removes some messages of the first segment or, once the last *)
(* one is committed, the whole segment; one message has no key.  A         *)
(* follower's log is cut, closed and opened again, so more of it is        *)
(* uncommitted; a leader's log has readers.                                *)
(***************************************************************************)
EXTENDS LogReader

CONSTANTS k, nokey

MCKeyOf == [o \in 0 .. MaxOffset |-> IF o = 2 THEN nokey ELSE k]
MCMaxLag == [r \in Role |-> IF r = "leader" THEN 1 ELSE 2]
MCMaxRestarts == [r \in Role |-> IF r = "leader" THEN 0 ELSE 1]
=============================================================================
