---------------------------- MODULE MCVerboseLog ----------------------------
(***************************************************************************)
(* VerboseLog with three pids, so that a child has children, siblings are  *)
(* forked from one parent and pids are used again; with one, several and   *)
(* no dots in a name, in its directory too, and a stream.                  *)
(***************************************************************************)
EXTENDS VerboseLog

MCNames == {<<"x">>, <<"x", ".", "log">>, <<".", "/", "x", ".", "log">>,
            <<"x", "%p", ".", "log">>, <<"stderr">>}
MCStreams   == {<<"stderr">>}
=============================================================================
