-------------------------- MODULE MCWatcherRefresh --------------------------
(* WatcherRefresh for TLC: two files, one of which may be absent.          *)
EXTENDS WatcherRefresh, TLC

CONSTANTS f1, f2, v1, v2

MCFiles == {f1, f2}
MCOneBelow == {f2}
MCContents == {Absent, v1}
=============================================================================
