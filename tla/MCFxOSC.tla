------------------------------ MODULE MCFxOSC ------------------------------
(***************************************************************************)
(* Instances of FxOSC for TLC.                                             *)
(***************************************************************************)
EXTENDS FxOSC

Request(p, a) == [path |-> p, arg |-> a]

\* a rebuild, a change of weights, a poll list and quit
WorldSession == {Request("/fx/world", 1), Request("/fx/world", 2),
                 Request("/fx/poll", 2), Request("/fx/quit", 1)}

\* two poll lists and a rebuild
PollSession == {Request("/fx/poll", 1), Request("/fx/poll", 2), Request("/fx/world", 1)}

\* commands for two patches, with a cell request that cuts a frame short
PatchSession == {Request("/fx/patch", 0), Request("/fx/patch", 1), Request("/fx/cell", 1),
                 Request("/fx/world", 2), Request("/fx/quit", 1)}

\* lists of no and of one entry
ShortSession == {Request("/fx/poll", 0), Request("/fx/poll", 1), Request("/fx/world", 0),
                 Request("/fx/quit", 1)}

Playing(session, x) == [requests |-> session, roomy |-> x]

All == {Playing(WorldSession, TRUE), Playing(PollSession, FALSE), Playing(PatchSession, TRUE),
        Playing(ShortSession, TRUE), Playing(ShortSession, FALSE)}
OneWorldSession == {Playing(WorldSession, TRUE)}
============================================================================
