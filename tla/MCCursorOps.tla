---------------------------- MODULE MCCursorOps ----------------------------
(* Instances of CursorOps for TLC.                                           *)
EXTENDS CursorOps

S(initFlag, key, flags, limit) ==
    [initFlag |-> initFlag, key |-> key, flags |-> flags, limit |-> limit]

\* Both directions across the pages, with a limit that cuts the run short, one
\* that does not, and none.
MixedScans ==
    {S("DB_SET", 2, "DB_NEXT", 9), S("DB_SET_RANGE", 2, "DB_PREV", 2),
     S("DB_FIRST", 1, "DB_NEXT", 0), S("DB_LAST", 1, "DB_PREV", 2)}

\* The wrapper's defaults, on the first key.
DefaultScans == {S("DB_SET", 1, "DB_NEXT", 100)}

\* Keys 1 and 2 share a page, key 3 is alone.
TwoPages == (1 :> 1) @@ (2 :> 1) @@ (3 :> 2)
=============================================================================
