---------------------------- MODULE MCDataSocket ----------------------------
(***************************************************************************)
(* The event loop of a data service with two child contexts, a kernel that *)
(* holds less than two frames, and a client that sends two requests before *)
(* it reads a response.                                                    *)
(***************************************************************************)
EXTENDS DataSocket

CONSTANT app

MCAppCap == {app}

All == {app, ReduceCaps, ChildCreate, ChildClose}

Req(op, caps, index) == [op |-> op, caps |-> caps, index |-> index]

MCRequests ==
    {Req("root_init", {}, 0), Req("reduce_caps", Cap \ {ReduceCaps}, 0),
     Req("child_create", All, 0), Req("child_close", {}, 0)}
=============================================================================
