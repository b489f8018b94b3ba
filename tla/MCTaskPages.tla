----------------------------- MODULE MCTaskPages -----------------------------
(* Model-checking instance of TaskPages: one page, a studio or a board.  A *)
(* page acts on others only through requests to the server, which may come *)
(* at any time.                                                            *)
EXTENDS TaskPages
=============================================================================
