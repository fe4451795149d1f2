--------------------------- MODULE MCTaskDirectory ---------------------------
(* Three tasks in an array of five, one more than the code creates, with or  *)
(* without garbage in the first slot; a search for a slot starts at it or    *)
(* at the next.                                                              *)
EXTENDS TaskDirectory

MCJunk == {{}, {0}}
=============================================================================
