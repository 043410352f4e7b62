---------------------------- MODULE MCDiffChain -----------------------------
(* Three pages, the first of two cells so that it can be torn, the last    *)
(* holding a virtio queue; a live budget of one page, so that the backlog  *)
(* of a dump may hold an ordinary page as well as the queue's.             *)
EXTENDS DiffChain

MCPages == {1, 2, 3}
MCCells == {11, 12, 21, 31}
MCPageOf == [x \in MCCells |-> x \div 10]
MCQueue == {3}
=============================================================================
