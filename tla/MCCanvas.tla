------------------------------ MODULE MCCanvas ------------------------------
(***************************************************************************)
(* The canvas with two generation calls, at most two results each, and a   *)
(* budget of steps of the user.  A project is loaded with a group that     *)
(* holds the half failed batch of an interrupted session, or with a        *)
(* configuration connected to an empty image.                              *)
(***************************************************************************)
EXTENDS CanvasGeneration

MCRuns  == 1..2
MCItems == 1..2
HalfDone == [status |-> "error", items |-> <<"success", "error">>, primary |-> 1,
             shown |-> 1, batch |-> 0]
InGroup ==
    [nodes |-> [Empty.nodes EXCEPT ![1] = Node("group", 0, FALSE, NewGen),
                                   ![2] = Node("image", 1, TRUE, HalfDone)],
     conns |-> {}, made |-> 2]
Configured ==
    [nodes |-> [Empty.nodes EXCEPT ![1] = Node("config", 0, FALSE, NewGen),
                                   ![2] = Node("image", 0, FALSE, NewGen)],
     conns |-> {<<1, 2>>}, made |-> 2]
MCCanvases == {InGroup, Configured}

(* Both are documents that generations left behind.                         *)
ASSUME MCGenerated == GeneratedCanvases
=============================================================================
