----------------------------- MODULE MCWorkbench -----------------------------
(* Two accounts; 1 and 2 are Ann's keys and offer different image models,   *)
(* 3 is Bob's; the settings panel's sizes and some typed over them; streams *)
(* with either line break, labels, errors and no final break.               *)
EXTENDS ModelRequests

MCOwner  == [k \in ApiKeys |-> IF k = 3 THEN "bob" ELSE "ann"]
MCOffers == [k \in ApiKeys |-> CASE k = 1 -> <<"chat", "image1", "image2">>
                              [] k = 2 -> <<"image2">>
                              [] k = 3 -> <<"chat">>]
MCNodeModels == {NoModel, Encoded(1, "image2"), Encoded(2, "image2"), Encoded(1, "chat")}

MCSettings ==
    {<<q, s>> : q \in Qualities, s \in Listed}
        \cup {<<"auto", Typed(s, side, v, snap)>> :
                 s \in {Ratio(16, 9), Ratio(2, 3), Pixels(3840, 2160)}, side \in {"w", "h"},
                 v \in {1, 1000, 3841}, snap \in BOOLEAN}

MCScripts ==
    <<[events |-> <<"a">>, crlf |-> FALSE, labels |-> FALSE, closed |-> TRUE],
      [events |-> <<"a", "b", "whole", "done">>, crlf |-> FALSE, labels |-> FALSE, closed |-> TRUE],
      [events |-> <<"a", "b", "full">>, crlf |-> TRUE, labels |-> TRUE, closed |-> FALSE],
      [events |-> <<"a", "fail", "b">>, crlf |-> TRUE, labels |-> FALSE, closed |-> TRUE],
      [events |-> <<"full", "done">>, crlf |-> FALSE, labels |-> TRUE, closed |-> FALSE],
      [events |-> <<"whole">>, crlf |-> TRUE, labels |-> TRUE, closed |-> TRUE]>>
=============================================================================
