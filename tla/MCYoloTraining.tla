---------------------------- MODULE MCYoloTraining ----------------------------
(* Instances of YoloTraining for TLC: two manifests that bring about the ways  *)
(* a line is handled; submissions and seconds are interchangeable.             *)
EXTENDS YoloTraining, TLC

Good(source, boxes) == [metas |-> 1, jobs |-> 1, failed |-> FALSE, source |-> source,
                        sizes |-> 1, boxes |-> boxes]
A == Good(<<"x", "a", "jpg">>, <<1, 2>>)
SameName == Good(<<"y", "a", "png">>, <<3>>)  \* a class that the class-map lacks
Empty == [A EXCEPT !.boxes = <<>>]
Failed == [A EXCEPT !.failed = TRUE, !.jobs = 0]
NoMetadata == [A EXCEPT !.metas = 0]

MCManifests == { <<A, SameName>>, <<Failed, SameName, Empty, A, NoMetadata>> }
MCFiles == <<"weights", "data">>
Settings == Permutations(Submissions) \cup Permutations(Stamps)
===============================================================================
