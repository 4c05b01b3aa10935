------------------------------ MODULE MCIntake ------------------------------
(* Instances of Intake for TLC. *)
EXTENDS Intake

CONSTANTS ann, bob, offer, hello

MCPersons == {ann, bob}
MCMessages == {offer, hello}
MCSources == {"", "form"}

Content1 == [who |-> ann, message |-> offer, source |-> "", form |-> "acceptable"]
Content2 == [Content1 EXCEPT !.source = "form"]
Content3 == [Content1 EXCEPT !.who = bob]
Content4 == [Content3 EXCEPT !.message = hello]
Spam == [Content1 EXCEPT !.form = "unacceptable"]
Short == [Content1 EXCEPT !.form = "short"]

\* Single leads, a paraphrase, and files that meet each other in every order.
Mixed == {<<Content1>>, <<Content2>>, <<Content3>>, <<Spam>>,
          <<Content1, Content1>>, <<Content1, Content4>>, <<Content4, Content1>>,
          <<Content4, Spam>>, <<Spam, Content3>>, <<Spam, Spam, Content1>>,
          <<Content3, Short>>}

Budget(kinds) == [k \in FaultKinds |-> IF k \in kinds THEN 1 ELSE 0]
AllFaults == Budget(FaultKinds)
NoFaults == Budget({})
=============================================================================
