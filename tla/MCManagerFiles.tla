--------------------------- MODULE MCManagerFiles ---------------------------
(* Two jobs and three changes, over a fresh manager, files as the tools keep   *)
(* them, a rules file with two groups and one that ends on its last rule.      *)
EXTENDS ManagerFiles

Op(kind, id, item, over) == [kind |-> kind, id |-> id, item |-> item, over |-> over]
New1 == Entry(1, "new", "no")
New2 == Entry(2, "new", "entity")

SomeChanges ==
  {Op("create", 1, New1, TRUE), Op("create", 2, New2, FALSE), Op("update", 1, New1, FALSE),
   Op("update", 2, New1, FALSE), Op("delete", 1, New1, FALSE), Op("test", 1, New1, FALSE),
   Op("develop", 2, New2, FALSE), Op("decoder", 1, New1, FALSE), Op("decoder", 2, New2, TRUE),
   Op("modify", 1, New1, FALSE), Op("remove", 1, New1, FALSE), NoOperation}

Names == 0..3
NoFile == File("missing", FALSE, <<>>)
Two == <<Entry(1, "old", "no"), Entry(3, "old", "entity")>>
Starts ==
  {[rules |-> NoFile, decoders |-> NoFile],
   [rules |-> File("group", TRUE, Two), decoders |-> File("wrapped", TRUE, Two)],
   [rules |-> File("many", TRUE, Two), decoders |-> File("roots", TRUE, Two)],
   [rules |-> File("closed", FALSE, Two), decoders |-> NoFile]}
=============================================================================
