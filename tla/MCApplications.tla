--------------------------- MODULE MCApplications ---------------------------
(* Instances of the application service and of the S3 uploads. *)
EXTENDS AppService, S3Multipart

MCAppPlans == {[capacity |-> 1, modes |-> {"direct", "cflow"}], [capacity |-> 2, modes |-> {"inline", "plugin"}]}

Entry(space, content, kind) ==
  [space |-> space, present |-> TRUE, required |-> TRUE, text |-> content, kind |-> kind, reads |-> TRUE]
MCInputs ==
  {<<Entry("path", "plain", "uint")>>,
   <<Entry("query", "truncated", "string"), Entry("header", "long", "sint")>>,
   <<Entry("body", "long", "struct")>>}

Option(mode, resume, preserve, part, key) ==
  [mode |-> mode, resume |-> resume, preserve |-> preserve, part |-> part, key |-> key]
MCOptions ==
  {Option("multipart", FALSE, TRUE, 2, "a"), Option("multipart", TRUE, TRUE, 2, "a"),
   Option("multipart", FALSE, FALSE, 2, "b"), Option("multipart", TRUE, FALSE, 3, "a"),
   Option("multipart", FALSE, FALSE, 1, "b"),
   Option("manual", FALSE, FALSE, 2, "a"), Option("put", FALSE, FALSE, 2, "a")}
MCSizes == <<3, 4>>
=============================================================================
