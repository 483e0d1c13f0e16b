---------------------------- MODULE MCFacePipeline ----------------------------
(* Small instances of FacePipeline for TLC.                                  *)
EXTENDS FacePipeline, TLC

CONSTANTS u1, u2, u3, x1, a, b, red, blue, k

\* An upload, its retry, a request that uploads a second image or deletes, and
\* one that deletes or renames.
MixedRequests == {u1, u2, u3, x1}
MixedSha == [r \in Requests |-> IF r = u3 THEN blue ELSE red]
MixedExt == [r \in Requests |-> IF r = u3 THEN b ELSE a]
MixedKey == [r \in Requests |-> IF r \in {u1, u2} THEN k ELSE Unnamed]
MixedOps ==
  [r \in Requests |-> CASE r = x1 -> Ops \ {"upload"}
                        [] r = u3 -> {"upload", "deleteFace", "deletePerson"}
                        [] OTHER  -> {"upload"}]
===============================================================================
