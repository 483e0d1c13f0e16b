---------------------------- MODULE MCQuotaLedger ----------------------------
(* Small instances of QuotaLedger for TLC.                                  *)
EXTENDS QuotaLedger, TLC

CONSTANTS r1, r2, r3, r4, r5

\* Faces of one person, whose deletion may free several, or of a person each.
OnePerson == [r \in Requests |-> r1]
OwnPersons == [r \in Requests |-> r]

\* Three uploads of which two fit together, a deletion and two requests that may
\* search, over a month's end.
MixedRequests == {r1, r2, r3, r4}
MixedSize == (r1 :> 2) @@ (r2 :> 1) @@ (r3 :> 1) @@ (r4 :> 1)
MixedOps == (r1 :> {"upload"}) @@ (r2 :> {"upload"}) @@
            (r3 :> {"delete", "search"}) @@ (r4 :> {"search", "report", "upload"})
MixedLimit == [upload |-> 2, search |-> 1, storage |-> 3]

\* Three searches against a limit of one.
SearchRequests == {r1, r2, r3}
UnitSize == [r \in Requests |-> 1]
SearchOps == [r \in Requests |-> {"search"}]

\* A limit no request reaches.
NoLimit == [k \in Kinds |-> UNLIMITED]

\* Three uploads and two deletions against a storage limit of two units.
DeleteRequests == {r1, r2, r3, r4, r5}
DeleteSize == (r1 :> 1) @@ (r2 :> 1) @@ (r3 :> 2) @@ (r4 :> 1) @@ (r5 :> 1)
DeleteOps == [r \in Requests |-> IF r \in {r4, r5} THEN {"delete"} ELSE {"upload"}]
StorageLimit == [NoLimit EXCEPT !["storage"] = 2]
==============================================================================
