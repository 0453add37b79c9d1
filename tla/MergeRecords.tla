---------------------------- MODULE MergeRecords ----------------------------
(***************************************************************************)
(* What a merge leaves behind: its records, and on GitHub the base branch  *)
(* and the pull request.  GithubMerge says how they come about.            *)
(***************************************************************************)

CONSTANT None

VARIABLES
    rec,      \* the records of the request, reservation and MERGED event included
    main,     \* what the base branch got since the expected head
    pr        \* the pull request

\* A sealed receipt, and with it the event MERGED, speaks of the squash of the
\* candidate on exactly the expected head, although base, pull request and
\* clone move between any two looks of the run.
ReceiptIsExact ==
    rec.receipt # None \/ rec.accepted =>
        pr.merge # None /\ pr.merge.squash /\ pr.merge.candidate /\ main[1] = "merge"

\* Each record follows the one before it, also after a death between two of a
\* transaction, and after the files beside the event log were lost.
RecordsInOrder ==
    /\ rec.completion => rec.accepted
    /\ rec.accepted => rec.receipt # None
    /\ rec.receipt # None => rec.invocation # None
    /\ rec.invocation # None => rec.intent /\ rec.reservation
=============================================================================
