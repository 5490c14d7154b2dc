------------------------------ MODULE MCRelease ------------------------------
(* What decides about a release: "runs" is the evidence of the workflows'    *)
(* runs, "zip" the archives in which it comes.                               *)
EXTENDS ReleaseEvidence, Sequences

VARIABLES mode, archive, read

zipVars == <<archive, read>>

Zip == INSTANCE EvidenceZip
         WITH Paths <- {<<"a">>, <<"a", "b">>, <<"A">>, <<"..", "b">>, <<"con">>},
              Reserved <- {"con"}, MaxEntries <- 2, MaxEntryBytes <- 1, MaxTotalBytes <- 1,
              MaxRatio <- 1, Central <- 3

ASSUME ReleaseConstants == ReleaseEvidenceAssumption /\ Zip!EvidenceZipAssumption

MCInit ==
    \/ mode = "runs" /\ Init /\ archive = <<>> /\ read = "new"
    \/ /\ mode = "zip" /\ Init
       /\ \A w \in Prerequisites : runs[w].ours /\ runs[w].status = "success"
       /\ Zip!Init

MCNext ==
    /\ UNCHANGED mode
    /\ \/ mode = "runs" /\ Next /\ UNCHANGED zipVars
       \/ mode = "zip" /\ Zip!Next /\ UNCHANGED vars

MCSpec == MCInit /\ [][MCNext]_<<mode, vars, zipVars>>

-----------------------------------------------------------------------------
(* Properties: those of the two modules *)

\* An archive that is accepted is what it says it is.
EvidenceExtracts == Zip!EvidenceExtracts
=============================================================================
