----------------------------- MODULE MCReports ------------------------------
(***************************************************************************)
(* What others take Manageroo's word for, in one run: the receipt a host's *)
(* hook waits for, the reports of read-only runs, the readiness handoff    *)
(* and the published release.  They share no variable: `part` is the one   *)
(* that moves, and View leaves the parts at rest out of a state's          *)
(* identity.                                                               *)
(***************************************************************************)
EXTENDS Continuity, ReadOnly, ReleaseReady, Publication, TLC

VARIABLE part

Symmetry == Permutations(Repos) \cup Permutations(Audits)

ReportsInit ==
    /\ ContinuityInit /\ ReadOnlyInit /\ ReleaseInit /\ PublicationInit
    /\ part \in {"continuity", "readonly", "release", "publication"}

ReportsStep ==
    \/ /\ part = "continuity" /\ ContinuityNext
       /\ UNCHANGED <<readOnlyVars, releaseVars, publicationVars>>
    \/ /\ part = "readonly" /\ ReadOnlyNext
       /\ UNCHANGED <<continuityVars, releaseVars, publicationVars>>
    \/ /\ part = "release" /\ ReleaseNext
       /\ UNCHANGED <<continuityVars, readOnlyVars, publicationVars>>
    \/ /\ part = "publication" /\ PublicationNext
       /\ UNCHANGED <<continuityVars, readOnlyVars, releaseVars>>

ReportsSpec ==
    ReportsInit
    /\ [][ReportsStep /\ UNCHANGED part]_<<part, continuityVars, readOnlyVars, releaseVars,
                                           publicationVars>>

View == <<part, CASE part = "continuity"  -> continuityVars
                  [] part = "readonly"    -> readOnlyVars
                  [] part = "release"     -> releaseVars
                  [] part = "publication" -> publicationVars>>

\* The records of every part have the shape their readers rely on.
ReportsTypesOK == ContinuityTypeOK /\ ReadOnlyTypeOK /\ ReleaseTypeOK /\ PublicationTypeOK
=============================================================================
