---------------------------- MODULE ContentPolicy -----------------------------
(***************************************************************************)
(* The V1 admission policy (ivory-tower-content-policy): two gates, for    *)
(* ingestion and for transfer to a third party, decided from the class of  *)
(* a content, its route, the topology and a stated rights basis.           *)
(*                                                                         *)
(* Booleans that may be absent count only where they are true: the terms   *)
(* of a basis are those that are stated, an item's licence is confirmed or *)
(* it is not.                                                              *)
(***************************************************************************)

SafeSubset == {"openLicensed", "pmcOpenAccess", "arxivPreprint", "doajJournal",
               "preprintServer", "publicDomainArchive", "researcherAuthored"}

AlwaysRefused == {"unknownProvenance", "shadowLibrary"}

Licensed == {"publisherLicensed", "institutionallyLicensedBook"}

RequiresItemLicenceCheck == {"arxivPreprint"}

ContentClass == SafeSubset \cup Licensed \cup AlwaysRefused

DeploymentTopology == {"vendorHosted", "selfHostedAtResearchOrganization"}

AcquisitionRoute == {"publisherApi", "upload", "openRepository"}

RightsBasisKind == {"openLicence", "publicDomain", "researcherAuthored",
                    "publisherTdmAgreement", "researchOrganizationException", "none"}

RightsBasis == [kind : RightsBasisKind,
                terms : SUBSET {"apiMediated", "permitsThirdPartyDisclosure"}]

NoBasis == [kind |-> "none", terms |-> {}]

AdmissionRequest == [contentClass : ContentClass,
                     topology : DeploymentTopology,
                     route : AcquisitionRoute,
                     basis : RightsBasis,
                     itemLicence : {"confirmed", "unconfirmed"}]

\* One gate: whether it is permitted, and on which basis.
Gate == [permitted : BOOLEAN, basis : RightsBasisKind]

Refuse == [permitted |-> FALSE, basis |-> "none"]

Permit(kind) == [permitted |-> TRUE, basis |-> kind]

PermitIf(condition, kind) == IF condition THEN Permit(kind) ELSE Refuse

Decision(ingest, transfer) == [ingest |-> ingest, transfer |-> transfer]

ResearchExceptionAvailable(topology) == topology = "selfHostedAtResearchOrganization"

SafeSubsetBasis(class) == CASE class = "researcherAuthored"  -> "researcherAuthored"
                            [] class = "publicDomainArchive" -> "publicDomain"
                            [] OTHER                         -> "openLicence"

\* Licensed content is admitted on a stated basis only.
DecideLicensed(basis, topology, route) ==
    CASE basis.kind = "publisherTdmAgreement" ->
            LET granted == "apiMediated" \in basis.terms => route = "publisherApi"
                disclosed == granted /\ "permitsThirdPartyDisclosure" \in basis.terms
            IN  Decision(PermitIf(granted, basis.kind), PermitIf(disclosed, basis.kind))
      [] basis.kind = "researchOrganizationException" ->
            Decision(PermitIf(ResearchExceptionAvailable(topology), basis.kind), Refuse)
      [] OTHER -> Decision(Refuse, Refuse)

\* decideAdmission: the class decides, or for licensed content the basis.
DecideAdmission(r) ==
    CASE r.contentClass \in SafeSubset ->
            LET basis == SafeSubsetBasis(r.contentClass)
            IN  Decision(Permit(basis),
                         PermitIf(r.contentClass \in RequiresItemLicenceCheck
                                     => r.itemLicence = "confirmed", basis))
      [] r.contentClass \in Licensed -> DecideLicensed(r.basis, r.topology, r.route)
      [] OTHER -> Decision(Refuse, Refuse)
=============================================================================
