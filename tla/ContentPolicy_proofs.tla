------------------------- MODULE ContentPolicy_proofs -------------------------
(***************************************************************************)
(* What the admission policy promises of every request it may be given.    *)
(* The classes are finite but the requests are many: the theorems say what *)
(* no table of examples in admission.spec.ts does.                         *)
(***************************************************************************)
EXTENDS ContentPolicy, TLAPS

\* A class is in the safe subset or licensed, not both.
LEMMA Disjoint == SafeSubset \cap Licensed = {}
  BY DEF SafeSubset, Licensed

\* A decision rests on one basis: it permits both gates, or ingestion alone, or none.
Both(kind) == Decision(Permit(kind), Permit(kind))
IngestOnly(kind) == Decision(Permit(kind), Refuse)
Neither == Decision(Refuse, Refuse)

LEMMA Decided ==
    ASSUME NEW r \in AdmissionRequest
    PROVE  \E kind \in RightsBasisKind \ {"none"} :
               DecideAdmission(r) \in {Both(kind), IngestOnly(kind), Neither}
  <1> USE DEF Both, IngestOnly, Neither, PermitIf
  <1>1. CASE r.contentClass \in SafeSubset
    <2> DEFINE kind == SafeSubsetBasis(r.contentClass)
               free == r.contentClass \in RequiresItemLicenceCheck
                          => r.itemLicence = "confirmed"
    <2>1. kind \in RightsBasisKind \ {"none"}
      BY DEF SafeSubsetBasis, RightsBasisKind
    <2>2. CASE free
      <3>1. DecideAdmission(r) = Both(kind)
        BY <1>1, <2>2, Disjoint DEF DecideAdmission
      <3> QED
        BY <2>1, <3>1
    <2>3. CASE ~free
      <3>1. DecideAdmission(r) = IngestOnly(kind)
        BY <1>1, <2>3, Disjoint DEF DecideAdmission
      <3> QED
        BY <2>1, <3>1
    <2> QED
      BY <2>2, <2>3
  <1>2. CASE r.contentClass \in Licensed
    <2> DEFINE kind == r.basis.kind
               granted == "apiMediated" \in r.basis.terms => r.route = "publisherApi"
               disclosed == granted /\ "permitsThirdPartyDisclosure" \in r.basis.terms
               research == ResearchExceptionAvailable(r.topology)
    <2>1. r.contentClass \notin SafeSubset
      BY <1>2, Disjoint
    <2>2. DecideAdmission(r) = DecideLicensed(r.basis, r.topology, r.route)
      BY <1>2, <2>1 DEF DecideAdmission
    <2>3. CASE kind = "publisherTdmAgreement"
      <3>1. DecideAdmission(r) = Decision(PermitIf(granted, kind), PermitIf(disclosed, kind))
        BY <2>2, <2>3 DEF DecideLicensed
      <3>2. disclosed => granted
        OBVIOUS
      <3>3. kind \in RightsBasisKind \ {"none"}
        BY <2>3 DEF RightsBasisKind
      <3> HIDE DEF kind, granted, disclosed
      <3> QED
        BY <3>1, <3>2, <3>3
    <2>4. CASE kind = "researchOrganizationException"
      <3>1. DecideAdmission(r) = Decision(PermitIf(research, kind), Refuse)
        BY <2>2, <2>4 DEF DecideLicensed
      <3>2. kind \in RightsBasisKind \ {"none"}
        BY <2>4 DEF RightsBasisKind
      <3> HIDE DEF kind, research
      <3> QED
        BY <3>1, <3>2
    <2>5. CASE kind \notin {"publisherTdmAgreement", "researchOrganizationException"}
      <3>1. DecideAdmission(r) = Neither
        BY <2>2, <2>5 DEF DecideLicensed
      <3> QED
        BY <3>1 DEF RightsBasisKind
    <2> QED
      BY <2>3, <2>4, <2>5
  <1>3. CASE r.contentClass \notin SafeSubset \cup Licensed
    <2>1. DecideAdmission(r) = Neither
      BY <1>3 DEF DecideAdmission
    <2> QED
      BY <2>1 DEF RightsBasisKind
  <1> QED
    BY <1>1, <1>2, <1>3

\* Both gates are gates.
LEMMA GatesTyped ==
    ASSUME NEW r \in AdmissionRequest
    PROVE  DecideAdmission(r).ingest \in Gate /\ DecideAdmission(r).transfer \in Gate
  <1>1. PICK kind \in RightsBasisKind \ {"none"} :
           DecideAdmission(r) \in {Both(kind), IngestOnly(kind), Neither}
    BY Decided
  <1>2. Permit(kind) \in Gate /\ Refuse \in Gate
    BY DEF Permit, Refuse, Gate, RightsBasisKind
  <1> QED
    BY <1>1, <1>2 DEF Both, IngestOnly, Neither, Decision

\* decideAdmission: "Transfer is never permitted where ingest is refused", and both
\* rest on one basis.
THEOREM TransferNeedsIngest ==
    \A r \in AdmissionRequest :
        LET d == DecideAdmission(r)
        IN  d.transfer.permitted =>
               d.ingest.permitted /\ d.transfer.basis = d.ingest.basis
  BY Decided DEF Both, IngestOnly, Neither, Decision, Permit, Refuse

\* GateDecision.basis: "none whenever the outcome is refused", and never otherwise.
THEOREM NoBasisIfRefused ==
    \A r \in AdmissionRequest :
        LET d == DecideAdmission(r)
        IN  /\ d.ingest.basis = "none" <=> ~d.ingest.permitted
            /\ d.transfer.basis = "none" <=> ~d.transfer.permitted
  BY Decided DEF Both, IngestOnly, Neither, Decision, Permit, Refuse

\* Unknown provenance and shadow libraries are refused on any basis, route and topology.
THEOREM RefusedWhatever ==
    \A r \in AdmissionRequest :
        r.contentClass \in AlwaysRefused =>
            ~DecideAdmission(r).ingest.permitted /\ ~DecideAdmission(r).transfer.permitted
  BY DEF AlwaysRefused, SafeSubset, Licensed, DecideAdmission, Decision, Refuse

\* Where the software runs decides nothing but whether a research organization may
\* ingest on its exception; no topology ever permits a transfer by itself.
THEOREM TopologyDecidesTheExceptionAlone ==
    ASSUME NEW r \in AdmissionRequest, NEW t \in DeploymentTopology
    PROVE  LET d == DecideAdmission(r)
               moved == DecideAdmission([r EXCEPT !.topology = t])
           IN  /\ moved.transfer = d.transfer
               /\ moved.ingest # d.ingest =>
                     r.contentClass \in Licensed /\ r.basis.kind = "researchOrganizationException"
  <1> DEFINE s == [r EXCEPT !.topology = t]
  <1>1. /\ s.contentClass = r.contentClass /\ s.basis = r.basis /\ s.route = r.route
        /\ s.itemLicence = r.itemLicence
    BY DEF AdmissionRequest
  <1>2. CASE r.contentClass \in SafeSubset
    <2>1. DecideAdmission(s) = DecideAdmission(r)
      BY <1>1, <1>2, Disjoint DEF DecideAdmission
    <2> QED
      BY <2>1
  <1>3. CASE r.contentClass \in Licensed
    <2>1. r.contentClass \notin SafeSubset
      BY <1>3, Disjoint
    <2>2. /\ DecideAdmission(r) = DecideLicensed(r.basis, r.topology, r.route)
          /\ DecideAdmission(s) = DecideLicensed(r.basis, s.topology, r.route)
      BY <1>1, <1>3, <2>1 DEF DecideAdmission
    <2> HIDE DEF s
    <2>3. /\ DecideAdmission(s).transfer = DecideAdmission(r).transfer
          /\ r.basis.kind # "researchOrganizationException" =>
                DecideAdmission(s).ingest = DecideAdmission(r).ingest
      BY <2>2 DEF DecideLicensed, Decision
    <2> QED
      BY <1>3, <2>3 DEF s
  <1>4. CASE r.contentClass \notin SafeSubset \cup Licensed
    BY <1>1, <1>4 DEF DecideAdmission
  <1> QED
    BY <1>2, <1>3, <1>4

\* POST /v1/sources passes no rights basis, so nothing licensed is ever admitted
\* through it: an assertion of authorization is not a basis.
THEOREM UploadsAreOfTheSafeSubset ==
    \A r \in AdmissionRequest :
        r.basis = NoBasis /\ DecideAdmission(r).ingest.permitted => r.contentClass \in SafeSubset
  BY DEF DecideAdmission, DecideLicensed, Decision, Refuse, NoBasis
=============================================================================
