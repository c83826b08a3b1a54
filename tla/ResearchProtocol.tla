---------------------------- MODULE ResearchProtocol ----------------------------
(***************************************************************************)
(* ResearchProtocolService over InMemoryResearchProtocolStore.  A call     *)
(* reads a version, perhaps a listing, and then saves, with an await at    *)
(* each of these calls of the store: calls of several clients interleave   *)
(* there.  The store itself runs one call at a time.                       *)
(*                                                                         *)
(* Ids are UUIDs: a version id is fresh when it is drawn; a protocol and a *)
(* branch are named by the version that began them.  The wording of the    *)
(* rationales, the timestamps and the record of semantic changes are left  *)
(* out.                                                                    *)
(***************************************************************************)
EXTENDS Integers, FiniteSets, FiniteSetsExt

CONSTANTS Client,
          VersionId,
          Content,   \* the semantic fields of a version: purpose, aim, scope, ...
          Artifact,
          None,
          MaxCalls   \* bound on the calls of all clients

Stage == {"exploratory", "specified", "export_snapshot"}

Rank(stage) == CASE stage = "exploratory"     -> 0
                 [] stage = "specified"       -> 1
                 [] stage = "export_snapshot" -> 2

Ref == [version : VersionId, stage : Stage, branch : VersionId]

Version == [protocol    : VersionId,
            number      : Nat,
            stage       : Stage,
            branch      : VersionId,
            content     : Content,
            predecessor : Ref \cup {None},
            affected    : SUBSET Artifact]

ASSUME ProtocolAssumption == /\ IsFiniteSet(VersionId)
                             /\ None \notin Version
                             /\ None \notin Ref
                             /\ None \notin Artifact
                             /\ MaxCalls \in Nat

VARIABLES versions,   \* the store's map of versions
          artifacts,  \* the store's map of artifacts, by version
          runs,       \* the synthesis runs saved, with what their request repeated
          exports,    \* how many exports are saved of each version
          call,       \* the call that each client awaits
          known,      \* what there was when each client began its call
          calls       \* how many calls were begun

vars == <<versions, artifacts, runs, exports, call, known, calls>>

Operation == {"revise", "branch", "promote", "snapshot", "export", "attach", "admit"}

(***************************************************************************)
(* A call: idle, or resumed after an await, and then it calls the store's  *)
(* method that pc names.                                                   *)
(***************************************************************************)
Await == {"listVersions", "listArtifacts", "saveVersion", "saveExport",
          "attachArtifact", "saveRun"}

Idle == [pc |-> "idle"]

Call == [pc       : Await,
         op       : Operation,
         target   : VersionId,
         current  : Version,            \* what getVersion answered
         listed   : Nat,                \* the greatest number of the listing
         affected : SUBSET Artifact,    \* what listArtifacts answered
         content  : Content,            \* the patch, or what the admission repeats
         artifact : Artifact \cup {None}]

TypeOK == /\ versions \in [VersionId -> Version \cup {None}]
          /\ artifacts \in [VersionId -> SUBSET Artifact]
          /\ runs \subseteq [version : VersionId, content : Content]
          /\ exports \in [VersionId -> Nat]
          /\ call \in [Client -> Call \cup {Idle}]
          /\ known \in [Client -> [versions  : SUBSET VersionId,
                                   artifacts : SUBSET Artifact]]
          /\ calls \in 0 .. MaxCalls

NothingKnown == [versions |-> {}, artifacts |-> {}]

Init == /\ versions = [v \in VersionId |-> None]
        /\ artifacts = [v \in VersionId |-> {}]
        /\ runs = {}
        /\ exports = [v \in VersionId |-> 0]
        /\ call = [c \in Client |-> Idle]
        /\ known = [c \in Client |-> NothingKnown]
        /\ calls = 0

-----------------------------------------------------------------------------
\* The store

Exists(v) == versions[v] # None

IsSnapshot(v) == Exists(v) /\ versions[v].stage = "export_snapshot"

InProtocol(p) == {v \in VersionId : Exists(v) /\ versions[v].protocol = p}

\* Regression: saveVersion does not look at what it writes over.
SaveOver(v, version) == versions' = [versions EXCEPT ![v] = version]

\* saveVersion writes unless a snapshot is there.
SaveVersion(v, version) == /\ ~IsSnapshot(v)
                           /\ versions' = [versions EXCEPT ![v] = version]

-----------------------------------------------------------------------------
\* The service

Begins == calls < MaxCalls /\ calls' = calls + 1

Busy(c, pc) == call[c].pc = pc

\* The call has returned or thrown.
Ends(c) == /\ call' = [call EXCEPT ![c] = Idle]
           /\ known' = [known EXCEPT ![c] = NothingKnown]

ToRef(v, version) == [version |-> v, stage |-> version.stage, branch |-> version.branch]

\* create draws the ids and saves at once.
Create(c, v, content) ==
    /\ call[c] = Idle
    /\ Begins
    /\ ~Exists(v)
    /\ SaveVersion(v, [protocol |-> v, number |-> 1, stage |-> "exploratory", branch |-> v,
                       content |-> content, predecessor |-> None, affected |-> {}])
    /\ UNCHANGED <<artifacts, runs, exports, call, known>>

\* The conditions on the version that was read; where one fails the call throws.
Admissible(op, current, content) ==
    CASE op = "promote"                -> current.stage = "exploratory"
      [] op \in {"snapshot", "export"} -> current.stage = "specified"
      [] op = "admit"                  -> current.content = content
      [] OTHER                         -> TRUE

\* A revision brings a content and an admission repeats one; an attachment brings
\* an artifact.
Arguments(op, current, content, artifact) ==
    /\ op \in {"revise", "admit"} \/ content = current.content
    /\ op = "attach" <=> artifact # None

FirstAwait(op) == CASE op = "revise" -> "listVersions"
                    [] op = "branch" -> "listArtifacts"
                    [] op \in {"promote", "snapshot", "export"} -> "saveVersion"
                    [] op = "attach" -> "attachArtifact"
                    [] op = "admit"  -> "saveRun"

\* requireVersion, and what the operation requires of the version.
Require(c, op, v, content, artifact) ==
    /\ call[c] = Idle
    /\ Begins
    /\ Exists(v)
    /\ Arguments(op, versions[v], content, artifact)
    /\ Admissible(op, versions[v], content)
    /\ call' = [call EXCEPT ![c] =
                  [pc |-> FirstAwait(op), op |-> op, target |-> v, current |-> versions[v],
                   listed |-> 0, affected |-> {}, content |-> content,
                   artifact |-> artifact]]
    /\ known' = [known EXCEPT ![c] = [versions  |-> InProtocol(versions[v].protocol),
                                      artifacts |-> artifacts[v]]]
    /\ UNCHANGED <<versions, artifacts, runs, exports>>

ListVersions(c) ==
    /\ Busy(c, "listVersions")
    /\ call' = [call EXCEPT ![c] =
                  [@ EXCEPT !.pc = "listArtifacts",
                            !.listed = Max({versions[v].number :
                                              v \in InProtocol(call[c].current.protocol)})]]
    /\ UNCHANGED <<versions, artifacts, runs, exports, known, calls>>

ListArtifacts(c) ==
    /\ Busy(c, "listArtifacts")
    /\ call' = [call EXCEPT ![c] = [@ EXCEPT !.pc = "saveVersion",
                                             !.affected = artifacts[call[c].target]]]
    /\ UNCHANGED <<versions, artifacts, runs, exports, known, calls>>

\* Regression: the predecessor is noted by its id alone.
SuccessorOfId(c, v) ==
    [call[c].current EXCEPT !.stage = "exploratory",
                            !.predecessor = call[c].target,
                            !.affected = call[c].affected]

\* Regression: a successor takes over the affected artifacts of its predecessor.
SuccessorOfAll(c, v) ==
    [call[c].current EXCEPT !.stage = "exploratory",
                            !.predecessor = ToRef(call[c].target, call[c].current)]

\* What revise and branch change of the version they read, for the new id v.
Successor(c, v) ==
    [call[c].current EXCEPT !.stage = "exploratory",
                            !.predecessor = ToRef(call[c].target, call[c].current),
                            !.affected = call[c].affected]

\* Regression: a revision is numbered from the version it revises.
NextOfCurrent(c) == call[c].current.number + 1

NextNumber(c) == Max({call[c].listed, call[c].current.number}) + 1

\* Regression: a branch keeps the number of its predecessor.
BranchedUnnumbered(c, v) == [Successor(c, v) EXCEPT !.branch = v]

Revised(c, v) == [Successor(c, v) EXCEPT !.number = NextNumber(c),
                                         !.content = call[c].content]

Branched(c, v) == [Successor(c, v) EXCEPT !.number = call[c].current.number + 1,
                                          !.branch = v]

Succeeding(c, v) == IF call[c].op = "revise" THEN Revised(c, v) ELSE Branched(c, v)

\* Regression: revise writes back under the id that it read.
SaveInPlace(c, v) ==
    /\ Busy(c, "saveVersion")
    /\ call[c].op \in {"revise", "branch"}
    /\ SaveVersion(call[c].target, Succeeding(c, v))
    /\ Ends(c)
    /\ UNCHANGED <<artifacts, runs, exports, calls>>

\* revise and branch save the successor under the id v that they draw.
SaveSuccessor(c, v) ==
    /\ Busy(c, "saveVersion")
    /\ call[c].op \in {"revise", "branch"}
    /\ ~Exists(v)
    /\ SaveVersion(v, Succeeding(c, v))
    /\ Ends(c)
    /\ UNCHANGED <<artifacts, runs, exports, calls>>

Advances(c) == Busy(c, "saveVersion") /\ call[c].op \in {"promote", "snapshot", "export"}

NextStage(op) == IF op = "promote" THEN "specified" ELSE "export_snapshot"

Advanced(c) == [call[c].current EXCEPT !.stage = NextStage(call[c].op)]

\* promote and snapshot write the version they read back, whole; exportSnapshot goes on.
SaveStage(c) ==
    /\ Advances(c)
    /\ SaveVersion(call[c].target, Advanced(c))
    /\ IF call[c].op = "export"
       THEN call' = [call EXCEPT ![c].pc = "saveExport"] /\ UNCHANGED known
       ELSE Ends(c)
    /\ UNCHANGED <<artifacts, runs, exports, calls>>

\* saveVersion throws: a snapshot is immutable.
Refused(c) == /\ Advances(c)
              /\ IsSnapshot(call[c].target)
              /\ Ends(c)
              /\ UNCHANGED <<versions, artifacts, runs, exports, calls>>

\* saveExport throws unless the version is a snapshot.
SaveExport(c) ==
    /\ Busy(c, "saveExport")
    /\ \/ /\ IsSnapshot(call[c].target)
          /\ exports' = [exports EXCEPT ![call[c].target] = @ + 1]
       \/ /\ ~IsSnapshot(call[c].target)
          /\ UNCHANGED exports
    /\ Ends(c)
    /\ UNCHANGED <<versions, artifacts, runs, calls>>

\* Attaching what is attached changes nothing.
AttachArtifact(c) ==
    /\ Busy(c, "attachArtifact")
    /\ artifacts' = [artifacts EXCEPT ![call[c].target] = @ \cup {call[c].artifact}]
    /\ Ends(c)
    /\ UNCHANGED <<versions, runs, exports, calls>>

SaveRun(c) ==
    /\ Busy(c, "saveRun")
    /\ runs' = runs \cup {[version |-> call[c].target, content |-> call[c].content]}
    /\ Ends(c)
    /\ UNCHANGED <<versions, artifacts, exports, calls>>

-----------------------------------------------------------------------------

Next == \E c \in Client :
            \/ \E v \in VersionId, content \in Content : Create(c, v, content)
            \/ \E op \in Operation, v \in VersionId, content \in Content,
                  artifact \in Artifact \cup {None} : Require(c, op, v, content, artifact)
            \/ ListVersions(c)
            \/ ListArtifacts(c)
            \/ \E v \in VersionId : SaveSuccessor(c, v)
            \/ SaveStage(c)
            \/ Refused(c)
            \/ SaveExport(c)
            \/ AttachArtifact(c)
            \/ SaveRun(c)

Spec == Init /\ [][Next]_vars

-----------------------------------------------------------------------------

\* A saved version is never changed but for its stage, and that goes on by one step
\* at a time: whatever promote or snapshot read before others did, it takes nothing
\* back, and an export snapshot stays as it is.
VersionsOnlyAdvance ==
    [][\A v \in VersionId : Exists(v) =>
          /\ versions'[v] # None
          /\ versions'[v] = [versions[v] EXCEPT !.stage = versions'[v].stage]
          /\ Rank(versions'[v].stage) - Rank(versions[v].stage) \in {0, 1}]_vars

Exporting(v) == {c \in Client : Busy(c, "saveExport") /\ call[c].target = v}

\* Of the exports of a version that race one alone gets through, and when the
\* snapshot is saved nothing can keep its export from being saved.
OneExport ==
    \A v \in VersionId :
        /\ exports[v] \in {0, 1}
        /\ \A c \in Exporting(v) : Exporting(v) = {c} /\ exports[v] = 0
        /\ exports[v] = 1 \/ Exporting(v) # {} => IsSnapshot(v)

\* A run was admitted for the purpose and scope that its protocol version states,
\* and for good: revisions leave them alone.
RunsFit == \A run \in runs : /\ Exists(run.version)
                             /\ versions[run.version].content = run.content

\* retrieveLineage ends, at the version that began the protocol, and meets no unknown
\* version: each predecessor is there, in the same protocol, with a smaller number,
\* and on the branch and at least at the stage that its successor noted.
LineageIsSound ==
    \A v \in VersionId : Exists(v) =>
        LET ref == versions[v].predecessor
            before == versions[ref.version]
        IN  IF ref = None
            THEN versions[v].protocol = v
            ELSE /\ Exists(ref.version)
                 /\ before.protocol = versions[v].protocol
                 /\ before.number < versions[v].number
                 /\ before.branch = ref.branch
                 /\ Rank(ref.stage) <= Rank(before.stage)

Saves(c, v) == Busy(c, "saveVersion") /\ ~Exists(v) /\ versions'[v] # None

\* A successor accounts for what was there when it was asked for: all artifacts
\* attached to the version it supersedes are in affectedArtifactIds, and a revision is
\* numbered after every version of the protocol, whichever it revises.
SuccessorsFollow ==
    [][\A c \in Client, v \in VersionId : call'[c] # call[c] /\ Saves(c, v) =>
          /\ known[c].artifacts \subseteq versions'[v].affected
          /\ call[c].op = "revise" => \A w \in known[c].versions :
                                         versions[w].number < versions'[v].number]_vars
=============================================================================
