------------------------ MODULE ResearchProtocol_proofs -------------------------
(***************************************************************************)
(* What calls of the research protocol service that interleave anywhere    *)
(* cannot do to the versions, runs and exports, for any number of clients, *)
(* versions and calls.                                                     *)
(*                                                                         *)
(* The argument rests on what is still true, when a call saves, of the     *)
(* version that it read at its start: its stage alone may differ from the  *)
(* saved one, and the saved one is never behind (CallsInv).                *)
(***************************************************************************)
EXTENDS ResearchProtocol, FiniteSetTheorems, WellFoundedInduction, TLAPS

-----------------------------------------------------------------------------
\* The greatest number of a listing.

\* A set of natural numbers that is not empty has a least element.
LEMMA Least ==
    ASSUME NEW T \in SUBSET Nat, T # {}
    PROVE  \E x \in T : \A y \in T : x <= y
  <1>1. PICK x \in T : \A y \in T : ~(<<y, x>> \in OpToRel(<, Nat))
    BY NatLessThanWellFounded, WFMin
  <1>2. \A y \in T : ~(y < x)
    BY <1>1 DEF OpToRel
  <1> QED
    BY <1>2

\* The values of a finite sequence of numbers have a bound.
LEMMA Bounded ==
    ASSUME NEW n \in Nat, NEW f \in [1 .. n -> Nat]
    PROVE  \E b \in Nat : \A i \in 1 .. n : f[i] <= b
  <1> DEFINE Bound(k) == \E b \in Nat : \A i \in 1 .. k : f[i] <= b
             T == {k \in 0 .. n : ~Bound(k)}
  <1>1. SUFFICES ASSUME T # {} PROVE FALSE
    <2>1. n \in 0 .. n
      OBVIOUS
    <2>2. n \notin T => Bound(n)
      BY <2>1
    <2> QED
      BY <1>1, <2>2
  <1>2. PICK k \in T : \A j \in T : k <= j
    <2>1. T \in SUBSET Nat
      OBVIOUS
    <2> QED
      BY <1>1, <2>1, Least
  <1>3. k # 0
    <2>1. Bound(0)
      <3>1. 0 \in Nat /\ \A i \in 1 .. 0 : f[i] <= 0
        OBVIOUS
      <3> QED
        BY <3>1
    <2> QED
      BY <2>1
  <1>4. k - 1 \in 0 .. n /\ k \in 1 .. n
    BY <1>3
  <1>5. Bound(k - 1)
    <2>1. k - 1 \notin T
      <3>1. ~(k <= k - 1)
        BY <1>4
      <3> QED
        BY <3>1, <1>2
    <2>2. k - 1 \notin T => Bound(k - 1)
      <3> HIDE DEF Bound
      <3> QED
        BY <1>4
    <2> QED
      BY <2>1, <2>2
  <1>6. PICK b \in Nat : \A i \in 1 .. (k - 1) : f[i] <= b
    BY <1>5
  <1>7. f[k] \in Nat
    BY <1>4
  <1>8. \A i \in 1 .. k : f[i] <= b + f[k]
    <2> SUFFICES ASSUME NEW i \in 1 .. k PROVE f[i] <= b + f[k]
      OBVIOUS
    <2>1. i \in 1 .. n /\ f[i] \in Nat
      BY <1>4
    <2>2. CASE i = k
      BY <2>2, <1>7
    <2>3. CASE i # k
      <3>1. i \in 1 .. (k - 1)
        BY <2>3, <1>4
      <3>2. f[i] <= b
        BY <3>1, <1>6
      <3> QED
        BY <3>2, <1>7, <2>1
    <2> QED
      BY <2>2, <2>3
  <1>9. Bound(k)
    <2>1. b + f[k] \in Nat
      BY <1>7
    <2> QED
      BY <2>1, <1>8
  <1> QED
    BY <1>9

\* Max of a finite set of numbers is one of them and the greatest.
LEMMA MaxIsGreatest ==
    ASSUME NEW S \in SUBSET Nat, IsFiniteSet(S), S # {}
    PROVE  Max(S) \in S /\ \A m \in S : m <= Max(S)
  <1>1. PICK n \in Nat : ExistsSurjection(1 .. n, S)
    BY FS_NatSurjection
  <1>2. PICK f \in [1 .. n -> S] : \A m \in S : \E i \in 1 .. n : f[i] = m
    BY <1>1 DEF ExistsSurjection, Surjection, Range
  <1>3. PICK b \in Nat : \A i \in 1 .. n : f[i] <= b
    <2>1. f \in [1 .. n -> Nat]
      OBVIOUS
    <2> QED
      BY <2>1, Bounded
  <1> DEFINE U == {u \in Nat : \A m \in S : m <= u}
  <1>4. b \in U
    BY <1>2, <1>3
  <1>5. PICK u \in U : \A w \in U : u <= w
    <2>1. U \in SUBSET Nat /\ U # {}
      BY <1>4
    <2> QED
      BY <2>1, Least
  <1>6. u \in S
    <2>1. SUFFICES ASSUME u \notin S PROVE FALSE
      OBVIOUS
    <2>2. \A m \in S : m < u
      BY <2>1
    <2>3. PICK m \in S : m < u
      BY <2>2
    <2>4. u - 1 \in Nat /\ \A w \in S : w <= u - 1
      BY <2>2, <2>3
    <2> QED
      BY <2>4, <1>5
  <1>7. \A m \in S : u >= m
    BY <1>5
  <1> QED
    BY <1>6, <1>7 DEF Max

-----------------------------------------------------------------------------
(***************************************************************************)
(* The inductive invariant.                                                *)
(***************************************************************************)

\* What a call read of its target, and what is saved of it now.
ReadIsPast(k) ==
    /\ Exists(k.target)
    /\ k.current = [versions[k.target] EXCEPT !.stage = k.current.stage]
    /\ Rank(k.current.stage) <= Rank(versions[k.target].stage)

\* What the call has required of the version that it read.
Required(k) ==
    /\ k.pc = "saveVersion" /\ k.op = "promote" => k.current.stage = "exploratory"
    /\ k.pc = "saveVersion" /\ k.op \in {"snapshot", "export"} =>
          k.current.stage = "specified"
    /\ k.pc = "saveRun" => k.content = k.current.content
    /\ k.pc = "attachArtifact" => k.artifact \in Artifact

CallsInv == \A c \in Client : call[c] # Idle => ReadIsPast(call[c]) /\ Required(call[c])

\* What a call knew is accounted for in what it listed.
KnownInv ==
    \A c \in Client : call[c] # Idle =>
        /\ known[c].artifacts \subseteq artifacts[call[c].target]
        /\ call[c].pc = "saveVersion" /\ call[c].op \in {"revise", "branch"} =>
              known[c].artifacts \subseteq call[c].affected
        /\ \A w \in known[c].versions :
              /\ w \in InProtocol(call[c].current.protocol)
              /\ call[c].pc \in {"listArtifacts", "saveVersion"} /\ call[c].op = "revise" =>
                    versions[w].number <= call[c].listed

BaseInv == TypeOK /\ CallsInv

-----------------------------------------------------------------------------
\* The types of the parts, for the steps that need no more.

LEMMA TypeOfCall ==
    ASSUME TypeOK, NEW c \in Client, call[c] # Idle
    PROVE  /\ call[c] \in Call
           /\ call[c].pc \in Await /\ call[c].op \in Operation
           /\ call[c].target \in VersionId /\ call[c].current \in Version
           /\ call[c].listed \in Nat /\ call[c].affected \in SUBSET Artifact
           /\ call[c].content \in Content
  BY DEF TypeOK, Call

\* An idle client is at none of the store's methods.
LEMMA BusyIsNotIdle ==
    ASSUME NEW c \in Client, NEW pc \in Await, Busy(c, pc)
    PROVE  call[c] # Idle
  BY DEF Busy, Idle, Await

\* A version that is saved is a version.
LEMMA TypeOfVersion ==
    ASSUME TypeOK, NEW v \in VersionId, Exists(v)
    PROVE  /\ versions[v] \in Version
           /\ versions[v].number \in Nat /\ versions[v].stage \in Stage
           /\ versions[v].branch \in VersionId /\ versions[v].protocol \in VersionId
           /\ versions[v].content \in Content
  BY DEF TypeOK, Exists, Version

\* The number of a revision is greater than what it listed and than its predecessor's.
LEMMA NumberIsNext ==
    ASSUME TypeOK, NEW c \in Client, call[c] # Idle
    PROVE  /\ NextNumber(c) \in Nat
           /\ NextNumber(c) > call[c].listed
           /\ NextNumber(c) > call[c].current.number
  <1> DEFINE S == {call[c].listed, call[c].current.number}
  <1>1. S \in SUBSET Nat /\ S # {}
    BY TypeOfCall DEF Version
  <1>2. \E x \in S : \A y \in S : x >= y
    BY <1>1
  <1>3. Max(S) \in S /\ \A m \in S : m <= Max(S)
    BY <1>1, <1>2 DEF Max
  <1> QED
    BY <1>1, <1>3 DEF NextNumber

\* What the listing of a protocol yields.
LEMMA ListedIsGreatest ==
    ASSUME TypeOK, NEW p \in VersionId, NEW w \in InProtocol(p)
    PROVE  LET S == {versions[v].number : v \in InProtocol(p)}
           IN  Max(S) \in Nat /\ \A v \in InProtocol(p) : versions[v].number <= Max(S)
  <1> DEFINE S == {versions[v].number : v \in InProtocol(p)}
  <1>1. S \in SUBSET Nat
    BY TypeOfVersion DEF InProtocol
  <1>2. S # {}
    OBVIOUS
  <1>3. IsFiniteSet(S)
    <2>1. IsFiniteSet(InProtocol(p))
      BY FS_Subset, ProtocolAssumption DEF InProtocol
    <2>2. PICK n \in Nat : ExistsSurjection(1 .. n, InProtocol(p))
      BY <2>1, FS_NatSurjection
    <2>3. PICK f \in [1 .. n -> InProtocol(p)] :
              \A v \in InProtocol(p) : \E i \in 1 .. n : f[i] = v
      BY <2>2 DEF ExistsSurjection, Surjection, Range
    <2> DEFINE g == [i \in 1 .. n |-> versions[f[i]].number]
    <2>4. g \in [1 .. n -> S] /\ \A s \in S : \E i \in 1 .. n : g[i] = s
      BY <2>3
    <2>5. ExistsSurjection(1 .. n, S)
      BY <2>4 DEF ExistsSurjection, Surjection, Range
    <2> QED
      BY <2>5, FS_NatSurjection
  <1>4. Max(S) \in S /\ \A m \in S : m <= Max(S)
    BY <1>1, <1>2, <1>3, MaxIsGreatest
  <1> QED
    BY <1>1, <1>4

-----------------------------------------------------------------------------
(***************************************************************************)
(* What a step does to the versions.                                       *)
(***************************************************************************)

Onward(v) ==
    /\ versions'[v] # None
    /\ versions'[v] = [versions[v] EXCEPT !.stage = versions'[v].stage]
    /\ Rank(versions'[v].stage) - Rank(versions[v].stage) \in {0, 1}

\* What SaveStage writes is the saved version, one stage on or as it is.
LEMMA StageSaved ==
    ASSUME BaseInv, NEW c \in Client, SaveStage(c)
    PROVE  /\ call[c] # Idle /\ call[c].target \in VersionId
           /\ Exists(call[c].target) /\ ~IsSnapshot(call[c].target)
           /\ versions' = [versions EXCEPT ![call[c].target] = versions'[call[c].target]]
           /\ versions'[call[c].target] \in Version
           /\ Onward(call[c].target)
           /\ call[c].op = "export" => versions'[call[c].target].stage = "export_snapshot"
  <1> DEFINE v == call[c].target
             k == call[c]
  <1>1. k # Idle /\ v \in VersionId /\ k.op \in {"promote", "snapshot", "export"}
        /\ k.pc = "saveVersion"
    BY BusyIsNotIdle, TypeOfCall DEF SaveStage, Advances, BaseInv, Busy, Await
  <1>2. ReadIsPast(k) /\ Required(k)
    BY <1>1 DEF BaseInv, CallsInv
  <1>3. Exists(v) /\ versions[v] \in Version /\ versions[v].stage \in Stage
    BY <1>1, <1>2, TypeOfVersion DEF ReadIsPast, BaseInv
  <1>4. versions' = [versions EXCEPT ![v] = Advanced(c)] /\ ~IsSnapshot(v)
    BY DEF SaveStage, SaveVersion
  <1>5. versions \in [VersionId -> Version \cup {None}]
    BY DEF BaseInv, TypeOK
  <1>6. versions'[v] = Advanced(c)
    BY <1>1, <1>4, <1>5
  <1>7. Advanced(c) = [versions[v] EXCEPT !.stage = Advanced(c).stage]
    BY <1>2, <1>3 DEF Advanced, ReadIsPast, Version
  <1>8. /\ Advanced(c).stage = IF k.op = "promote" THEN "specified" ELSE "export_snapshot"
        /\ Advanced(c).stage \in Stage
    BY <1>2, <1>3 DEF Advanced, NextStage, ReadIsPast, Version, Stage
  <1>9. Advanced(c) \in Version /\ Advanced(c) # None
    BY <1>3, <1>7, <1>8, ProtocolAssumption DEF Version
  <1>10. Rank(Advanced(c).stage) - Rank(versions[v].stage) \in {0, 1}
    <2>1. CASE k.op = "promote"
      <3>1. versions[v].stage \in {"exploratory", "specified"}
        BY <1>3, <1>4 DEF IsSnapshot, Stage
      <3> QED
        BY <2>1, <3>1, <1>8 DEF Rank
    <2>2. CASE k.op # "promote"
      <3>1. k.current.stage = "specified"
        BY <2>2, <1>1, <1>2 DEF Required
      <3>2. versions[v].stage # "exploratory"
        BY <3>1, <1>2 DEF ReadIsPast, Rank
      <3> QED
        BY <2>2, <3>2, <1>3, <1>8 DEF Rank, Stage
    <2> QED
      BY <2>1, <2>2
  <1> QED
    BY <1>1, <1>3, <1>4, <1>6, <1>7, <1>8, <1>9, <1>10 DEF Onward

\* What SaveSuccessor writes is a new version, of the protocol of its predecessor.
LEMMA SuccessorSaved ==
    ASSUME BaseInv, NEW c \in Client, NEW v \in VersionId, SaveSuccessor(c, v)
    PROVE  /\ call[c] # Idle /\ call[c].op \in {"revise", "branch"}
           /\ call[c].pc = "saveVersion"
           /\ ~Exists(v)
           /\ versions' = [versions EXCEPT ![v] = versions'[v]]
           /\ versions'[v] \in Version
           /\ versions'[v].stage = "exploratory"
           /\ versions'[v].protocol = call[c].current.protocol
           /\ versions'[v].predecessor = ToRef(call[c].target, call[c].current)
           /\ versions'[v].affected = call[c].affected
           /\ versions'[v].number > call[c].current.number
           /\ call[c].op = "revise" => versions'[v].number > call[c].listed
  <1> DEFINE k == call[c]
             new == IF k.op = "revise" THEN Revised(c, v) ELSE Branched(c, v)
  <1>1. k # Idle /\ k.op \in {"revise", "branch"} /\ k.pc = "saveVersion" /\ ~Exists(v)
    BY BusyIsNotIdle DEF SaveSuccessor, Busy, Await
  <1>2. versions' = [versions EXCEPT ![v] = new]
    BY DEF SaveSuccessor, SaveVersion, Succeeding
  <1>3. versions \in [VersionId -> Version \cup {None}]
    BY DEF BaseInv, TypeOK
  <1>4. versions'[v] = new
    BY <1>2, <1>3
  <1>5. /\ k.current \in Version /\ k.target \in VersionId /\ k.listed \in Nat
        /\ k.affected \in SUBSET Artifact /\ k.content \in Content
        /\ k.current.number \in Nat
    BY <1>1, TypeOfCall DEF BaseInv, Version
  <1>6. ToRef(k.target, k.current) \in Ref
    BY <1>5 DEF ToRef, Ref, Version
  <1>7. /\ Successor(c, v) \in Version
        /\ Successor(c, v).stage = "exploratory"
        /\ Successor(c, v).protocol = k.current.protocol
        /\ Successor(c, v).predecessor = ToRef(k.target, k.current)
        /\ Successor(c, v).affected = k.affected
    BY <1>5, <1>6 DEF Successor, Version, Stage
  <1>8. /\ NextNumber(c) \in Nat
        /\ NextNumber(c) > k.listed /\ NextNumber(c) > k.current.number
    BY <1>1, NumberIsNext DEF BaseInv
  <1>9. CASE k.op = "revise"
    <2>1. new = Revised(c, v)
      BY <1>9
    <2>2. /\ Revised(c, v) \in Version
          /\ Revised(c, v).stage = Successor(c, v).stage
          /\ Revised(c, v).protocol = Successor(c, v).protocol
          /\ Revised(c, v).predecessor = Successor(c, v).predecessor
          /\ Revised(c, v).affected = Successor(c, v).affected
          /\ Revised(c, v).number = NextNumber(c)
      BY <1>7, <1>8, <1>5 DEF Revised, Version
    <2> QED
      BY <2>1, <2>2, <1>1, <1>2, <1>4, <1>7, <1>8
  <1>10. CASE k.op = "branch"
    <2>1. new = Branched(c, v)
      BY <1>10
    <2>2. k.current.number + 1 \in Nat /\ k.current.number + 1 > k.current.number
      BY <1>5
    <2> DEFINE n == k.current.number + 1
    <2>3. Branched(c, v) = [Successor(c, v) EXCEPT !.number = n, !.branch = v]
      BY DEF Branched
    <2> HIDE DEF n
    <2>4. /\ Branched(c, v) \in Version
          /\ Branched(c, v).stage = Successor(c, v).stage
          /\ Branched(c, v).protocol = Successor(c, v).protocol
          /\ Branched(c, v).predecessor = Successor(c, v).predecessor
          /\ Branched(c, v).affected = Successor(c, v).affected
          /\ Branched(c, v).number = n
      BY <1>7, <2>2, <2>3 DEF Version, n
    <2>5. Branched(c, v).number > k.current.number
      BY <2>2, <2>4 DEF n
    <2> HIDE DEF new
    <2>6. versions'[v] = Branched(c, v)
      BY <2>1, <1>4
    <2> QED
      BY <2>4, <2>5, <2>6, <1>1, <1>2, <1>4, <1>7, <1>10
  <1> QED
    BY <1>1, <1>9, <1>10

\* What Create writes is a new version, the first of its protocol.
LEMMA CreateSaved ==
    ASSUME BaseInv, NEW c \in Client, NEW v \in VersionId, NEW content \in Content,
           Create(c, v, content)
    PROVE  /\ ~Exists(v)
           /\ versions' = [versions EXCEPT ![v] = versions'[v]]
           /\ versions'[v] \in Version
           /\ versions'[v].predecessor = None
           /\ versions'[v].protocol = v
           /\ versions'[v].stage = "exploratory"
  <1> DEFINE new == [protocol |-> v, number |-> 1, stage |-> "exploratory", branch |-> v,
                     content |-> content, predecessor |-> None, affected |-> {}]
  <1>1. ~Exists(v) /\ versions' = [versions EXCEPT ![v] = new]
    BY DEF Create, SaveVersion
  <1>2. versions'[v] = new
    BY <1>1 DEF BaseInv, TypeOK
  <1>3. new \in Version
    BY DEF Version, Stage
  <1> HIDE DEF new
  <1>4. new.predecessor = None /\ new.protocol = v /\ new.stage = "exploratory"
    BY DEF new
  <1> QED
    BY <1>1, <1>2, <1>3, <1>4

\* The steps that leave the versions alone.
ReadingStep(c) == \/ \E op \in Operation, v \in VersionId, content \in Content,
                        artifact \in Artifact \cup {None} :
                          Require(c, op, v, content, artifact)
                  \/ ListVersions(c) \/ ListArtifacts(c) \/ Refused(c) \/ SaveExport(c)
                  \/ AttachArtifact(c) \/ SaveRun(c)

LEMMA ReadingKeeps ==
    ASSUME NEW c \in Client, ReadingStep(c)
    PROVE  versions' = versions
  BY DEF ReadingStep, Require, ListVersions, ListArtifacts, Refused, SaveExport,
         AttachArtifact, SaveRun

\* Every step leaves a version as it was, or its stage one further, and every version
\* a version.
LEMMA VersionsStep ==
    ASSUME BaseInv, [Next]_vars
    PROVE  /\ versions' \in [VersionId -> Version \cup {None}]
           /\ \A v \in VersionId : Exists(v) => Exists(v)' /\ Onward(v)
           /\ \A v \in VersionId : IsSnapshot(v) => IsSnapshot(v)'
  <1> DEFINE Goal == /\ versions' \in [VersionId -> Version \cup {None}]
                     /\ \A v \in VersionId : Exists(v) => Exists(v)' /\ Onward(v)
  <1>t. versions \in [VersionId -> Version \cup {None}]
    BY DEF BaseInv, TypeOK
  <1>s. ASSUME versions' = versions PROVE Goal
    <2> SUFFICES ASSUME NEW v \in VersionId, Exists(v) PROVE Exists(v)' /\ Onward(v)
      BY <1>s, <1>t
    <2>1. versions[v] \in Version /\ versions[v].stage \in Stage
      BY TypeOfVersion DEF BaseInv
    <2>2. versions[v] = [versions[v] EXCEPT !.stage = versions[v].stage]
      BY <2>1 DEF Version
    <2>3. Rank(versions[v].stage) - Rank(versions[v].stage) = 0
      BY <2>1 DEF Rank, Stage
    <2> QED
      BY <1>s, <2>2, <2>3 DEF Exists, Onward
  <1>n. ASSUME NEW w \in VersionId, NEW new \in Version,
               versions' = [versions EXCEPT ![w] = new], ~Exists(w) \/ Onward(w)
        PROVE  Goal
    <2>1. versions' \in [VersionId -> Version \cup {None}]
      BY <1>n, <1>t
    <2> SUFFICES ASSUME NEW v \in VersionId, Exists(v) PROVE Exists(v)' /\ Onward(v)
      BY <2>1
    <2>2. CASE v = w
      BY <2>2, <1>n, <1>t, ProtocolAssumption DEF Exists
    <2>3. CASE v # w
      <3>1. versions'[v] = versions[v]
        BY <2>3, <1>n, <1>t
      <3>2. versions[v] \in Version /\ versions[v].stage \in Stage
        BY TypeOfVersion DEF BaseInv
      <3>3. versions[v] = [versions[v] EXCEPT !.stage = versions[v].stage]
        BY <3>2 DEF Version
      <3>4. Rank(versions[v].stage) - Rank(versions[v].stage) = 0
        BY <3>2 DEF Rank, Stage
      <3> QED
        BY <3>1, <3>3, <3>4 DEF Exists, Onward
    <2> QED
      BY <2>2, <2>3
  <1>1. Goal
    <2>1. ASSUME NEW c \in Client, ReadingStep(c) PROVE Goal
      BY <2>1, ReadingKeeps, <1>s
    <2>2. ASSUME NEW c \in Client, NEW v \in VersionId, SaveSuccessor(c, v) PROVE Goal
      BY <2>2, SuccessorSaved, <1>n
    <2>3. ASSUME NEW c \in Client, NEW v \in VersionId, NEW content \in Content,
                 Create(c, v, content)
          PROVE  Goal
      BY <2>3, CreateSaved, <1>n
    <2>4. ASSUME NEW c \in Client, SaveStage(c) PROVE Goal
      BY <2>4, StageSaved, <1>n
    <2>5. CASE UNCHANGED vars
      BY <2>5, <1>s DEF vars
    <2> QED
      BY <2>1, <2>2, <2>3, <2>4, <2>5 DEF Next, ReadingStep
  <1>2. \A v \in VersionId : IsSnapshot(v) => IsSnapshot(v)'
    <2> SUFFICES ASSUME NEW v \in VersionId, IsSnapshot(v) PROVE IsSnapshot(v)'
      OBVIOUS
    <2>1. Exists(v) /\ Exists(v)' /\ Onward(v) /\ versions[v].stage = "export_snapshot"
      BY <1>1 DEF IsSnapshot
    <2>2. versions'[v].stage \in Stage
      BY <1>1, <2>1 DEF Exists, Version
    <2>3. versions'[v].stage = "export_snapshot"
      BY <2>1, <2>2 DEF Onward, Rank, Stage
    <2> QED
      BY <2>1, <2>3 DEF IsSnapshot
  <1> QED
    BY <1>1, <1>2

\* What a call has read stays its past, whatever others save.
LEMMA PastStaysPast ==
    ASSUME BaseInv, [Next]_vars, NEW k \in Call, ReadIsPast(k)
    PROVE  ReadIsPast(k)'
  <1> DEFINE v == k.target
  <1>1. v \in VersionId /\ k.current \in Version /\ k.current.stage \in Stage
    BY DEF Call, Version
  <1>2. Exists(v) /\ Exists(v)' /\ Onward(v)
    BY <1>1, VersionsStep DEF ReadIsPast
  <1>3. versions[v] \in Version /\ versions'[v] \in Version
    BY <1>1, <1>2, VersionsStep, TypeOfVersion DEF BaseInv, Exists
  <1>4. k.current = [versions'[v] EXCEPT !.stage = k.current.stage]
    BY <1>1, <1>2, <1>3 DEF ReadIsPast, Onward, Version
  <1>5. Rank(k.current.stage) <= Rank(versions'[v].stage)
    <2>1. versions[v].stage \in Stage /\ versions'[v].stage \in Stage
      BY <1>3 DEF Version
    <2> QED
      BY <2>1, <1>1, <1>2 DEF ReadIsPast, Onward, Rank, Stage
  <1> QED
    BY <1>2, <1>4, <1>5 DEF ReadIsPast

-----------------------------------------------------------------------------
(***************************************************************************)
(* BaseInv is an inductive invariant.                                      *)
(***************************************************************************)

\* The initial state satisfies every invariant.
LEMMA ProtocolInit ==
    Init => BaseInv /\ KnownInv /\ OneExport /\ RunsFit /\ LineageIsSound
  <1> SUFFICES ASSUME Init
               PROVE  BaseInv /\ KnownInv /\ OneExport /\ RunsFit /\ LineageIsSound
    OBVIOUS
  <1>1. TypeOK
    BY ProtocolAssumption DEF Init, TypeOK, NothingKnown
  <1>2. CallsInv /\ KnownInv
    BY DEF Init, CallsInv, KnownInv
  <1>3. OneExport
    BY DEF Init, OneExport, Exporting, Busy, Idle
  <1>4. RunsFit /\ LineageIsSound
    BY DEF Init, RunsFit, LineageIsSound, Exists
  <1> QED
    BY <1>1, <1>2, <1>3, <1>4 DEF BaseInv

\* A step changes the call of one client, and begins, moves or ends it.
Moved(c) ==
    \/ call' = call
    \/ call' = [call EXCEPT ![c] = Idle]
    \/ /\ call' = [call EXCEPT ![c] = call'[c]]
       /\ call'[c] \in Call
       /\ \/ /\ call[c] = Idle /\ ReadIsPast(call'[c]) /\ Required(call'[c])
             /\ call'[c].pc # "saveExport"
          \/ /\ call[c] # Idle
             /\ call'[c].op = call[c].op
             /\ call'[c].target = call[c].target
             /\ call'[c].current = call[c].current
             /\ \/ call[c].pc = "listVersions" /\ call'[c].pc = "listArtifacts"
                \/ /\ call[c].pc = "listArtifacts" /\ call'[c].pc = "saveVersion"
                   /\ call[c].op \in {"revise", "branch"}
                \/ call[c].op = "export" /\ call'[c].pc = "saveExport"

\* Which operation a call lists for.
ListingInv == \A c \in Client :
    /\ call[c].pc = "listVersions" => call[c].op = "revise"
    /\ call[c].pc = "listArtifacts" => call[c].op \in {"revise", "branch"}

\* What Require starts fits what it read.
LEMMA RequireMoves ==
    ASSUME BaseInv, NEW c \in Client, NEW op \in Operation, NEW v \in VersionId,
           NEW content \in Content, NEW artifact \in Artifact \cup {None},
           Require(c, op, v, content, artifact)
    PROVE  /\ Moved(c)
           /\ call[c] = Idle /\ call'[c] \in Call /\ call'[c].target = v
           /\ call'[c].current = versions[v]
           /\ call'[c].op = op /\ call'[c].pc = FirstAwait(op) /\ Exists(v)
           /\ call' = [call EXCEPT ![c] = call'[c]]
  <1> DEFINE new == [pc |-> FirstAwait(op), op |-> op, target |-> v,
                     current |-> versions[v], listed |-> 0, affected |-> {},
                     content |-> content, artifact |-> artifact]
  <1>1. /\ call[c] = Idle /\ Exists(v) /\ Admissible(op, versions[v], content)
        /\ op = "attach" => artifact \in Artifact
        /\ call' = [call EXCEPT ![c] = new]
        /\ versions' = versions
    BY DEF Require, Arguments
  <1>2. call'[c] = new
    BY <1>1 DEF BaseInv, TypeOK
  <1>3. versions[v] \in Version /\ versions[v].stage \in Stage
    BY <1>1, TypeOfVersion DEF BaseInv
  <1>4. FirstAwait(op) \in Await
    BY DEF FirstAwait, Await, Operation
  <1>5. new \in Call
    BY <1>3, <1>4 DEF Call
  <1>6. /\ new.pc = FirstAwait(op) /\ new.op = op /\ new.target = v
        /\ new.current = versions[v] /\ new.content = content /\ new.artifact = artifact
    OBVIOUS
  <1> HIDE DEF new
  <1>7. ReadIsPast(new)
    <2>1. versions[v] = [versions[v] EXCEPT !.stage = versions[v].stage]
      BY <1>3 DEF Version
    <2>2. Rank(versions[v].stage) <= Rank(versions[v].stage)
      BY <1>3 DEF Rank, Stage
    <2> QED
      BY <1>1, <1>6, <2>1, <2>2 DEF ReadIsPast
  <1>8. Required(new)
    BY <1>1, <1>6 DEF Required, Admissible, FirstAwait, Operation
  <1>9. new.pc # "saveExport"
    BY <1>6 DEF FirstAwait, Operation
  <1> QED
    BY <1>1, <1>2, <1>5, <1>6, <1>7, <1>8, <1>9 DEF Moved

\* Every step of a client moves its call so, and the calls stay calls.
LEMMA CallsMove ==
    ASSUME BaseInv, ListingInv, [Next]_vars
    PROVE  /\ \/ UNCHANGED call
              \/ \E c \in Client : Moved(c)
           /\ call' \in [Client -> Call \cup {Idle}]
           /\ ListingInv'
  <1> DEFINE Goal == /\ \/ UNCHANGED call
                        \/ \E c \in Client : Moved(c)
                     /\ call' \in [Client -> Call \cup {Idle}]
                     /\ ListingInv'
  <1>t. call \in [Client -> Call \cup {Idle}]
    BY DEF BaseInv, TypeOK
  <1>s. ASSUME UNCHANGED call PROVE Goal
    BY <1>s, <1>t DEF ListingInv
  <1>e. ASSUME NEW c \in Client, Ends(c) PROVE Goal
    BY <1>e, <1>t DEF ListingInv, Ends, Moved, Idle
  <1>m. ASSUME NEW c \in Client, NEW new \in Call, call' = [call EXCEPT ![c] = new],
               Moved(c),
               new.pc = "listVersions" => new.op = "revise",
               new.pc = "listArtifacts" => new.op \in {"revise", "branch"}
        PROVE  Goal
    BY <1>m, <1>t DEF ListingInv
  <1>1. ASSUME NEW c \in Client, NEW op \in Operation, NEW v \in VersionId,
               NEW content \in Content, NEW artifact \in Artifact \cup {None},
               Require(c, op, v, content, artifact)
        PROVE  Goal
    <2>1. /\ Moved(c) /\ call'[c] \in Call /\ call' = [call EXCEPT ![c] = call'[c]]
          /\ call'[c].op = op /\ call'[c].pc = FirstAwait(op)
      BY <1>1, RequireMoves
    <2>2. /\ FirstAwait(op) = "listVersions" => op = "revise"
          /\ FirstAwait(op) = "listArtifacts" => op \in {"revise", "branch"}
      BY DEF FirstAwait, Operation
    <2> QED
      BY <2>1, <2>2, <1>m
  <1>2. ASSUME NEW c \in Client, ListVersions(c) PROVE Goal
    <2> DEFINE max == Max({versions[v].number : v \in InProtocol(call[c].current.protocol)})
               new == [call[c] EXCEPT !.pc = "listArtifacts", !.listed = max]
    <2>1. call[c] # Idle /\ call[c].pc = "listVersions"
      BY <1>2, BusyIsNotIdle DEF ListVersions, Busy, Await
    <2>2. call[c] \in Call /\ call[c].op = "revise"
      BY <2>1, TypeOfCall DEF BaseInv, ListingInv
    <2>3. call[c].target \in InProtocol(call[c].current.protocol)
          /\ call[c].current.protocol \in VersionId
      <3>1. ReadIsPast(call[c])
        BY <2>1 DEF BaseInv, CallsInv
      <3>2. call[c].target \in VersionId /\ call[c].current \in Version
        BY <2>2 DEF Call
      <3>3. versions[call[c].target] \in Version
        BY <3>1, <3>2, TypeOfVersion DEF BaseInv, ReadIsPast
      <3> QED
        BY <3>1, <3>2, <3>3 DEF ReadIsPast, InProtocol, Version
    <2>4. max \in Nat
      BY <2>3, ListedIsGreatest DEF BaseInv
    <2>5. call' = [call EXCEPT ![c] = new]
      BY <1>2 DEF ListVersions
    <2> HIDE DEF max
    <2>6. /\ new \in Call /\ new.pc = "listArtifacts" /\ new.op = call[c].op
          /\ new.target = call[c].target /\ new.current = call[c].current
      BY <2>2, <2>4 DEF Call, Await
    <2> HIDE DEF new
    <2>7. call'[c] = new
      BY <2>5, <1>t
    <2>8. Moved(c)
      BY <2>1, <2>5, <2>6, <2>7 DEF Moved
    <2> QED
      BY <2>2, <2>5, <2>6, <2>8, <1>m
  <1>3. ASSUME NEW c \in Client, ListArtifacts(c) PROVE Goal
    <2> DEFINE new == [call[c] EXCEPT !.pc = "saveVersion",
                                      !.affected = artifacts[call[c].target]]
    <2>1. call[c] # Idle /\ call[c].pc = "listArtifacts"
      BY <1>3, BusyIsNotIdle DEF ListArtifacts, Busy, Await
    <2>2. call[c] \in Call /\ call[c].op \in {"revise", "branch"}
          /\ call[c].target \in VersionId
      BY <2>1, TypeOfCall DEF BaseInv, ListingInv
    <2>3. artifacts[call[c].target] \in SUBSET Artifact
      BY <2>2 DEF BaseInv, TypeOK
    <2>5. call' = [call EXCEPT ![c] = new]
      BY <1>3 DEF ListArtifacts
    <2>6. /\ new \in Call /\ new.pc = "saveVersion" /\ new.op = call[c].op
          /\ new.target = call[c].target /\ new.current = call[c].current
      BY <2>2, <2>3 DEF Call, Await
    <2> HIDE DEF new
    <2>7. call'[c] = new
      BY <2>5, <1>t
    <2>8. Moved(c)
      BY <2>1, <2>2, <2>5, <2>6, <2>7 DEF Moved
    <2> QED
      BY <2>5, <2>6, <2>8, <1>m
  <1>4. ASSUME NEW c \in Client, SaveStage(c) PROVE Goal
    <2>1. CASE call[c].op # "export"
      BY <1>4, <2>1, <1>e DEF SaveStage
    <2>2. CASE call[c].op = "export"
      <3> DEFINE new == [call[c] EXCEPT !.pc = "saveExport"]
      <3>1. call[c] # Idle /\ call[c] \in Call
        BY <1>4, BusyIsNotIdle, TypeOfCall DEF SaveStage, Advances, Busy, Await, BaseInv
      <3>2. call' = [call EXCEPT ![c] = new]
        BY <1>4, <2>2, <1>t DEF SaveStage
      <3>3. /\ new \in Call /\ new.pc = "saveExport" /\ new.op = call[c].op
            /\ new.target = call[c].target /\ new.current = call[c].current
        BY <3>1 DEF Call, Await
      <3> HIDE DEF new
      <3>4. call'[c] = new
        BY <3>2, <1>t
      <3>5. Moved(c)
        BY <3>1, <3>2, <3>3, <3>4, <2>2 DEF Moved
      <3> QED
        BY <3>2, <3>3, <3>5, <1>m
    <2> QED
      BY <2>1, <2>2
  <1>5. ASSUME NEW c \in Client,
               Refused(c) \/ SaveExport(c) \/ AttachArtifact(c) \/ SaveRun(c)
        PROVE  Goal
    BY <1>5, <1>e DEF Refused, SaveExport, AttachArtifact, SaveRun
  <1>6. ASSUME NEW c \in Client, NEW v \in VersionId, SaveSuccessor(c, v) PROVE Goal
    BY <1>6, <1>e DEF SaveSuccessor
  <1>7. ASSUME NEW c \in Client, NEW v \in VersionId, NEW content \in Content,
               Create(c, v, content)
        PROVE  Goal
    BY <1>7, <1>s DEF Create
  <1>8. CASE UNCHANGED vars
    BY <1>8, <1>s DEF vars
  <1> QED
    BY <1>1, <1>2, <1>3, <1>4, <1>5, <1>6, <1>7, <1>8 DEF Next

\* A call that is awaited in the next state is a call, and read its target in the past.
LEMMA CallsInvNext ==
    ASSUME BaseInv, ListingInv, [Next]_vars
    PROVE  CallsInv'
  <1> SUFFICES ASSUME NEW d \in Client, NEW k, k = call'[d], k # Idle
               PROVE  ReadIsPast(k)' /\ Required(k)
    BY DEF CallsInv, Required, ReadIsPast
  <1>t. call \in [Client -> Call \cup {Idle}]
    BY DEF BaseInv, TypeOK
  <1>1. k \in Call
    BY CallsMove
  <1>2. ReadIsPast(k) /\ Required(k)
    <2>1. CASE k = call[d]
      BY <2>1 DEF BaseInv, CallsInv
    <2>2. CASE k # call[d]
      <3>1. PICK c \in Client : Moved(c)
        BY <2>2, CallsMove
      <3>2. d = c /\ call' # call /\ call' # [call EXCEPT ![c] = Idle]
        BY <3>1, <2>2, <1>t DEF Moved
      <3>3. CASE call[d] = Idle
        BY <3>1, <3>2, <3>3 DEF Moved
      <3>4. CASE call[d] # Idle
        <4>1. ReadIsPast(call[d])
          BY <3>4 DEF BaseInv, CallsInv
        <4>2. /\ k.target = call[d].target
              /\ k.current = call[d].current
              /\ k.op = call[d].op
              /\ \/ k.pc = "listArtifacts"
                 \/ k.pc = "saveVersion" /\ call[d].op \in {"revise", "branch"}
                 \/ k.pc = "saveExport"
          BY <3>1, <3>2, <3>4 DEF Moved
        <4> QED
          BY <4>1, <4>2 DEF ReadIsPast, Required
      <3> QED
        BY <3>3, <3>4
    <2> QED
      BY <2>1, <2>2
  <1>3. ReadIsPast(k)'
    BY <1>1, <1>2, PastStaysPast
  <1> QED
    BY <1>2, <1>3

\* The other parts keep their types.
LEMMA TypesNext ==
    ASSUME BaseInv, ListingInv, [Next]_vars
    PROVE  TypeOK'
  <1>1. versions' \in [VersionId -> Version \cup {None}]
    BY VersionsStep
  <1>2. call' \in [Client -> Call \cup {Idle}]
    BY CallsMove
  <1> DEFINE Goal == /\ artifacts' \in [VersionId -> SUBSET Artifact]
                     /\ runs' \subseteq [version : VersionId, content : Content]
                     /\ exports' \in [VersionId -> Nat]
                     /\ known' \in [Client -> [versions : SUBSET VersionId,
                                               artifacts : SUBSET Artifact]]
                     /\ calls' \in 0 .. MaxCalls
  <1>t. /\ artifacts \in [VersionId -> SUBSET Artifact]
        /\ runs \subseteq [version : VersionId, content : Content]
        /\ exports \in [VersionId -> Nat]
        /\ known \in [Client -> [versions : SUBSET VersionId, artifacts : SUBSET Artifact]]
        /\ calls \in 0 .. MaxCalls
    BY DEF BaseInv, TypeOK
  <1>n. NothingKnown \in [versions : SUBSET VersionId, artifacts : SUBSET Artifact]
    BY DEF NothingKnown
  <1>3. ASSUME NEW c \in Client, NEW op \in Operation, NEW v \in VersionId,
               NEW content \in Content, NEW artifact \in Artifact \cup {None},
               Require(c, op, v, content, artifact)
        PROVE  Goal
    <2>1. [versions  |-> InProtocol(versions[v].protocol), artifacts |-> artifacts[v]]
             \in [versions : SUBSET VersionId, artifacts : SUBSET Artifact]
      BY <1>t DEF InProtocol
    <2> QED
      BY <1>3, <1>t, <2>1, ProtocolAssumption DEF Require, Begins
  <1>4. ASSUME NEW c \in Client, ListVersions(c) \/ ListArtifacts(c) PROVE Goal
    BY <1>4, <1>t DEF ListVersions, ListArtifacts
  <1>5. ASSUME NEW c \in Client, NEW v \in VersionId, SaveSuccessor(c, v) PROVE Goal
    BY <1>5, <1>t, <1>n DEF SaveSuccessor, Ends
  <1>6. ASSUME NEW c \in Client, SaveStage(c) \/ Refused(c) PROVE Goal
    BY <1>6, <1>t, <1>n DEF SaveStage, Refused, Ends
  <1>7. ASSUME NEW c \in Client, SaveExport(c) PROVE Goal
    <2>1. call[c] # Idle
      BY <1>7, BusyIsNotIdle DEF SaveExport, Await
    <2>2. call[c].target \in VersionId
      BY <2>1, TypeOfCall DEF BaseInv
    <2> QED
      BY <1>7, <1>t, <1>n, <2>2 DEF SaveExport, Ends
  <1>8. ASSUME NEW c \in Client, AttachArtifact(c) PROVE Goal
    <2>1. call[c] # Idle
      BY <1>8, BusyIsNotIdle DEF AttachArtifact, Await
    <2>2. call[c].target \in VersionId /\ call[c] \in Call
      BY <2>1, TypeOfCall DEF BaseInv
    <2>3. artifacts' \in [VersionId -> SUBSET Artifact]
      <3>1. call[c].artifact \in Artifact
        BY <1>8, <2>1 DEF AttachArtifact, BaseInv, CallsInv, Busy, Required
      <3> QED
        BY <1>8, <1>t, <2>2, <3>1 DEF AttachArtifact
    <2> QED
      BY <1>8, <1>t, <1>n, <2>3 DEF AttachArtifact, Ends
  <1>9. ASSUME NEW c \in Client, SaveRun(c) PROVE Goal
    <2>1. call[c] # Idle
      BY <1>9, BusyIsNotIdle DEF SaveRun, Await
    <2>2. call[c].target \in VersionId /\ call[c].content \in Content
      BY <2>1, TypeOfCall DEF BaseInv
    <2> QED
      BY <1>9, <1>t, <1>n, <2>2 DEF SaveRun, Ends
  <1>10. ASSUME NEW c \in Client, NEW v \in VersionId, NEW content \in Content,
                Create(c, v, content)
         PROVE  Goal
    BY <1>10, <1>t, ProtocolAssumption DEF Create, Begins
  <1>11. ASSUME UNCHANGED vars PROVE Goal
    BY <1>11, <1>t DEF vars
  <1>12. Goal
    BY <1>3, <1>4, <1>5, <1>6, <1>7, <1>8, <1>9, <1>10,
       <1>11 DEF Next
  <1> QED
    BY <1>1, <1>2, <1>12 DEF TypeOK

\* BaseInv and ListingInv are preserved together.
LEMMA BaseInvNext ==
    ASSUME BaseInv, ListingInv, [Next]_vars
    PROVE  BaseInv' /\ ListingInv'
  BY CallsInvNext, TypesNext, CallsMove DEF BaseInv

-----------------------------------------------------------------------------
(***************************************************************************)
(* The runs, the exports and the lineage.                                  *)
(***************************************************************************)

LEMMA RunsFitNext ==
    ASSUME BaseInv, RunsFit, [Next]_vars
    PROVE  RunsFit'
  <1> SUFFICES ASSUME NEW run \in runs'
               PROVE  Exists(run.version)' /\ versions'[run.version].content = run.content
    BY DEF RunsFit
  <1>k. ASSUME NEW v \in VersionId, NEW content, Exists(v), versions[v].content = content
        PROVE  Exists(v)' /\ versions'[v].content = content
    <2>1. Exists(v)' /\ Onward(v) /\ versions[v] \in Version
      BY <1>k, VersionsStep, TypeOfVersion DEF BaseInv
    <2> QED
      BY <2>1, <1>k DEF Onward, Version
  <1>1. CASE run \in runs
    <2>1. Exists(run.version) /\ versions[run.version].content = run.content
      BY <1>1 DEF RunsFit
    <2>2. run.version \in VersionId
      BY <1>1 DEF BaseInv, TypeOK
    <2> QED
      BY <2>1, <2>2, <1>k
  <1>2. CASE run \notin runs
    <2>1. PICK c \in Client : SaveRun(c)
      <3>1. ASSUME NEW c \in Client, NEW op, NEW v, NEW content, NEW artifact,
                   Require(c, op, v, content, artifact)
            PROVE  FALSE
        BY <1>2, <3>1 DEF Require
      <3>2. ASSUME NEW c \in Client, NEW v, SaveSuccessor(c, v) PROVE FALSE
        BY <1>2, <3>2 DEF SaveSuccessor
      <3>3. ASSUME NEW c \in Client, NEW v, NEW content, Create(c, v, content) PROVE FALSE
        BY <1>2, <3>3 DEF Create
      <3>4. ASSUME NEW c \in Client, ListVersions(c) \/ ListArtifacts(c) \/ Refused(c)
            PROVE  FALSE
        BY <1>2, <3>4 DEF ListVersions, ListArtifacts, Refused
      <3>5. ASSUME NEW c \in Client, SaveStage(c) \/ SaveExport(c) \/ AttachArtifact(c)
            PROVE  FALSE
        BY <1>2, <3>5 DEF SaveStage, SaveExport, AttachArtifact
      <3>6. ~UNCHANGED vars
        BY <1>2 DEF vars
      <3> QED
        BY <3>1, <3>2, <3>3, <3>4, <3>5, <3>6 DEF Next
    <2>2. call[c] # Idle /\ call[c].pc = "saveRun"
      BY <2>1, BusyIsNotIdle DEF SaveRun, Await, Busy
    <2>3. run.version = call[c].target /\ run.content = call[c].content
      BY <1>2, <2>1 DEF SaveRun
    <2>4. ReadIsPast(call[c]) /\ Required(call[c])
      BY <2>2 DEF BaseInv, CallsInv
    <2>5. call[c].target \in VersionId /\ call[c].current \in Version
      BY <2>2, TypeOfCall DEF BaseInv
    <2>6. versions[call[c].target].content = call[c].content
      <3>1. versions[call[c].target] \in Version
        BY <2>4, <2>5, TypeOfVersion DEF BaseInv, ReadIsPast
      <3> QED
        BY <3>1, <2>2, <2>4 DEF ReadIsPast, Required, Version
    <2> QED
      BY <2>3, <2>4, <2>5, <2>6, <1>k DEF ReadIsPast
  <1> QED
    BY <1>1, <1>2

\* A version that a successor's reference fits goes on fitting it.
LEMMA LineageNext ==
    ASSUME BaseInv, LineageIsSound, [Next]_vars
    PROVE  LineageIsSound'
  <1> DEFINE Fits(ref, p, n) == /\ Exists(ref.version)
                                /\ versions[ref.version].protocol = p
                                /\ versions[ref.version].number < n
                                /\ versions[ref.version].branch = ref.branch
                                /\ Rank(ref.stage) <= Rank(versions[ref.version].stage)
             FitsNext(ref, p, n) == /\ versions'[ref.version] # None
                                    /\ versions'[ref.version].protocol = p
                                    /\ versions'[ref.version].number < n
                                    /\ versions'[ref.version].branch = ref.branch
                                    /\ Rank(ref.stage) <= Rank(versions'[ref.version].stage)
  <1>k. ASSUME NEW ref \in Ref, NEW p, NEW n \in Nat, Fits(ref, p, n)
        PROVE  FitsNext(ref, p, n)
    <2> DEFINE w == ref.version
    <2>1. w \in VersionId /\ ref.stage \in Stage
      BY DEF Ref
    <2>2. Exists(w)' /\ Onward(w) /\ versions[w] \in Version
      BY <1>k, <2>1, VersionsStep, TypeOfVersion DEF BaseInv
    <2>3. versions'[w] \in Version
      BY <2>1, <2>2, VersionsStep DEF Exists
    <2>4. /\ versions'[w].protocol = versions[w].protocol
          /\ versions'[w].number = versions[w].number
          /\ versions'[w].branch = versions[w].branch
      BY <2>2 DEF Onward, Version
    <2>5. Rank(ref.stage) <= Rank(versions'[w].stage)
      <3>1. versions[w].stage \in Stage /\ versions'[w].stage \in Stage
        BY <2>2, <2>3 DEF Version
      <3> QED
        BY <3>1, <2>1, <2>2, <1>k DEF Onward, Rank, Stage
    <2> QED
      BY <1>k, <2>2, <2>4, <2>5 DEF Exists
  <1> SUFFICES ASSUME NEW v \in VersionId, Exists(v)'
               PROVE  IF versions'[v].predecessor = None
                      THEN versions'[v].protocol = v
                      ELSE FitsNext(versions'[v].predecessor, versions'[v].protocol,
                         versions'[v].number)
    BY DEF LineageIsSound, Exists
  <1>v. versions'[v] \in Version
    BY VersionsStep DEF Exists
  <1>1. CASE Exists(v)
    <2>1. Onward(v) /\ versions[v] \in Version
      BY <1>1, VersionsStep, TypeOfVersion DEF BaseInv
    <2>2. /\ versions'[v].predecessor = versions[v].predecessor
          /\ versions'[v].protocol = versions[v].protocol
          /\ versions'[v].number = versions[v].number
          /\ versions[v].number \in Nat
          /\ versions[v].predecessor \in Ref \cup {None}
      BY <2>1 DEF Onward, Version
    <2>3. CASE versions[v].predecessor = None
      BY <2>2, <2>3, <1>1 DEF LineageIsSound
    <2>4. ASSUME versions[v].predecessor # None
          PROVE  FitsNext(versions'[v].predecessor, versions'[v].protocol,
                         versions'[v].number)
      <3>0. PICK ref \in Ref : ref = versions[v].predecessor
        BY <2>2, <2>4
      <3>1. PICK n \in Nat : n = versions[v].number
        BY <2>2
      <3>2. PICK p \in VersionId : p = versions[v].protocol
        BY <2>1 DEF Version
      <3>3. Fits(ref, p, n)
        BY <1>1, <2>4, <3>0, <3>1, <3>2 DEF LineageIsSound
      <3>4. FitsNext(ref, p, n)
        BY <3>3, <1>k
      <3> QED
        BY <3>4, <3>0, <3>1, <3>2, <2>2
    <2> QED
      BY <2>2, <2>3, <2>4
  <1>2. CASE ~Exists(v)
    <2>1. ASSUME NEW c \in Client, NEW w \in VersionId, SaveSuccessor(c, w)
          PROVE  /\ versions'[v].predecessor # None
                 /\ FitsNext(versions'[v].predecessor, versions'[v].protocol,
                         versions'[v].number)
      <3>1. w = v
        BY <1>2, <2>1, SuccessorSaved DEF Exists, BaseInv, TypeOK
      <3>2. /\ call[c] # Idle
            /\ versions'[v].protocol = call[c].current.protocol
            /\ versions'[v].predecessor = ToRef(call[c].target, call[c].current)
            /\ versions'[v].number > call[c].current.number
        BY <2>1, <3>1, SuccessorSaved
      <3>3. call[c].target \in VersionId /\ call[c].current \in Version
        BY <3>2, TypeOfCall DEF BaseInv
      <3>4. ReadIsPast(call[c])
        BY <3>2 DEF BaseInv, CallsInv
      <3>5. PICK ref \in Ref : ref = ToRef(call[c].target, call[c].current)
        BY <3>3 DEF ToRef, Ref, Version
      <3>6. PICK n \in Nat : n = versions'[v].number
        BY <1>v DEF Version
      <3>7. PICK p \in VersionId : p = call[c].current.protocol
        BY <3>3 DEF Version
      <3>8. versions[call[c].target] \in Version
        BY <3>3, <3>4, TypeOfVersion DEF BaseInv, ReadIsPast
      <3>9. /\ ref.version = call[c].target /\ ref.stage = call[c].current.stage
            /\ ref.branch = call[c].current.branch
        BY <3>5 DEF ToRef
      <3>10. /\ versions[ref.version].protocol = p
             /\ versions[ref.version].number < n
             /\ versions[ref.version].branch = ref.branch
        BY <3>2, <3>4, <3>6, <3>7, <3>8, <3>9 DEF ReadIsPast, Version
      <3>11. Fits(ref, p, n)
        BY <3>4, <3>9, <3>10 DEF ReadIsPast
      <3>12. FitsNext(ref, p, n)
        BY <3>11, <1>k
      <3> QED
        BY <3>12, <3>2, <3>5, <3>6, <3>7, ProtocolAssumption
    <2>2. ASSUME NEW c \in Client, NEW w \in VersionId, NEW content \in Content,
                 Create(c, w, content)
          PROVE  versions'[v].predecessor = None /\ versions'[v].protocol = v
      <3>1. w = v
        BY <1>2, <2>2, CreateSaved DEF Exists, BaseInv, TypeOK
      <3> QED
        BY <2>2, <3>1, CreateSaved
    <2>3. ASSUME NEW c \in Client, SaveStage(c) PROVE FALSE
      BY <1>2, <2>3, StageSaved DEF Exists, BaseInv, TypeOK
    <2>4. ASSUME NEW c \in Client, ReadingStep(c) PROVE FALSE
      BY <1>2, <2>4, ReadingKeeps DEF Exists
    <2>5. ~UNCHANGED vars
      BY <1>2 DEF vars, Exists
    <2> QED
      BY <2>1, <2>2, <2>3, <2>4, <2>5 DEF Next, ReadingStep
  <1> QED
    BY <1>1, <1>2

LEMMA OneExportNext ==
    ASSUME BaseInv, OneExport, [Next]_vars
    PROVE  OneExport'
  <1> DEFINE Fine(v) == /\ exports[v] \in {0, 1}
                        /\ \A c \in Exporting(v) : Exporting(v) = {c} /\ exports[v] = 0
                        /\ exports[v] = 1 \/ Exporting(v) # {} => IsSnapshot(v)
  <1>t. /\ call \in [Client -> Call \cup {Idle}]
        /\ exports \in [VersionId -> Nat]
    BY DEF BaseInv, TypeOK
  <1>f. \A v \in VersionId : Fine(v)
    BY DEF OneExport
  <1> SUFFICES ASSUME NEW v \in VersionId PROVE Fine(v)'
    BY DEF OneExport
  <1>p. IsSnapshot(v) => IsSnapshot(v)'
    BY VersionsStep
  <1>s. ASSUME exports' = exports, Exporting(v)' = Exporting(v) PROVE Fine(v)'
    BY <1>s, <1>p, <1>f
  <1>e. ASSUME NEW c \in Client, Ends(c), call[c].pc # "saveExport"
        PROVE  Exporting(v)' = Exporting(v)
    BY <1>e, <1>t DEF Ends, Exporting, Busy, Idle
  <1>1. ASSUME NEW c \in Client, NEW op \in Operation, NEW w \in VersionId,
               NEW content \in Content, NEW artifact \in Artifact \cup {None},
               Require(c, op, w, content, artifact)
        PROVE  Fine(v)'
    <2>1. /\ call[c] = Idle /\ call' = [call EXCEPT ![c] = call'[c]]
          /\ call'[c].pc # "saveExport"
      BY <1>1, RequireMoves DEF FirstAwait, Operation
    <2>2. Exporting(v)' = Exporting(v)
      BY <2>1, <1>t DEF Exporting, Busy, Idle
    <2> QED
      BY <1>1, <2>2, <1>s DEF Require
  <1>2. ASSUME NEW c \in Client, ListVersions(c) \/ ListArtifacts(c) PROVE Fine(v)'
    <2>1. call[c] # Idle /\ call[c].pc \in {"listVersions", "listArtifacts"}
      BY <1>2, BusyIsNotIdle DEF ListVersions, ListArtifacts, Busy, Await
    <2>2. call[c] \in Call
      BY <2>1, TypeOfCall DEF BaseInv
    <2>3. /\ call' = [call EXCEPT ![c] = call'[c]]
          /\ call'[c].pc \in {"listArtifacts", "saveVersion"}
      BY <1>2, <2>2, <1>t DEF ListVersions, ListArtifacts, Call
    <2>4. Exporting(v)' = Exporting(v)
      BY <2>1, <2>3, <1>t DEF Exporting, Busy
    <2> QED
      BY <1>2, <2>4, <1>s DEF ListVersions, ListArtifacts
  <1>3. ASSUME NEW c \in Client, NEW w \in VersionId, SaveSuccessor(c, w) PROVE Fine(v)'
    BY <1>3, <1>e, <1>s DEF SaveSuccessor, Busy
  <1>4. ASSUME NEW c \in Client, SaveStage(c) PROVE Fine(v)'
    <2>1. call[c].pc = "saveVersion" /\ exports' = exports
      BY <1>4 DEF SaveStage, Advances, Busy
    <2>2. CASE call[c].op # "export"
      BY <1>4, <2>1, <2>2, <1>e, <1>s DEF SaveStage
    <2>3. CASE call[c].op = "export"
      <3> DEFINE w == call[c].target
      <3>1. call[c] # Idle /\ w \in VersionId /\ ~IsSnapshot(w) /\ Exists(w)
            /\ versions'[w].stage = "export_snapshot" /\ call[c] \in Call
        BY <1>4, <2>3, StageSaved, TypeOfCall DEF BaseInv
      <3>2. call' = [call EXCEPT ![c] = [call[c] EXCEPT !.pc = "saveExport"]]
        BY <1>4, <2>3 DEF SaveStage
      <3>3. call'[c].pc = "saveExport" /\ call'[c].target = w
        BY <3>1, <3>2, <1>t DEF Call
      <3>4. CASE v = w
        <4>1. exports[v] = 0 /\ Exporting(v) = {}
          BY <3>1, <3>4, <1>f
        <4>2. Exporting(v)' = {c}
          BY <4>1, <3>2, <3>3, <3>4, <1>t DEF Exporting, Busy
        <4>3. IsSnapshot(v)'
          BY <3>1, <3>4, VersionsStep DEF IsSnapshot
        <4> QED
          BY <4>1, <4>2, <4>3, <2>1
      <3>5. CASE v # w
        <4>1. Exporting(v)' = Exporting(v)
          BY <2>1, <3>2, <3>3, <3>5, <1>t DEF Exporting, Busy
        <4> QED
          BY <4>1, <2>1, <1>s
      <3> QED
        BY <3>4, <3>5
    <2> QED
      BY <2>2, <2>3
  <1>5. ASSUME NEW c \in Client, SaveExport(c) PROVE Fine(v)'
    <2> DEFINE w == call[c].target
    <2>1. call[c] # Idle /\ call[c].pc = "saveExport" /\ Ends(c)
      BY <1>5, BusyIsNotIdle DEF SaveExport, Busy, Await
    <2>2. w \in VersionId /\ c \in Exporting(w)
      BY <2>1, TypeOfCall DEF BaseInv, Exporting, Busy
    <2>3. IsSnapshot(w) /\ exports[w] = 0 /\ Exporting(w) = {c}
      BY <2>2, <1>f
    <2>4. exports' = [exports EXCEPT ![w] = @ + 1]
      BY <1>5, <2>3 DEF SaveExport
    <2>5. CASE v = w
      <3>1. exports'[v] = 1
        BY <2>2, <2>3, <2>4, <2>5, <1>t
      <3>2. Exporting(v)' = {}
        BY <2>1, <2>3, <2>5, <1>t DEF Exporting, Ends, Busy, Idle
      <3> QED
        BY <3>1, <3>2, <2>3, <2>5, <1>p
    <2>6. CASE v # w
      <3>1. exports'[v] = exports[v]
        BY <2>4, <2>6, <1>t
      <3>2. Exporting(v)' = Exporting(v)
        BY <2>1, <2>2, <2>6, <1>t DEF Exporting, Ends, Busy, Idle
      <3> QED
        BY <3>1, <3>2, <1>f, <1>p
    <2> QED
      BY <2>5, <2>6
  <1>6. ASSUME NEW c \in Client, Refused(c) \/ AttachArtifact(c) \/ SaveRun(c)
        PROVE  Fine(v)'
    BY <1>6, <1>e, <1>s DEF Refused, Advances, AttachArtifact, SaveRun, Busy
  <1>7. ASSUME NEW c \in Client, NEW w \in VersionId, NEW content \in Content,
               Create(c, w, content)
        PROVE  Fine(v)'
    BY <1>7, <1>s DEF Create, Exporting, Busy
  <1>8. ASSUME UNCHANGED vars PROVE Fine(v)'
    BY <1>8, <1>s DEF vars, Exporting, Busy
  <1> QED
    BY <1>1, <1>2, <1>3, <1>4, <1>5, <1>6, <1>7, <1>8 DEF Next

\* What a version is in, and its number, it keeps.
LEMMA StaysInProtocol ==
    ASSUME BaseInv, [Next]_vars, NEW p \in VersionId, NEW w \in InProtocol(p)
    PROVE  /\ w \in InProtocol(p)'
           /\ versions'[w].number = versions[w].number
  <1>1. w \in VersionId /\ Exists(w) /\ versions[w].protocol = p
    BY DEF InProtocol
  <1>2. Exists(w)' /\ Onward(w) /\ versions[w] \in Version
    BY <1>1, VersionsStep, TypeOfVersion DEF BaseInv
  <1>3. versions'[w].protocol = p /\ versions'[w].number = versions[w].number
    BY <1>1, <1>2 DEF Onward, Version
  <1> QED
    BY <1>1, <1>2, <1>3 DEF InProtocol, Exists

\* Artifacts stay attached.
LEMMA ArtifactsStay ==
    ASSUME BaseInv, [Next]_vars, NEW v \in VersionId
    PROVE  artifacts[v] \subseteq artifacts'[v]
  <1>t. artifacts \in [VersionId -> SUBSET Artifact]
    BY DEF BaseInv, TypeOK
  <1>1. ASSUME NEW c \in Client, AttachArtifact(c)
        PROVE  artifacts[v] \subseteq artifacts'[v]
    <2>1. call[c] # Idle
      BY <1>1, BusyIsNotIdle DEF AttachArtifact, Await
    <2>2. call[c].target \in VersionId
      BY <2>1, TypeOfCall DEF BaseInv
    <2> QED
      BY <1>1, <1>t, <2>2 DEF AttachArtifact
  <1>2. ASSUME NEW c \in Client, NEW op, NEW w, NEW content, NEW artifact,
               Require(c, op, w, content, artifact)
        PROVE  artifacts' = artifacts
    BY <1>2 DEF Require
  <1>3. ASSUME NEW c \in Client, NEW w, NEW content,
               Create(c, w, content) \/ SaveSuccessor(c, w)
        PROVE  artifacts' = artifacts
    BY <1>3 DEF Create, SaveSuccessor
  <1>4. ASSUME NEW c \in Client, ListVersions(c) \/ ListArtifacts(c) \/ Refused(c)
        PROVE  artifacts' = artifacts
    BY <1>4 DEF ListVersions, ListArtifacts, Refused
  <1>5. ASSUME NEW c \in Client, SaveStage(c) \/ SaveExport(c) \/ SaveRun(c)
        PROVE  artifacts' = artifacts
    BY <1>5 DEF SaveStage, SaveExport, SaveRun
  <1>6. ASSUME UNCHANGED vars PROVE artifacts' = artifacts
    BY <1>6 DEF vars
  <1> QED
    BY <1>1, <1>2, <1>3, <1>4, <1>5, <1>6 DEF Next

\* What one client knows, about its call k.
Knows(k, what) ==
    /\ what.artifacts \subseteq artifacts[k.target]
    /\ k.pc = "saveVersion" /\ k.op \in {"revise", "branch"} =>
          what.artifacts \subseteq k.affected
    /\ \A w \in what.versions :
          /\ w \in InProtocol(k.current.protocol)
          /\ k.pc \in {"listArtifacts", "saveVersion"} /\ k.op = "revise" =>
                versions[w].number <= k.listed

LEMMA KnowsOn ==
    ASSUME BaseInv, [Next]_vars, NEW k \in Call, NEW what, Knows(k, what)
    PROVE  Knows(k, what)'
  <1>1. k.target \in VersionId /\ k.current.protocol \in VersionId
    BY DEF Call, Version
  <1>2. artifacts[k.target] \subseteq artifacts'[k.target]
    BY <1>1, ArtifactsStay
  <1>3. \A w \in what.versions : /\ w \in InProtocol(k.current.protocol)'
                                 /\ versions'[w].number = versions[w].number
    BY <1>1, StaysInProtocol DEF Knows
  <1> QED
    BY <1>2, <1>3 DEF Knows

LEMMA KnownInvNext ==
    ASSUME BaseInv, ListingInv, KnownInv, [Next]_vars
    PROVE  KnownInv'
  <1>t. /\ call \in [Client -> Call \cup {Idle}]
        /\ known \in [Client -> [versions : SUBSET VersionId, artifacts : SUBSET Artifact]]
    BY DEF BaseInv, TypeOK
  <1>k. ASSUME NEW d \in Client, call[d] # Idle PROVE Knows(call[d], known[d])
    BY <1>k DEF KnownInv, Knows
  <1> SUFFICES ASSUME NEW d \in Client, NEW k, NEW what, k = call'[d], what = known'[d],
                      k # Idle
               PROVE  Knows(k, what)'
    BY DEF KnownInv, Knows
  <1>1. k \in Call
    BY CallsMove
  <1>2. SUFFICES Knows(k, what)
    BY <1>1, KnowsOn
  <1>s. ASSUME call'[d] = call[d], known'[d] = known[d] PROVE Knows(k, what)
    BY <1>s, <1>k
  <1>e. ASSUME NEW c \in Client, Ends(c) PROVE Knows(k, what)
    <2>1. d # c
      BY <1>e, <1>t DEF Ends
    <2> QED
      BY <2>1, <1>e, <1>t, <1>s DEF Ends
  <1>3. ASSUME NEW c \in Client, NEW op \in Operation, NEW v \in VersionId,
               NEW content \in Content, NEW artifact \in Artifact \cup {None},
               Require(c, op, v, content, artifact)
        PROVE  Knows(k, what)
    <2>1. CASE c = d
      <3>1. k.target = v /\ k.current = versions[v] /\ k.pc = FirstAwait(op) /\ k.op = op
        BY <1>3, <2>1, RequireMoves
      <3>2. /\ what.versions = InProtocol(versions[v].protocol)
            /\ what.artifacts = artifacts[v]
        BY <1>3, <2>1, <1>t DEF Require
      <3>3. /\ ~(k.pc = "saveVersion" /\ k.op \in {"revise", "branch"})
            /\ k.pc # "listArtifacts" \/ k.op # "revise"
        BY <3>1 DEF FirstAwait, Operation
      <3> QED
        BY <3>1, <3>2, <3>3 DEF Knows
    <2>2. CASE c # d
      BY <1>3, <2>2, <1>t, <1>s DEF Require
    <2> QED
      BY <2>1, <2>2
  <1>4. ASSUME NEW c \in Client, ListVersions(c) PROVE Knows(k, what)
    <2>1. CASE c = d
      <3> DEFINE p == call[c].current.protocol
                 max == Max({versions[v].number : v \in InProtocol(p)})
      <3>1. call[c] # Idle /\ call[c] \in Call
        BY <1>4, BusyIsNotIdle, TypeOfCall DEF ListVersions, Await, BaseInv
      <3>2. Knows(call[c], what)
        BY <1>4, <2>1, <3>1, <1>k DEF ListVersions
      <3>3. /\ k.pc = "listArtifacts" /\ k.listed = max
            /\ k.target = call[c].target /\ k.current = call[c].current
        BY <1>4, <2>1, <3>1, <1>t DEF ListVersions, Call
      <3>4. p \in VersionId
        BY <3>1 DEF Call, Version
      <3>5. \A w \in what.versions : w \in InProtocol(p)
        BY <3>2 DEF Knows
      <3>6. \A w \in InProtocol(p) : versions[w].number <= max
        BY <3>4, ListedIsGreatest DEF BaseInv
      <3> HIDE DEF max
      <3> QED
        BY <3>2, <3>3, <3>5, <3>6 DEF Knows
    <2>2. CASE c # d
      BY <1>4, <2>2, <1>t, <1>s DEF ListVersions
    <2> QED
      BY <2>1, <2>2
  <1>5. ASSUME NEW c \in Client, ListArtifacts(c) PROVE Knows(k, what)
    <2>1. CASE c = d
      <3>1. call[c] # Idle /\ call[c] \in Call /\ call[c].pc = "listArtifacts"
        BY <1>5, BusyIsNotIdle, TypeOfCall DEF ListArtifacts, Busy, Await, BaseInv
      <3>2. Knows(call[c], what)
        BY <1>5, <2>1, <3>1, <1>k DEF ListArtifacts
      <3>3. /\ k.pc = "saveVersion" /\ k.listed = call[c].listed /\ k.op = call[c].op
            /\ k.affected = artifacts[call[c].target]
            /\ k.target = call[c].target /\ k.current = call[c].current
        BY <1>5, <2>1, <3>1, <1>t DEF ListArtifacts, Call
      <3> QED
        BY <3>1, <3>2, <3>3 DEF Knows
    <2>2. CASE c # d
      BY <1>5, <2>2, <1>t, <1>s DEF ListArtifacts
    <2> QED
      BY <2>1, <2>2
  <1>6. ASSUME NEW c \in Client, SaveStage(c) PROVE Knows(k, what)
    <2>1. CASE call[c].op # "export"
      BY <1>6, <2>1, <1>e DEF SaveStage
    <2>2. CASE call[c].op = "export" /\ c = d
      <3>1. call[c] # Idle /\ call[c] \in Call
        BY <1>6, BusyIsNotIdle, TypeOfCall DEF SaveStage, Advances, Await, BaseInv
      <3>2. Knows(call[c], what)
        BY <1>6, <2>2, <3>1, <1>k DEF SaveStage
      <3>3. /\ k.pc = "saveExport"
            /\ k.target = call[c].target /\ k.current = call[c].current
        BY <1>6, <2>2, <3>1, <1>t DEF SaveStage, Call
      <3> QED
        BY <3>2, <3>3 DEF Knows
    <2>3. CASE call[c].op = "export" /\ c # d
      BY <1>6, <2>3, <1>t, <1>s DEF SaveStage
    <2> QED
      BY <2>1, <2>2, <2>3
  <1>7. ASSUME NEW c \in Client,
               Refused(c) \/ SaveExport(c) \/ AttachArtifact(c) \/ SaveRun(c)
        PROVE  Knows(k, what)
    BY <1>7, <1>e DEF Refused, SaveExport, AttachArtifact, SaveRun
  <1>8. ASSUME NEW c \in Client, NEW v \in VersionId, SaveSuccessor(c, v)
        PROVE  Knows(k, what)
    BY <1>8, <1>e DEF SaveSuccessor
  <1>9. ASSUME NEW c \in Client, NEW v \in VersionId, NEW content \in Content,
               Create(c, v, content)
        PROVE  Knows(k, what)
    BY <1>9, <1>s DEF Create
  <1>10. ASSUME UNCHANGED vars PROVE Knows(k, what)
    BY <1>10, <1>s DEF vars
  <1> QED
    BY <1>3, <1>4, <1>5, <1>6, <1>7, <1>8, <1>9, <1>10 DEF Next

-----------------------------------------------------------------------------
(***************************************************************************)
(* The theorems.                                                           *)
(***************************************************************************)

IInv == BaseInv /\ ListingInv /\ KnownInv /\ OneExport /\ RunsFit /\ LineageIsSound

LEMMA Inductive == Spec => []IInv
  <1>1. Init => IInv
    BY ProtocolInit DEF IInv, ListingInv, Init, Idle
  <1>2. IInv /\ [Next]_vars => IInv'
    BY BaseInvNext, KnownInvNext, OneExportNext, RunsFitNext, LineageNext DEF IInv
  <1> QED
    BY <1>1, <1>2, PTL DEF Spec

\* Every variable keeps its type: the listings of the service are never empty, so the
\* greatest number of one is a number.
THEOREM ProtocolTypes == Spec => []TypeOK
  <1>1. IInv => TypeOK
    BY DEF IInv, BaseInv
  <1> QED
    BY <1>1, Inductive, PTL

\* However the calls interleave, a saved version changes in nothing but its stage, one
\* stage at a time, and an export snapshot in nothing at all.
THEOREM SnapshotsStand == Spec => VersionsOnlyAdvance
  <1>1. IInv /\ [Next]_vars =>
           [\A v \in VersionId : Exists(v) =>
               /\ versions'[v] # None
               /\ versions'[v] = [versions[v] EXCEPT !.stage = versions'[v].stage]
               /\ Rank(versions'[v].stage) - Rank(versions[v].stage) \in {0, 1}]_vars
    BY VersionsStep DEF IInv, Onward
  <1> QED
    BY <1>1, Inductive, PTL DEF Spec, VersionsOnlyAdvance

\* Of exports that race one alone is saved, and none is begun that cannot be.
THEOREM ExportsOnce == Spec => []OneExport
  <1>1. IInv => OneExport
    BY DEF IInv
  <1> QED
    BY <1>1, Inductive, PTL

\* A run goes on fitting the protocol version that admitted it.
THEOREM RunsGoOnFitting == Spec => []RunsFit
  <1>1. IInv => RunsFit
    BY DEF IInv
  <1> QED
    BY <1>1, Inductive, PTL

\* The lineage of a version leads to the version that began its protocol.
THEOREM LineageLeadsBack == Spec => []LineageIsSound
  <1>1. IInv => LineageIsSound
    BY DEF IInv
  <1> QED
    BY <1>1, Inductive, PTL

\* A successor accounts for all there was when it was asked for.
THEOREM SuccessorsAccount == Spec => SuccessorsFollow
  <1> DEFINE A == \A c \in Client, v \in VersionId : call'[c] # call[c] /\ Saves(c, v) =>
                     /\ known[c].artifacts \subseteq versions'[v].affected
                     /\ call[c].op = "revise" => \A w \in known[c].versions :
                                         versions[w].number < versions'[v].number
  <1>1. IInv /\ [Next]_vars => [A]_vars
    <2> SUFFICES ASSUME IInv, Next, NEW c \in Client, NEW v \in VersionId,
                        call'[c] # call[c], Saves(c, v)
                 PROVE  /\ known[c].artifacts \subseteq versions'[v].affected
                        /\ call[c].op = "revise" => \A w \in known[c].versions :
                                         versions[w].number < versions'[v].number
      OBVIOUS
    <2>t. call \in [Client -> Call \cup {Idle}] /\ BaseInv /\ KnownInv
      BY DEF IInv, BaseInv, TypeOK
    <2>1. PICK d \in Client, w \in VersionId : SaveSuccessor(d, w)
      <3>1. ASSUME NEW d \in Client, NEW w \in VersionId, NEW content \in Content,
                   Create(d, w, content)
            PROVE  FALSE
        BY <3>1 DEF Create
      <3>2. ASSUME NEW d \in Client, SaveStage(d) PROVE FALSE
        <4>1. Exists(call[d].target)
              /\ versions' = [versions EXCEPT ![call[d].target] = versions'[call[d].target]]
          BY <3>2, <2>t, StageSaved
        <4> QED
          BY <4>1, <2>t DEF Saves, Exists, BaseInv, TypeOK
      <3>3. ASSUME NEW d \in Client, ReadingStep(d) PROVE FALSE
        BY <3>3, ReadingKeeps DEF Saves, Exists
      <3> QED
        BY <3>1, <3>2, <3>3 DEF Next, ReadingStep
    <2>2. d = c
      BY <2>1, <2>t DEF SaveSuccessor, Ends
    <2>3. w = v
      BY <2>1, <2>t, SuccessorSaved DEF Saves, Exists, BaseInv, TypeOK
    <2>4. /\ call[c] # Idle /\ call[c].op \in {"revise", "branch"}
          /\ call[c].pc = "saveVersion"
          /\ versions'[v].affected = call[c].affected
          /\ versions'[v] \in Version
          /\ call[c].op = "revise" => versions'[v].number > call[c].listed
      BY <2>1, <2>2, <2>3, <2>t, SuccessorSaved
    <2>5. known[c].artifacts \subseteq call[c].affected
      BY <2>4, <2>t DEF KnownInv
    <2>6. ASSUME call[c].op = "revise", NEW u \in known[c].versions
          PROVE  versions[u].number < versions'[v].number
      <3>1. /\ u \in InProtocol(call[c].current.protocol)
            /\ versions[u].number <= call[c].listed
        BY <2>4, <2>6, <2>t DEF KnownInv
      <3>2. versions[u].number \in Nat
        BY <3>1, <2>t, TypeOfVersion DEF InProtocol, BaseInv
      <3>3. call[c].listed \in Nat /\ versions'[v].number \in Nat
        BY <2>4, <2>t, TypeOfCall DEF BaseInv, Version
      <3> QED
        BY <3>1, <3>2, <3>3, <2>4, <2>6
    <2> QED
      BY <2>4, <2>5, <2>6
  <1> QED
    BY <1>1, Inductive, PTL DEF Spec, SuccessorsFollow
=============================================================================
