------------------------- MODULE SourceIntake_proofs --------------------------
(***************************************************************************)
(* The object stores keep the promise of putImmutable for any number of    *)
(* callers, keys and contents, and so do the uploads and conversions that  *)
(* call it; a source record names an object that is there.                 *)
(*                                                                         *)
(* The file of a call that is writing is Partial, and no other call writes *)
(* it: this is what makes an object change once, and it is the inductive   *)
(* invariant of the store.                                                 *)
(***************************************************************************)
EXTENDS SourceIntake, ContentPolicy_proofs, TLAPS

\* A file that is being written is one call's own.
OneWriter ==
    \A c \in Caller : put[c].pc = "writing" =>
        /\ Object(c) = Partial
        /\ \A d \in Caller : put[d].pc = "writing" /\ put[d].key = put[c].key => d = c

\* What was answered is there.
StoredIsThere == \A c \in Caller : put[c].pc = "stored" => Object(c) = put[c].bytes

StoreInv == ObjectsTypeOK /\ OneWriter /\ StoredIsThere

-----------------------------------------------------------------------------
\* One caller's step: what it may do to the objects and to its call.

\* A call's bytes are bytes, and its key a key.
LEMMA InFlightCall ==
    ASSUME ObjectsTypeOK, NEW c \in Caller, put[c].pc # "none"
    PROVE  /\ put[c] = [pc |-> put[c].pc, key |-> put[c].key, bytes |-> put[c].bytes]
           /\ put[c].pc \in InFlight \cup {"stored", "refused", "failed"}
           /\ put[c].key \in ObjectKey
           /\ put[c].bytes \in Bytes
           /\ Object(c) \in Bytes \cup {Partial, None}
  BY DEF ObjectsTypeOK, Put, NoPut, Object

\* The initial state satisfies the invariant of the store.
LEMMA StoreInvInit == ObjectsInit => StoreInv
  BY DEF ObjectsInit, StoreInv, ObjectsTypeOK, Put, OneWriter, StoredIsThere, NoPut

(***************************************************************************)
(* Every step of a call changes that call alone, and an object only by     *)
(* creating or by finishing it, or by writing it whole where there is none.*)
(***************************************************************************)
Touches(c) == /\ put' = [put EXCEPT ![c] = put'[c]]
              /\ backend' = backend
              /\ put'[c] \in Put

\* What a step of c does to the objects, with the call it leaves behind.
Changes(c) ==
    \/ /\ UNCHANGED objects
       /\ put'[c].pc = "writing" => put[c].pc = "writing" /\ put'[c] = put[c]
       /\ put'[c].pc = "stored" =>
             Object(c) = put[c].bytes /\ put'[c] = [put[c] EXCEPT !.pc = "stored"]
    \/ /\ put[c].pc = "write" /\ Object(c) = None /\ backend = "filesystem"
       /\ objects' = [objects EXCEPT ![put[c].key] = Partial]
       /\ put'[c] = [put[c] EXCEPT !.pc = "writing"]
    \/ /\ put[c].pc = "write" /\ Object(c) = None
       /\ Store(c)
       /\ put'[c] \in {[put[c] EXCEPT !.pc = "stored"], [put[c] EXCEPT !.pc = "failed"],
                       put[c], NoPut}
    \/ /\ put[c].pc = "writing"
       /\ Store(c)
       /\ put'[c] = [put[c] EXCEPT !.pc = "stored"]

CallerStep(c) == \/ \E k \in ObjectKey, b \in Bytes : PutImmutable(c, k, b)
                 \/ PutStep(c) \/ Throw(c) \/ Stop(c)

\* Every step of the store has one of those shapes.
LEMMA Shapes ==
    ASSUME ObjectsTypeOK, NEW c \in Caller, CallerStep(c)
    PROVE  Touches(c) /\ Changes(c)
  <1>t. put \in [Caller -> Put] /\ put[c] \in Put
    BY DEF ObjectsTypeOK
  <1>1. ASSUME NEW k \in ObjectKey, NEW b \in Bytes, PutImmutable(c, k, b)
        PROVE  Touches(c) /\ Changes(c)
    BY <1>1, <1>t DEF PutImmutable, Touches, Changes, Put, InFlight
  <1>2. CASE Look(c)
    <2>1. put[c] = [pc |-> "look", key |-> put[c].key, bytes |-> put[c].bytes]
          /\ put[c].key \in ObjectKey /\ put[c].bytes \in Bytes
      BY <1>2, InFlightCall DEF Look
    <2> QED
      BY <1>2, <1>t, <2>1 DEF Look, To, Compared, Touches, Changes, Put, InFlight
  <1>3. CASE Create(c)
    <2>1. put[c] = [pc |-> "write", key |-> put[c].key, bytes |-> put[c].bytes]
          /\ put[c].key \in ObjectKey /\ put[c].bytes \in Bytes
      BY <1>3, InFlightCall DEF Create
    <2> QED
      BY <1>3, <1>t, <2>1 DEF Create, To, Touches, Changes, Put, InFlight
  <1>4. CASE Close(c)
    <2>1. put[c] = [pc |-> "writing", key |-> put[c].key, bytes |-> put[c].bytes]
          /\ put[c].key \in ObjectKey /\ put[c].bytes \in Bytes
      BY <1>4, InFlightCall DEF Close
    <2> QED
      BY <1>4, <1>t, <2>1 DEF Close, To, Touches, Changes, Put, InFlight
  <1>5. CASE PutObject(c)
    <2>1. put[c] = [pc |-> "write", key |-> put[c].key, bytes |-> put[c].bytes]
          /\ put[c].key \in ObjectKey /\ put[c].bytes \in Bytes
      BY <1>5, InFlightCall DEF PutObject
    <2> QED
      BY <1>5, <1>t, <2>1 DEF PutObject, To, Touches, Changes, Put, InFlight
  <1>6. CASE LookAgain(c)
    <2>1. put[c] = [pc |-> "relook", key |-> put[c].key, bytes |-> put[c].bytes]
          /\ put[c].key \in ObjectKey /\ put[c].bytes \in Bytes
      BY <1>6, InFlightCall DEF LookAgain
    <2> QED
      BY <1>6, <1>t, <2>1 DEF LookAgain, To, Compared, Touches, Changes, Put, InFlight
  <1>7. CASE Throw(c)
    <2>1. /\ put[c].pc \in InFlight
          /\ put[c] = [pc |-> put[c].pc, key |-> put[c].key, bytes |-> put[c].bytes]
          /\ put[c].key \in ObjectKey /\ put[c].bytes \in Bytes
      BY <1>7, InFlightCall DEF Throw, InFlight
    <2> QED
      BY <1>7, <1>t, <2>1 DEF Throw, Unanswered, To, Touches, Changes, Put, InFlight
  <1>8. CASE Stop(c)
    BY <1>8, <1>t DEF Stop, Unanswered, Touches, Changes, Put, InFlight, NoPut
  <1> QED
    BY <1>1, <1>2, <1>3, <1>4, <1>5, <1>6, <1>7, <1>8 DEF CallerStep, PutStep

\* Every step of the store keeps its invariant.
LEMMA StoreInvNext ==
    ASSUME StoreInv, [ObjectsNext]_objectVars
    PROVE  StoreInv'
  <1>1. CASE UNCHANGED objectVars
    BY <1>1 DEF StoreInv, ObjectsTypeOK, OneWriter, StoredIsThere, Object, objectVars
  <1>2. CASE ObjectsNext
    <2>1. PICK c \in Caller : CallerStep(c)
      BY <1>2 DEF ObjectsNext, CallerStep
    <2>2. Touches(c) /\ Changes(c)
      BY <2>1, Shapes DEF StoreInv
    <2>3. /\ put \in [Caller -> Put]
          /\ objects \in [ObjectKey -> Bytes \cup {Partial, None}]
          /\ backend \in {"filesystem", "s3"}
          /\ OneWriter /\ StoredIsThere
      BY DEF StoreInv, ObjectsTypeOK
    <2>4. put' \in [Caller -> Put] /\ backend' \in {"filesystem", "s3"}
      BY <2>2, <2>3 DEF Touches
    <2>5. \A d \in Caller : d # c => put'[d] = put[d]
      BY <2>2, <2>3 DEF Touches
    <2>6. \A d \in Caller : put[d].pc # "none" =>
             put[d].key \in ObjectKey /\ put[d].bytes \in Bytes
      BY InFlightCall DEF StoreInv
    <2>7. CASE UNCHANGED objects
               /\ (put'[c].pc = "writing" => put[c].pc = "writing" /\ put'[c] = put[c])
               /\ (put'[c].pc = "stored" =>
                      Object(c) = put[c].bytes /\ put'[c] = [put[c] EXCEPT !.pc = "stored"])
      <3>1. \A d \in Caller : put'[d].pc = "writing" => put[d].pc = "writing" /\ put'[d] = put[d]
        BY <2>5, <2>7
      <3>2. OneWriter'
        BY <2>3, <2>7, <3>1 DEF OneWriter, Object
      <3>3. put'[c].pc = "stored" => put'[c].key = put[c].key /\ put'[c].bytes = put[c].bytes
        BY <2>3, <2>7 DEF Put, NoPut
      <3>4. StoredIsThere'
        BY <2>3, <2>5, <2>7, <3>3 DEF StoredIsThere, Object
      <3> QED
        BY <2>3, <2>4, <2>7, <3>2, <3>4 DEF StoreInv, ObjectsTypeOK
    <2>8. CASE /\ put[c].pc = "write" /\ Object(c) = None
               /\ objects' = [objects EXCEPT ![put[c].key] = Partial]
               /\ put'[c] = [put[c] EXCEPT !.pc = "writing"]
      <3>1. objects' \in [ObjectKey -> Bytes \cup {Partial, None}]
        BY <2>3, <2>6, <2>8
      <3>2. put'[c].key = put[c].key /\ put'[c].pc = "writing"
        BY <2>3, <2>8 DEF Put, NoPut
      <3>3. \A d \in Caller : put[d].pc \in {"writing", "stored"} => put[d].key # put[c].key
        BY <2>3, <2>6, <2>8, PartialAssumption DEF OneWriter, StoredIsThere, Object
      <3>4. OneWriter'
        <4>1. Object(c)' = Partial
          BY <2>3, <2>6, <2>8, <3>2 DEF Object
        <4>2. ASSUME NEW d \in Caller, d # c, put'[d].pc = "writing"
              PROVE  /\ Object(d)' = Partial
                     /\ put'[d].key # put'[c].key
                     /\ \A e \in Caller : put'[e].pc = "writing" /\ put'[e].key = put'[d].key
                                           => e = d
          <5>1. put'[d] = put[d] /\ put[d].pc = "writing" /\ put[d].key # put[c].key
            BY <4>2, <2>5, <3>3
          <5>2. Object(d)' = Partial
            BY <5>1, <2>3, <2>8 DEF Object, OneWriter
          <5> QED
            BY <5>1, <5>2, <2>3, <2>5, <3>2 DEF OneWriter
        <4> QED
          BY <4>1, <4>2 DEF OneWriter
      <3>5. StoredIsThere'
        BY <2>3, <2>5, <2>6, <2>8, <3>2, <3>3 DEF StoredIsThere, Object
      <3> QED
        BY <2>4, <3>1, <3>4, <3>5 DEF StoreInv, ObjectsTypeOK
    <2>9. CASE /\ put[c].pc = "write" /\ Object(c) = None
               /\ Store(c)
               /\ put'[c] \in {[put[c] EXCEPT !.pc = "stored"], [put[c] EXCEPT !.pc = "failed"],
                               put[c], NoPut}
      <3>1. objects' \in [ObjectKey -> Bytes \cup {Partial, None}]
        BY <2>3, <2>6, <2>9 DEF Store
      <3>2. /\ put'[c].pc # "writing"
            /\ put'[c].pc = "stored" => put'[c].key = put[c].key /\ put'[c].bytes = put[c].bytes
        BY <2>3, <2>9 DEF Put, NoPut
      <3>3. \A d \in Caller : put[d].pc \in {"writing", "stored"} => put[d].key # put[c].key
        BY <2>3, <2>6, <2>9, PartialAssumption DEF OneWriter, StoredIsThere, Object
      <3>4. OneWriter'
        BY <2>3, <2>5, <2>6, <2>9, <3>2, <3>3 DEF OneWriter, Object, Store
      <3>5. StoredIsThere'
        BY <2>3, <2>5, <2>6, <2>9, <3>2, <3>3 DEF StoredIsThere, Object, Store
      <3> QED
        BY <2>4, <3>1, <3>4, <3>5 DEF StoreInv, ObjectsTypeOK
    <2>10. CASE /\ put[c].pc = "writing"
                /\ Store(c)
                /\ put'[c] = [put[c] EXCEPT !.pc = "stored"]
      <3>1. objects' \in [ObjectKey -> Bytes \cup {Partial, None}]
        BY <2>3, <2>6, <2>10 DEF Store
      <3>2. put'[c].pc = "stored" /\ put'[c].key = put[c].key /\ put'[c].bytes = put[c].bytes
        BY <2>3, <2>10 DEF Put, NoPut
      <3>3. \A d \in Caller : d # c /\ put[d].pc \in {"writing", "stored"} =>
               put[d].key # put[c].key
        BY <2>3, <2>6, <2>10, PartialAssumption DEF OneWriter, StoredIsThere, Object
      <3>4. OneWriter'
        <4>1. ASSUME NEW d \in Caller, put'[d].pc = "writing"
              PROVE  /\ Object(d)' = Partial
                     /\ \A e \in Caller : put'[e].pc = "writing" /\ put'[e].key = put'[d].key
                                           => e = d
          <5>1. d # c /\ put'[d] = put[d] /\ put[d].key # put[c].key
            BY <4>1, <2>5, <3>2, <3>3
          <5>2. Object(d)' = Partial
            BY <4>1, <5>1, <2>3, <2>10 DEF Object, OneWriter, Store
          <5> QED
            BY <4>1, <5>1, <5>2, <2>3, <2>5, <3>2 DEF OneWriter
        <4> QED
          BY <4>1 DEF OneWriter
      <3>5. StoredIsThere'
        BY <2>3, <2>5, <2>6, <2>10, <3>2, <3>3 DEF StoredIsThere, Object, Store
      <3> QED
        BY <2>4, <3>1, <3>4, <3>5 DEF StoreInv, ObjectsTypeOK
    <2> QED
      BY <2>2, <2>7, <2>8, <2>9, <2>10 DEF Changes
  <1> QED
    BY <1>1, <1>2

\* The invariant of the object stores holds for any callers.
THEOREM StoreInvariant == ObjectsSpec => []StoreInv
  <1>1. ObjectsInit => StoreInv
    BY StoreInvInit
  <1>2. StoreInv /\ [ObjectsNext]_objectVars => StoreInv'
    BY StoreInvNext
  <1> QED
    BY <1>1, <1>2, PTL DEF ObjectsSpec

-----------------------------------------------------------------------------
\* The stores implement the port.

\* A call as its caller sees it.
LEMMA PromisedCall ==
    ASSUME NEW k, NEW b,
           NEW pc \in InFlight \cup {"stored", "refused", "failed"}
    PROVE  Promised([pc |-> pc, key |-> k, bytes |-> b])
           = [pc |-> IF pc \in InFlight THEN "asked"
                     ELSE IF pc = "stored" THEN "answered" ELSE "refused",
              key |-> k, bytes |-> b]
  BY DEF Promised, InFlight

\* No call.
LEMMA PromisedNone == Promised(NoPut) = Immutable!NoCall
  BY DEF Promised, NoPut, InFlight, Immutable!NoCall

\* A step that changes one call changes one call.
LEMMA OneCall ==
    ASSUME put \in [Caller -> Put], NEW c \in Caller, NEW p,
           put' = [put EXCEPT ![c] = p]
    PROVE  /\ Calls' = [Calls EXCEPT ![c] = Promised(p)]
           /\ Calls[c] = Promised(put[c])
  <1>1. \A d \in Caller : put'[d] = IF d = c THEN p ELSE put[d]
    OBVIOUS
  <1>2. Calls' = [d \in Caller |-> Promised(put'[d])]
    BY DEF Calls
  <1>3. Calls = [d \in Caller |-> Promised(put[d])]
    BY DEF Calls
  <1> QED
    BY <1>1, <1>2, <1>3

\* A call in flight that becomes p: what the port sees of its call.
LEMMA InFlightStep ==
    ASSUME ObjectsTypeOK, NEW c \in Caller, put[c].pc \in InFlight,
           NEW pc \in InFlight \cup {"stored", "refused", "failed"},
           put' = [put EXCEPT ![c].pc = pc]
    PROVE  /\ Calls[c] = [pc |-> "asked", key |-> put[c].key, bytes |-> put[c].bytes]
           /\ pc \in InFlight => UNCHANGED Calls
           /\ pc = "stored" => Calls' = [Calls EXCEPT ![c].pc = "answered"]
           /\ pc \in {"refused", "failed"} => Calls' = [Calls EXCEPT ![c].pc = "refused"]
  <1> DEFINE k == put[c].key
             b == put[c].bytes
             Rec(x) == [pc |-> x, key |-> k, bytes |-> b]
  <1>1. put \in [Caller -> Put] /\ put[c] = Rec(put[c].pc)
    BY InFlightCall DEF ObjectsTypeOK, InFlight
  <1>2. put' = [put EXCEPT ![c] = Rec(pc)]
    <2>1. [put[c] EXCEPT !.pc = pc] = Rec(pc)
      BY <1>1
    <2>2. put' = [put EXCEPT ![c] = [put[c] EXCEPT !.pc = pc]]
      OBVIOUS
    <2> QED
      BY <2>1, <2>2
  <1>3. Calls' = [Calls EXCEPT ![c] = Promised(Rec(pc))] /\ Calls[c] = Promised(put[c])
    BY <1>1, <1>2, OneCall
  <1>4. Calls[c] = Rec("asked")
    <2>1. Promised(Rec(put[c].pc)) = Rec("asked")
      BY PromisedCall
    <2> QED
      BY <1>1, <1>3, <2>1
  <1>5. Promised(Rec(pc)) = IF pc \in InFlight THEN Rec("asked")
                            ELSE IF pc = "stored" THEN Rec("answered") ELSE Rec("refused")
    BY PromisedCall
  <1>6. Calls = [d \in Caller |-> Calls[d]]
    BY DEF Calls
  <1>7. CASE pc \in InFlight
    <2>1. Calls' = [Calls EXCEPT ![c] = Calls[c]]
      BY <1>3, <1>4, <1>5, <1>7
    <2> QED
      BY <1>4, <1>6, <1>7, <2>1 DEF InFlight
  <1>8. CASE pc = "stored"
    <2>1. Calls' = [Calls EXCEPT ![c] = Rec("answered")]
      BY <1>3, <1>5, <1>8 DEF InFlight
    <2>2. [Calls[c] EXCEPT !.pc = "answered"] = Rec("answered")
      BY <1>4
    <2>3. Calls' = [Calls EXCEPT ![c].pc = "answered"]
      BY <2>1, <2>2
    <2> QED
      BY <1>4, <1>8, <2>3 DEF InFlight
  <1>9. CASE pc \in {"refused", "failed"}
    <2>1. Calls' = [Calls EXCEPT ![c] = Rec("refused")]
      BY <1>3, <1>5, <1>9 DEF InFlight
    <2>2. [Calls[c] EXCEPT !.pc = "refused"] = Rec("refused")
      BY <1>4
    <2>3. Calls' = [Calls EXCEPT ![c].pc = "refused"]
      BY <2>1, <2>2
    <2> QED
      BY <1>4, <1>9, <2>3 DEF InFlight
  <1> QED
    BY <1>4, <1>7, <1>8, <1>9

\* A call whose process dies is forgotten.
LEMMA StopStep ==
    ASSUME ObjectsTypeOK, NEW c \in Caller, put' = [put EXCEPT ![c] = NoPut]
    PROVE  Calls' = [Calls EXCEPT ![c] = Immutable!NoCall]
  BY OneCall, PromisedNone DEF ObjectsTypeOK

\* The bytes of a call become the object where the port sees none.
LEMMA StoreStep ==
    ASSUME ObjectsTypeOK, NEW c \in Caller, put[c].pc \in InFlight,
           Object(c) \in {None, Partial}, Store(c)
    PROVE  /\ Whole[put[c].key] = None
           /\ Whole' = [Whole EXCEPT ![put[c].key] = put[c].bytes]
           /\ Whole'[put[c].key] = put[c].bytes
  <1>1. put[c].key \in ObjectKey /\ put[c].bytes \in Bytes /\ put[c].bytes # Partial
    BY InFlightCall, PartialAssumption DEF InFlight
  <1>2. objects \in [ObjectKey -> Bytes \cup {Partial, None}]
    BY DEF ObjectsTypeOK
  <1>3. objects' = [objects EXCEPT ![put[c].key] = put[c].bytes]
    BY DEF Store
  <1>4. Whole' = [k \in ObjectKey |-> IF objects'[k] = Partial THEN None ELSE objects'[k]]
    BY DEF Whole
  <1> QED
    BY <1>1, <1>2, <1>3, <1>4 DEF Whole, Object

\* What is there when a call compares it is what the port sees.
LEMMA SameBytes ==
    ASSUME ObjectsTypeOK, NEW c \in Caller, put[c].pc \in InFlight,
           Object(c) = put[c].bytes
    PROVE  Whole[put[c].key] = put[c].bytes
  <1>1. put[c].key \in ObjectKey /\ put[c].bytes \in Bytes /\ put[c].bytes # Partial
    BY InFlightCall, PartialAssumption DEF InFlight
  <1> QED
    BY <1>1 DEF Whole, Object

\* A call in flight that goes on, is answered or refused is served by the port.
LEMMA ServeStep ==
    ASSUME ObjectsTypeOK, NEW c \in Caller, put[c].pc \in InFlight,
           Calls[c] = [pc |-> "asked", key |-> put[c].key, bytes |-> put[c].bytes],
           UNCHANGED Whole \/ (Object(c) \in {None, Partial} /\ Store(c)),
           \/ UNCHANGED Calls
           \/ Calls' = [Calls EXCEPT ![c].pc = "refused"]
           \/ Calls' = [Calls EXCEPT ![c] = Immutable!NoCall]
           \/ Whole'[put[c].key] = put[c].bytes /\ Calls' = [Calls EXCEPT ![c].pc = "answered"]
    PROVE  Immutable!Next
  <1>1. Calls[c].pc = "asked" /\ Calls[c].key = put[c].key /\ Calls[c].bytes = put[c].bytes
    OBVIOUS
  <1>2. Immutable!Write(c) \/ UNCHANGED Whole
    BY <1>1, StoreStep DEF Immutable!Write
  <1>3. Immutable!Answer(c) \/ Immutable!GoOn(c)
    BY <1>1 DEF Immutable!Answer, Immutable!GoOn
  <1> QED
    BY <1>1, <1>2, <1>3 DEF Immutable!Next, Immutable!Serve

\* Every step of the store is a step of the port, or none.
LEMMA PortStep ==
    ASSUME StoreInv, [ObjectsNext]_objectVars
    PROVE  [Immutable!Next]_<<Whole, Calls>>
  <1> USE DEF StoreInv
  <1>1. CASE UNCHANGED objectVars
    BY <1>1 DEF objectVars, Whole, Calls
  <1>2. CASE ObjectsNext
    <2>1. PICK c \in Caller : CallerStep(c)
      BY <1>2 DEF ObjectsNext, CallerStep
    <2>2. put \in [Caller -> Put]
      BY DEF ObjectsTypeOK
    <2>3. ASSUME NEW k \in ObjectKey, NEW b \in Bytes, PutImmutable(c, k, b)
          PROVE  Immutable!Next
      <3>1. put' = [put EXCEPT ![c] = [pc |-> "look", key |-> k, bytes |-> b]]
        BY <2>3 DEF PutImmutable
      <3>2. Promised([pc |-> "look", key |-> k, bytes |-> b])
            = [pc |-> "asked", key |-> k, bytes |-> b]
        BY PromisedCall DEF InFlight
      <3>3. Calls' = [Calls EXCEPT ![c] = [pc |-> "asked", key |-> k, bytes |-> b]]
            /\ Calls[c] = Promised(put[c])
        <4> DEFINE p == [pc |-> "look", key |-> k, bytes |-> b]
        <4>1. put' = [put EXCEPT ![c] = p]
          BY <3>1
        <4> HIDE DEF p
        <4>2. Calls' = [Calls EXCEPT ![c] = Promised(p)] /\ Calls[c] = Promised(put[c])
          BY <2>2, <4>1, OneCall
        <4> QED
          BY <3>2, <4>2 DEF p
      <3>4. Calls[c].pc # "asked"
        <4>1. CASE put[c].pc = "none"
          <5>1. put[c] = NoPut
            BY <2>2, <4>1 DEF Put, InFlight
          <5> QED
            BY <3>3, <5>1, PromisedNone DEF Immutable!NoCall
        <4>2. CASE put[c].pc # "none"
          <5>1. put[c] = [pc |-> put[c].pc, key |-> put[c].key, bytes |-> put[c].bytes]
                /\ put[c].pc \in {"stored", "refused", "failed"}
            BY <2>3, <4>2, InFlightCall DEF PutImmutable
          <5>2. Promised([pc |-> put[c].pc, key |-> put[c].key, bytes |-> put[c].bytes])
                = [pc |-> IF put[c].pc = "stored" THEN "answered" ELSE "refused",
                   key |-> put[c].key, bytes |-> put[c].bytes]
            <6>1. put[c].pc \notin InFlight
              BY <2>3 DEF PutImmutable
            <6> QED
              BY <5>1, <6>1, PromisedCall
          <5> QED
            BY <3>3, <5>1, <5>2
        <4> QED
          BY <4>1, <4>2
      <3>5. UNCHANGED Whole
        BY <2>3 DEF PutImmutable, Whole
      <3> QED
        BY <3>3, <3>4, <3>5 DEF Immutable!Next, Immutable!Ask
    <2>4. CASE Look(c)
      <3>1. put[c].pc \in InFlight /\ UNCHANGED Whole
        BY <2>4 DEF Look, InFlight, Whole
      <3>2. CASE Object(c) = None
        <4>1. put' = [put EXCEPT ![c].pc = "write"]
          BY <2>4, <3>2 DEF Look, To
        <4> QED
          BY <3>1, <4>1, InFlightStep DEF InFlight
      <3>3. CASE Object(c) # None /\ Object(c) = put[c].bytes
        <4>1. put' = [put EXCEPT ![c].pc = "stored"]
          BY <2>4, <3>3 DEF Look, To, Compared
        <4> QED
          BY <3>1, <3>3, <4>1, InFlightStep, SameBytes, ServeStep
      <3>4. CASE Object(c) # None /\ Object(c) # put[c].bytes
        <4>1. put' = [put EXCEPT ![c].pc = "refused"]
          BY <2>4, <3>4 DEF Look, To, Compared
        <4> QED
          BY <3>1, <4>1, InFlightStep, ServeStep
      <3> QED
        BY <3>2, <3>3, <3>4
    <2>5. CASE Create(c)
      <3>1. put[c].pc \in InFlight
        BY <2>5 DEF Create, InFlight
      <3>2. CASE /\ Object(c) = None
                 /\ objects' = [objects EXCEPT ![put[c].key] = Partial]
                 /\ To(c, "writing")
        <4>1. UNCHANGED Whole
          BY <3>1, <3>2, InFlightCall DEF Whole, Object, ObjectsTypeOK, InFlight
        <4> QED
          BY <3>1, <3>2, <4>1, InFlightStep DEF To, InFlight
      <3>3. CASE To(c, "failed") /\ UNCHANGED objects
        BY <3>1, <3>3, InFlightStep, ServeStep DEF To, Whole
      <3> QED
        BY <2>5, <3>2, <3>3 DEF Create
    <2>6. CASE Close(c)
      <3>1. put[c].pc \in InFlight /\ Object(c) = Partial
        BY <2>6 DEF Close, InFlight, OneWriter
      <3>2. put' = [put EXCEPT ![c].pc = "stored"] /\ Store(c)
        BY <2>6 DEF Close, To
      <3> QED
        BY <3>1, <3>2, InFlightStep, StoreStep, ServeStep
    <2>7. CASE PutObject(c)
      <3>1. put[c].pc \in InFlight
        BY <2>7 DEF PutObject, InFlight
      <3>2. CASE Object(c) = None /\ Store(c) /\ To(c, "stored")
        BY <3>1, <3>2, InFlightStep, StoreStep, ServeStep DEF To
      <3>3. CASE To(c, "relook") /\ UNCHANGED objects
        BY <3>1, <3>3, InFlightStep DEF To, Whole, InFlight
      <3> QED
        BY <2>7, <3>2, <3>3 DEF PutObject
    <2>8. CASE LookAgain(c)
      <3>1. put[c].pc \in InFlight /\ UNCHANGED Whole
        BY <2>8 DEF LookAgain, InFlight, Whole
      <3>2. CASE Object(c) = put[c].bytes
        <4>1. put' = [put EXCEPT ![c].pc = "stored"]
          BY <2>8, <3>2 DEF LookAgain, To, Compared
        <4> QED
          BY <3>1, <3>2, <4>1, InFlightStep, SameBytes, ServeStep
      <3>3. CASE Object(c) # put[c].bytes
        <4>1. put' = [put EXCEPT ![c].pc = "refused"]
          BY <2>8, <3>3 DEF LookAgain, To, Compared
        <4> QED
          BY <3>1, <4>1, InFlightStep, ServeStep
      <3> QED
        BY <3>2, <3>3
    <2>9. CASE Throw(c)
      <3>1. put[c].pc \in InFlight
        BY <2>9 DEF Throw
      <3>2. UNCHANGED Whole \/ (Object(c) \in {None, Partial} /\ Store(c))
        BY <2>9 DEF Throw, Unanswered, Whole
      <3>3. CASE To(c, "failed")
        BY <3>1, <3>2, <3>3, InFlightStep, ServeStep DEF To
      <3>4. CASE UNCHANGED put
        <4>1. UNCHANGED Calls
          BY <3>4 DEF Calls
        <4>2. put' = [put EXCEPT ![c].pc = put[c].pc]
          <5>1. [put[c] EXCEPT !.pc = put[c].pc] = put[c]
            BY <3>1, InFlightCall DEF InFlight
          <5> QED
            BY <2>2, <3>4, <5>1
        <4>3. Calls[c] = [pc |-> "asked", key |-> put[c].key, bytes |-> put[c].bytes]
          BY <3>1, <4>2, InFlightStep
        <4> QED
          BY <3>1, <3>2, <4>1, <4>3, ServeStep
      <3> QED
        BY <2>9, <3>3, <3>4 DEF Throw
    <2>10. CASE Stop(c)
      <3>1. Calls' = [Calls EXCEPT ![c] = Immutable!NoCall]
        BY <2>10, StopStep DEF Stop
      <3>2. CASE UNCHANGED objects
        <4>1. UNCHANGED Whole
          BY <3>2 DEF Whole
        <4> QED
          BY <3>1, <4>1 DEF Immutable!Next, Immutable!Forget
      <3>3. CASE put[c].pc \in InFlight /\ Object(c) = None /\ Store(c)
        <4>1. put[c] = [pc |-> put[c].pc, key |-> put[c].key, bytes |-> put[c].bytes]
          BY <3>3, InFlightCall DEF InFlight
        <4>2. Calls[c] = [pc |-> "asked", key |-> put[c].key, bytes |-> put[c].bytes]
          <5>1. Promised([pc |-> put[c].pc, key |-> put[c].key, bytes |-> put[c].bytes])
                = [pc |-> "asked", key |-> put[c].key, bytes |-> put[c].bytes]
            BY <3>3, PromisedCall
          <5> QED
            BY <4>1, <5>1 DEF Calls
        <4> QED
          BY <3>1, <3>3, <4>2, ServeStep
      <3> QED
        BY <2>10, <3>2, <3>3 DEF Stop, Unanswered
    <2> QED
      BY <2>1, <2>3, <2>4, <2>5, <2>6, <2>7, <2>8, <2>9, <2>10 DEF CallerStep, PutStep
  <1> QED
    BY <1>1, <1>2

\* Both object stores implement what putImmutable promises: an object is written
\* once and whole, and what is answered is stored, however calls race, throw or die.
THEOREM StoreImplementsPort == ObjectsSpec => KeepsItsPromise
  <1>1. ObjectsInit => Immutable!Init
    <2> SUFFICES ASSUME ObjectsInit PROVE Immutable!Init
      OBVIOUS
    <2>1. Whole = [k \in ObjectKey |-> None]
      BY DEF ObjectsInit, Whole
    <2>2. \A c \in Caller : Promised(put[c]) = Immutable!NoCall
      BY PromisedNone DEF ObjectsInit
    <2>3. Calls = [c \in Caller |-> Immutable!NoCall]
      BY <2>2 DEF Calls
    <2> QED
      BY <2>1, <2>3 DEF Immutable!Init
  <1>2. StoreInv /\ [ObjectsNext]_objectVars => [Immutable!Next]_<<Whole, Calls>>
    BY PortStep
  <1> QED
    BY <1>1, <1>2, StoreInvariant, PTL DEF ObjectsSpec, KeepsItsPromise, Immutable!Spec

-----------------------------------------------------------------------------
\* Uploads and conversions.

\* What is being stored as a source is that source.
PutsFit == \A c \in Caller, h \in Content :
               put[c].pc # "none" /\ put[c].key = SourceKey(h) => put[c].bytes = h

SourcesHold == \A h \in Content : objects[SourceKey(h)] \in {None, Partial, h}

\* A request awaits a call for its own content.
UploadPuts == \A u \in Upload : upload[u].pc = "put" =>
                  put[u].pc # "none" /\ put[u].key = SourceKey(Hash(u))

Sent == \A u \in Upload : upload[u].pc # "idle" => upload[u].sends # 0

Answered == \A u \in Upload : upload[u].pc = "answered" => Held(u) # None

Loaded == \A j \in Conversion : conversion[j].pc = "convert" => conversion[j].loaded # None

IntakeInv == /\ TypeOK /\ StoreInv
             /\ PutsFit /\ SourcesHold /\ UploadPuts
             /\ Sent /\ Answered /\ Loaded
             /\ RecordedIsStored /\ OneSource

\* The keys of sources and artifacts are different keys of the store.
LEMMA Keys ==
    /\ \A h \in Content : SourceKey(h) \in ObjectKey
    /\ \A h \in Content, v \in ParserVersion : ArtifactKey(h, v) \in ObjectKey
    /\ \A g, h \in Content : SourceKey(g) = SourceKey(h) => g = h
    /\ \A g, h \in Content, v \in ParserVersion : ArtifactKey(g, v) # SourceKey(h)
  <1>1. ObjectKey = {SourceKey(h) : h \in Content}
                    \cup {ArtifactKey(h, v) : h \in Content, v \in ParserVersion}
    BY IntakeAssumption
  <1>2. \A g, h \in Content : SourceKey(g) = SourceKey(h) => g = h
    BY DEF SourceKey
  <1>3. \A g, h \in Content, v \in ParserVersion : ArtifactKey(g, v) # SourceKey(h)
    BY DEF SourceKey, ArtifactKey
  <1> QED
    BY <1>1, <1>2, <1>3

\* An object that is whole stays, and one that is not becomes the bytes of a call.
LEMMA ObjectChange ==
    ASSUME StoreInv, NEW c \in Caller, CallerStep(c), NEW k \in ObjectKey
    PROVE  \/ objects'[k] = objects[k]
           \/ /\ objects[k] \in {None, Partial}
              /\ put[c].pc \in InFlight /\ put[c].key = k
              /\ objects'[k] \in {Partial, put[c].bytes}
  <1>1. Changes(c)
    BY Shapes DEF StoreInv
  <1>2. objects \in [ObjectKey -> Bytes \cup {Partial, None}] /\ OneWriter
    BY DEF StoreInv, ObjectsTypeOK
  <1>3. CASE UNCHANGED objects
    BY <1>3
  <1>4. CASE /\ put[c].pc = "write" /\ Object(c) = None
             /\ objects' = [objects EXCEPT ![put[c].key] = Partial]
    BY <1>2, <1>4 DEF Object, InFlight
  <1>5. CASE put[c].pc = "write" /\ Object(c) = None /\ Store(c)
    BY <1>2, <1>5 DEF Object, Store, InFlight
  <1>6. CASE put[c].pc = "writing" /\ Store(c)
    BY <1>2, <1>6 DEF OneWriter, Object, Store, InFlight
  <1> QED
    BY <1>1, <1>3, <1>4, <1>5, <1>6 DEF Changes

\* A call that is not begun anew keeps its key and its bytes, or ends with its process.
LEMMA CallKept ==
    ASSUME StoreInv, NEW c \in Caller, PutStep(c) \/ Throw(c) \/ Stop(c)
    PROVE  /\ \A d \in Caller : d # c => put'[d] = put[d]
           /\ put'[c].pc # "none" => /\ put[c].pc # "none"
                                     /\ put'[c].key = put[c].key /\ put'[c].bytes = put[c].bytes
           /\ PutStep(c) \/ Throw(c) => put'[c].pc # "none"
  <1>1. put \in [Caller -> Put]
    BY DEF StoreInv, ObjectsTypeOK
  <1>2. ASSUME NEW pc \in InFlight \cup {"stored", "refused", "failed"},
               put[c].pc \in InFlight, put' = [put EXCEPT ![c].pc = pc]
        PROVE  /\ \A d \in Caller : d # c => put'[d] = put[d]
               /\ put[c].pc # "none" /\ put'[c].pc # "none"
               /\ put'[c].key = put[c].key /\ put'[c].bytes = put[c].bytes
    BY <1>1, <1>2 DEF Put, InFlight, NoPut
  <1>3. CASE PutStep(c)
    <2>1. put[c].pc \in InFlight
      BY <1>3 DEF PutStep, Look, Create, Close, PutObject, LookAgain, InFlight
    <2>2. \E pc \in InFlight \cup {"stored", "refused", "failed"} :
              put' = [put EXCEPT ![c].pc = pc]
      BY <1>3 DEF PutStep, Look, Create, Close, PutObject, LookAgain, To, Compared, InFlight
    <2> QED
      BY <1>2, <2>1, <2>2
  <1>4. CASE Throw(c)
    BY <1>1, <1>2, <1>4 DEF Throw, To, InFlight
  <1>5. CASE Stop(c) /\ ~PutStep(c) /\ ~Throw(c)
    BY <1>1, <1>5 DEF Stop, NoPut
  <1> QED
    BY <1>3, <1>4, <1>5

\* A call of putImmutable that is begun with the source its key names, if it names one.
Begins(c) == \E k \in ObjectKey, b \in Bytes :
                 /\ PutImmutable(c, k, b)
                 /\ \A h \in Content : k = SourceKey(h) => b = h

\* What a step of the store does to the sources.
LEMMA SourcesStay ==
    ASSUME StoreInv, PutsFit, SourcesHold, NEW c \in Caller,
           Begins(c) \/ PutStep(c) \/ Throw(c) \/ Stop(c)
    PROVE  /\ PutsFit' /\ SourcesHold'
           /\ \A h \in Content : objects[SourceKey(h)] = h => objects'[SourceKey(h)] = h
           /\ \A d \in Caller : d # c => put'[d] = put[d]
  <1>1. CallerStep(c)
    BY DEF Begins, CallerStep
  <1>2. \A h \in Content : h \notin {None, Partial}
    BY IntakeAssumption, PartialAssumption
  <1>3. ASSUME NEW h \in Content
        PROVE  /\ objects'[SourceKey(h)] \in {None, Partial, h}
               /\ objects[SourceKey(h)] = h => objects'[SourceKey(h)] = h
    BY <1>1, <1>2, ObjectChange, Keys DEF SourcesHold, PutsFit, InFlight
  <1>4. CASE Begins(c)
    <2>1. PICK k \in ObjectKey, b \in Bytes :
             PutImmutable(c, k, b) /\ \A h \in Content : k = SourceKey(h) => b = h
      BY <1>4 DEF Begins
    <2>2. put' = [put EXCEPT ![c] = [pc |-> "look", key |-> k, bytes |-> b]]
      BY <2>1 DEF PutImmutable
    <2>3. /\ \A d \in Caller : d # c => put'[d] = put[d]
          /\ put'[c].key = k /\ put'[c].bytes = b
      BY <2>2 DEF StoreInv, ObjectsTypeOK
    <2> QED
      BY <1>3, <2>1, <2>3 DEF PutsFit, SourcesHold
  <1>5. CASE PutStep(c) \/ Throw(c) \/ Stop(c)
    <2>1. /\ \A d \in Caller : d # c => put'[d] = put[d]
          /\ put'[c].pc # "none" => /\ put[c].pc # "none"
                                    /\ put'[c].key = put[c].key /\ put'[c].bytes = put[c].bytes
      BY <1>5, CallKept
    <2>2. PutsFit'
      BY <2>1 DEF PutsFit
    <2> QED
      BY <1>3, <2>1, <2>2 DEF SourcesHold
  <1> QED
    BY <1>4, <1>5

\* An upload begins its call with bytes and a key that fit.
LEMMA AdmitBegins ==
    ASSUME IntakeInv, NEW u \in Upload, Admit(u), Allowed(u)
    PROVE  Begins(u) /\ u \in Caller
  <1>1. Hash(u) \in Content /\ u \in Caller
    BY IntakeAssumption DEF IntakeInv, TypeOK, UploadRequest, Hash
  <1>2. Hash(u) \in Bytes /\ SourceKey(Hash(u)) \in ObjectKey
    BY <1>1, IntakeAssumption, Keys
  <1> QED
    BY <1>1, <1>2, Keys DEF Admit, Begins

\* So does a conversion, of what it loaded.
LEMMA ConvertBegins ==
    ASSUME IntakeInv, NEW j \in Conversion, Convert(j),
           NEW r \in Release, PutImmutable(j, Artifact(j), <<conversion[j].loaded, r>>)
    PROVE  Begins(j) /\ j \in Caller
  <1>1. /\ j \in Caller
        /\ conversion[j] \in ConversionJob
        /\ conversion[j].pc = "convert"
    BY IntakeAssumption DEF IntakeInv, TypeOK, Convert
  <1>2. conversion[j].loaded \in Content \cup {Partial}
    BY <1>1 DEF IntakeInv, Loaded, ConversionJob
  <1>3. <<conversion[j].loaded, r>> \in Bytes
    BY <1>2, IntakeAssumption DEF Markdown
  <1>4. Artifact(j) \in ObjectKey /\ \A h \in Content : Artifact(j) # SourceKey(h)
    BY <1>1, Keys DEF Artifact, ConversionJob
  <1> QED
    BY <1>1, <1>3, <1>4 DEF Begins

\* Every step of the runtime leaves the object store alone or is a step of it.
LEMMA StoreSteps ==
    ASSUME IntakeInv, [Next]_vars
    PROVE  [ObjectsNext]_objectVars
  <1>1. \A c \in Caller : Begins(c) \/ PutStep(c) \/ Throw(c) \/ Stop(c) => ObjectsNext
    BY DEF ObjectsNext, Begins
  <1>2. Upload \subseteq Caller /\ Conversion \subseteq Caller
    BY IntakeAssumption
  <1>3. CASE UNCHANGED vars
    BY <1>3 DEF vars, objectVars
  <1>4. ASSUME NEW u \in Upload, Send(u) \/ PutFails(u) \/ PersistSource(u) \/ DatabaseThrows(u)
        PROVE  UNCHANGED objectVars
    BY <1>4 DEF Send, PutFails, PersistSource, DatabaseThrows, objectVars
  <1>5. ASSUME NEW u \in Upload, Admit(u)
        PROVE  [ObjectsNext]_objectVars
    <2>1. CASE Allowed(u)
      BY <1>1, <1>5, <2>1, AdmitBegins
    <2>2. CASE ~Allowed(u)
      BY <1>5, <2>2 DEF Admit
    <2> QED
      BY <2>1, <2>2
  <1>6. ASSUME NEW c \in Caller, Storing(c) \/ StoreThrows(c)
        PROVE  ObjectsNext
    BY <1>1, <1>6 DEF Storing, StoreThrows
  <1>7. ASSUME NEW u \in Upload, ApiStops(u)
        PROVE  ObjectsNext
    BY <1>1, <1>2, <1>7 DEF ApiStops
  <1>8. ASSUME NEW j \in Conversion, WorkerStops(j)
        PROVE  ObjectsNext
    BY <1>1, <1>2, <1>8 DEF WorkerStops
  <1>9. ASSUME NEW j \in Conversion, Run(j) \/ Load(j) \/ Finish(j)
        PROVE  UNCHANGED objectVars
    BY <1>9 DEF Run, Load, Finish, objectVars
  <1>10. ASSUME NEW j \in Conversion, Convert(j)
         PROVE  [ObjectsNext]_objectVars
    BY <1>1, <1>10, ConvertBegins DEF Convert
  <1>11. ASSUME NEW h \in Content, Authorize(h)
         PROVE  UNCHANGED objectVars
    BY <1>11 DEF Authorize, objectVars
  <1> QED
    BY <1>2, <1>3, <1>4, <1>5, <1>6, <1>7, <1>8, <1>9, <1>10, <1>11 DEF Next, Serve, Handle

-----------------------------------------------------------------------------
\* The invariant of the intake is inductive.

\* The initial states satisfy it.
LEMMA IntakeInvInit == Init => IntakeInv
  <1> SUFFICES ASSUME Init PROVE IntakeInv
    OBVIOUS
  <1>1. StoreInv
    BY StoreInvInit DEF Init
  <1>2. TypeOK
    <2>1. upload \in [Upload -> UploadRequest]
      BY IntakeAssumption DEF Init, UploadRequest
    <2>2. conversion \in [Conversion -> ConversionJob]
      BY IntakeAssumption DEF Init, ConversionJob
    <2>3. /\ records \in [Content -> SourceRecord \cup {None}] /\ EnvironmentTypeOK
          /\ granted \subseteq Content
      BY FaultAssumption DEF Init, EnvironmentInit, EnvironmentTypeOK
    <2> QED
      BY <1>1, <2>1, <2>2, <2>3 DEF TypeOK, StoreInv
  <1>3. \A u \in Upload : upload[u].pc = "idle"
    BY DEF Init
  <1>4. \A j \in Conversion : conversion[j].pc = "idle"
    BY DEF Init
  <1>5. PutsFit /\ SourcesHold /\ RecordedIsStored
    BY Keys DEF Init, ObjectsInit, PutsFit, SourcesHold, RecordedIsStored, NoPut
  <1>6. UploadPuts /\ Sent /\ Answered /\ OneSource
    BY <1>3 DEF UploadPuts, Sent, Answered, OneSource
  <1>7. Loaded
    BY <1>4 DEF Loaded
  <1> QED
    BY <1>1, <1>2, <1>5, <1>6, <1>7 DEF IntakeInv

\* The policy decides on any headers.
LEMMA AdmissionDecides ==
    ASSUME NEW m \in Metadata
    PROVE  Admission(m).ingest \in Gate /\ Admission(m).transfer \in Gate
  <1>1. m \in Headers
    BY IntakeAssumption
  <1>2. CASE m.contentType = "supported"
    <2> DEFINE r == [contentClass |-> m.contentClass, topology |-> Topology,
                     route |-> m.route, basis |-> NoBasis, itemLicence |-> m.itemLicence]
    <2>1. NoBasis \in RightsBasis
      BY DEF NoBasis, RightsBasis, RightsBasisKind
    <2>2. r \in AdmissionRequest
      BY <1>1, <2>1, IntakeAssumption DEF Headers, AdmissionRequest
    <2>3. Admission(m) = DecideAdmission(r)
      BY <1>2 DEF Admission
    <2> HIDE DEF r
    <2> QED
      BY <2>2, <2>3, GatesTyped
  <1>3. CASE m.contentType # "supported"
    BY <1>3 DEF Admission, Decision, Refuse, Gate, RightsBasisKind
  <1> QED
    BY <1>2, <1>3

\* A fault is one more of those allowed.
LEMMA FaultTyped ==
    ASSUME EnvironmentTypeOK, NEW kind, UNCHANGED faults \/ Fault(kind)
    PROVE  EnvironmentTypeOK'
  BY FaultAssumption DEF EnvironmentTypeOK, Fault

\* Changes of one request that have nothing to do with the record of its content.
LEMMA RequestStep ==
    ASSUME IntakeInv, NEW u \in Upload, UNCHANGED records,
           NEW pc \in {"admit", "put", "denied", "failed"}, NEW n \in 1 .. MaxSends,
           upload' = [upload EXCEPT ![u] = [@ EXCEPT !.pc = pc, !.sends = n]]
    PROVE  /\ upload' \in [Upload -> UploadRequest]
           /\ Sent' /\ Answered' /\ OneSource'
           /\ \A v \in Upload : v # u => upload'[v] = upload[v]
           /\ upload'[u].pc = pc /\ Hash(u)' = Hash(u)
  <1>1. upload \in [Upload -> UploadRequest]
    BY DEF IntakeInv, TypeOK
  <1>2. /\ \A v \in Upload : v # u => upload'[v] = upload[v]
        /\ upload'[u].pc = pc /\ upload'[u].content = upload[u].content
        /\ upload'[u].sends = n
    BY <1>1 DEF UploadRequest
  <1>3. upload' \in [Upload -> UploadRequest]
    <2>1. n \in 0 .. MaxSends
      BY IntakeAssumption
    <2> QED
      BY <1>1, <2>1 DEF UploadRequest
  <1>4. Sent'
    BY <1>2, IntakeAssumption DEF Sent, IntakeInv
  <1>5. Answered' /\ OneSource'
    BY <1>2 DEF Answered, OneSource, Held, Hash, IntakeInv
  <1> QED
    BY <1>2, <1>3, <1>4, <1>5 DEF Hash

\* A request that was sent keeps the number of its sends.
LEMMA UploadingStep ==
    ASSUME IntakeInv, NEW u \in Upload, upload[u].pc # "idle",
           NEW pc \in {"admit", "put", "denied", "failed"}, Uploading(u, pc)
    PROVE  \E n \in 1 .. MaxSends :
               upload' = [upload EXCEPT ![u] = [@ EXCEPT !.pc = pc, !.sends = n]]
  <1>1. upload \in [Upload -> UploadRequest] /\ upload[u] \in UploadRequest
    BY DEF IntakeInv, TypeOK
  <1>2. upload[u].sends \in 1 .. MaxSends
    BY <1>1, IntakeAssumption DEF UploadRequest, IntakeInv, Sent
  <1>3. [upload[u] EXCEPT !.pc = pc] = [upload[u] EXCEPT !.pc = pc, !.sends = upload[u].sends]
    BY <1>1 DEF UploadRequest
  <1>4. upload' = [upload EXCEPT ![u] = [upload[u] EXCEPT !.pc = pc]]
    BY DEF Uploading
  <1>5. upload' = [upload EXCEPT ![u] = [upload[u] EXCEPT !.pc = pc, !.sends = upload[u].sends]]
    BY <1>3, <1>4
  <1> QED
    BY <1>2, <1>5

\* What holds of sources and records after a step of the store that leaves records.
StoreFrame == /\ PutsFit /\ SourcesHold /\ RecordedIsStored

\* Sources and records hold after such a step.
LEMMA StoreFrameStep ==
    ASSUME IntakeInv, UNCHANGED records, NEW c \in Caller,
           Begins(c) \/ PutStep(c) \/ Throw(c) \/ Stop(c)
    PROVE  StoreFrame'
  BY SourcesStay DEF IntakeInv, StoreFrame, RecordedIsStored

\* A step of a request.
LEMMA RequestKeeps ==
    ASSUME IntakeInv, StoreInv', NEW u \in Upload,
           \/ Send(u) \/ Admit(u) \/ PutFails(u) \/ ApiStops(u)
    PROVE  IntakeInv'
  <1>1. u \in Caller /\ Upload \subseteq Caller
    BY IntakeAssumption
  <1>2. \E pc \in {"admit", "put", "denied", "failed"}, n \in 1 .. MaxSends :
           /\ upload' = [upload EXCEPT ![u] = [@ EXCEPT !.pc = pc, !.sends = n]]
           /\ pc = "put" => Admit(u) /\ Allowed(u)
    <2>1. CASE Send(u)
      <3>1. upload[u].sends + 1 \in 1 .. MaxSends
        BY <2>1, IntakeAssumption DEF Send, IntakeInv, TypeOK, UploadRequest
      <3>2. upload' = [upload EXCEPT ![u] = [@ EXCEPT !.pc = "admit",
                                                      !.sends = upload[u].sends + 1]]
        BY <2>1 DEF Send
      <3> QED
        BY <3>1, <3>2
    <2>2. CASE Admit(u)
      <3>1. CASE Allowed(u)
        BY <2>2, <3>1, UploadingStep DEF Admit
      <3>2. CASE ~Allowed(u)
        BY <2>2, <3>2, UploadingStep DEF Admit
      <3> QED
        BY <3>1, <3>2
    <2>3. CASE PutFails(u)
      BY <2>3, UploadingStep DEF PutFails
    <2>4. CASE ApiStops(u)
      BY <2>4, UploadingStep DEF ApiStops
    <2> QED
      BY <2>1, <2>2, <2>3, <2>4
  <1>3. PICK pc \in {"admit", "put", "denied", "failed"}, n \in 1 .. MaxSends :
           /\ upload' = [upload EXCEPT ![u] = [@ EXCEPT !.pc = pc, !.sends = n]]
           /\ pc = "put" => Admit(u) /\ Allowed(u)
    BY <1>2
  <1>4. UNCHANGED <<records, conversion, granted>>
    BY DEF Send, Admit, PutFails, ApiStops
  <1>5. /\ upload' \in [Upload -> UploadRequest]
        /\ Sent' /\ Answered' /\ OneSource'
        /\ \A v \in Upload : v # u => upload'[v] = upload[v]
        /\ upload'[u].pc = pc /\ Hash(u)' = Hash(u)
    BY <1>3, <1>4, RequestStep
  <1>6. EnvironmentTypeOK'
    BY FaultTyped DEF Send, Admit, PutFails, ApiStops, IntakeInv, TypeOK
  <1>7. \/ UNCHANGED objectVars
        \/ Begins(u) \/ Stop(u)
    BY AdmitBegins DEF Send, Admit, PutFails, ApiStops, objectVars
  <1>8. StoreFrame' /\ \A d \in Caller : d # u => put'[d] = put[d]
    <2>1. CASE UNCHANGED objectVars
      BY <1>4, <2>1 DEF objectVars, IntakeInv, StoreFrame, PutsFit, SourcesHold, RecordedIsStored
    <2>2. CASE Begins(u) \/ Stop(u)
      BY <1>1, <1>4, <2>2, StoreFrameStep, SourcesStay DEF IntakeInv
    <2> QED
      BY <1>7, <2>1, <2>2
  <1>9. UploadPuts'
    <2>1. pc = "put" => put'[u].pc # "none" /\ put'[u].key = SourceKey(Hash(u))
      <3>1. SUFFICES ASSUME pc = "put" PROVE put'[u].pc # "none" /\ put'[u].key = SourceKey(Hash(u))
        OBVIOUS
      <3>2. PutImmutable(u, SourceKey(Hash(u)), Hash(u))
        BY <1>3, <3>1 DEF Admit
      <3> QED
        BY <1>1, <3>2 DEF PutImmutable, IntakeInv, StoreInv, ObjectsTypeOK
    <2>2. \A v \in Upload : v # u => put'[v] = put[v] /\ Hash(v)' = Hash(v)
      BY <1>1, <1>5, <1>8 DEF Hash
    <2> QED
      BY <1>5, <2>1, <2>2 DEF UploadPuts, IntakeInv
  <1>10. Loaded'
    BY <1>4 DEF Loaded, IntakeInv
  <1>11. TypeOK'
    BY <1>4, <1>5, <1>6 DEF TypeOK, IntakeInv, StoreInv
  <1> QED
    BY <1>5, <1>8, <1>9, <1>10, <1>11 DEF IntakeInv, StoreFrame

\* The record of a content is made when its bytes are there, and then stays.
LEMMA RecordKeeps ==
    ASSUME IntakeInv, StoreInv', NEW u \in Upload, PersistSource(u) \/ DatabaseThrows(u)
    PROVE  IntakeInv'
  <1>1. u \in Caller /\ Hash(u) \in Content /\ upload[u] \in UploadRequest
    BY IntakeAssumption DEF IntakeInv, TypeOK, UploadRequest, Hash
  <1>2. /\ upload \in [Upload -> UploadRequest]
        /\ records \in [Content -> SourceRecord \cup {None}]
    BY DEF IntakeInv, TypeOK
  <1>3. UNCHANGED <<objectVars, conversion, granted>> /\ upload[u].pc = "put" /\ put[u].pc = "stored"
    BY DEF PersistSource, DatabaseThrows, objectVars
  <1>4. OwnRecord(u) \in SourceRecord /\ OwnRecord(u) # None
    <2>1. upload[u].sends \in 1 .. MaxSends
      BY <1>1, <1>3, IntakeAssumption DEF UploadRequest, IntakeInv, Sent
    <2> QED
      BY <1>1, <2>1, AdmissionDecides, IntakeAssumption
         DEF OwnRecord, SourceRecord, OwnId, SourceId, UploadRequest
  <1>5. objects[SourceKey(Hash(u))] = Hash(u)
    BY <1>1, <1>3 DEF IntakeInv, StoreInv, StoredIsThere, UploadPuts, PutsFit, Object
  <1>6. /\ records' \in [Content -> SourceRecord \cup {None}]
        /\ \A h \in Content : records[h] # None => records'[h] = records[h]
        /\ \A h \in Content : records'[h] # records[h] => h = Hash(u)
        /\ PersistSource(u) => records'[Hash(u)] # None
    BY <1>1, <1>2, <1>4 DEF PersistSource, DatabaseThrows, Upsert
  <1>7. RecordedIsStored'
    BY <1>3, <1>5, <1>6 DEF RecordedIsStored, IntakeInv, objectVars
  <1>8. /\ upload' \in [Upload -> UploadRequest]
        /\ \A v \in Upload : v # u => upload'[v] = upload[v]
        /\ upload'[u].content = upload[u].content /\ upload'[u].sends = upload[u].sends
        /\ \/ upload'[u].pc = "failed"
           \/ PersistSource(u) /\ upload'[u].pc = "answered" /\ upload'[u].id = records'[Hash(u)].id
    <2>1. CASE PersistSource(u)
      <3>1. records'[Hash(u)].id \in SourceId
        BY <1>1, <1>6, <2>1 DEF SourceRecord
      <3> QED
        BY <1>2, <2>1, <3>1 DEF PersistSource, UploadRequest
    <2>2. CASE DatabaseThrows(u)
      BY <1>2, <2>2 DEF DatabaseThrows, Uploading, UploadRequest
    <2> QED
      BY <2>1, <2>2
  <1>9. \A v \in Upload : Hash(v)' = Hash(v) /\ Hash(v) \in Content
    BY <1>2, <1>8 DEF Hash, UploadRequest
  <1>10. Answered' /\ OneSource'
    <2>1. ASSUME NEW v \in Upload, upload'[v].pc = "answered"
          PROVE  Held(v)' # None /\ upload'[v].id = Held(v).id'
      BY <1>6, <1>8, <1>9, <2>1 DEF Held, IntakeInv, Answered, OneSource
    <2> QED
      BY <2>1 DEF Answered, OneSource
  <1>11. Sent'
    BY <1>3, <1>8 DEF Sent, IntakeInv
  <1>12. UploadPuts'
    <2>1. put' = put
      BY <1>3 DEF objectVars
    <2> QED
      BY <1>8, <1>9, <2>1 DEF UploadPuts, IntakeInv
  <1>13. PutsFit' /\ SourcesHold' /\ Loaded'
    BY <1>3 DEF objectVars, PutsFit, SourcesHold, Loaded, IntakeInv
  <1>14. TypeOK'
    <2>1. EnvironmentTypeOK'
      BY FaultTyped DEF PersistSource, DatabaseThrows, IntakeInv, TypeOK
    <2> QED
      BY <1>3, <1>6, <1>8, <2>1 DEF TypeOK, IntakeInv, StoreInv
  <1> QED
    BY <1>7, <1>10, <1>11, <1>12, <1>13, <1>14 DEF IntakeInv

\* A call that goes on for a request or a handler.
LEMMA StoringKeeps ==
    ASSUME IntakeInv, StoreInv', NEW c \in Caller, Storing(c) \/ StoreThrows(c)
    PROVE  IntakeInv'
  <1>1. UNCHANGED <<records, upload, conversion, granted>> /\ (PutStep(c) \/ Throw(c))
    BY DEF Storing, StoreThrows
  <1>2. StoreFrame'
    BY <1>1, StoreFrameStep
  <1>3. UploadPuts'
    <2>1. \A u \in Upload : u \in Caller /\ Hash(u)' = Hash(u)
      BY <1>1, IntakeAssumption DEF Hash
    <2>2. /\ \A d \in Caller : d # c => put'[d] = put[d]
          /\ put'[c].pc # "none" /\ put'[c].key = put[c].key
      BY <1>1, CallKept DEF IntakeInv
    <2> QED
      BY <1>1, <2>1, <2>2 DEF UploadPuts, IntakeInv
  <1>4. Sent' /\ Answered' /\ Loaded' /\ OneSource'
    BY <1>1 DEF Sent, Answered, Loaded, OneSource, Held, Hash, IntakeInv
  <1>5. TypeOK'
    <2>1. EnvironmentTypeOK'
      BY FaultTyped DEF Storing, StoreThrows, IntakeInv, TypeOK
    <2> QED
      BY <1>1, <2>1 DEF TypeOK, IntakeInv, StoreInv
  <1> QED
    BY <1>2, <1>3, <1>4, <1>5 DEF IntakeInv, StoreFrame

\* A step of a conversion handler.
LEMMA ConversionKeeps ==
    ASSUME IntakeInv, StoreInv', NEW j \in Conversion,
           Run(j) \/ Load(j) \/ Convert(j) \/ Finish(j) \/ WorkerStops(j)
    PROVE  IntakeInv'
  <1>1. /\ j \in Caller /\ j \notin Upload /\ Upload \subseteq Caller
        /\ conversion \in [Conversion -> ConversionJob] /\ conversion[j] \in ConversionJob
    BY IntakeAssumption DEF IntakeInv, TypeOK
  <1>2. UNCHANGED <<records, upload, granted>>
    BY DEF Run, Load, Convert, Finish, WorkerStops
  <1>3. conversion' \in [Conversion -> ConversionJob] /\ Loaded'
    <2>1. CASE Run(j)
      <3>1. conversion[j].runs + 1 \in 0 .. MaxRuns
        BY <1>1, <2>1, IntakeAssumption DEF Run, ConversionJob
      <3> QED
        BY <1>1, <2>1, <3>1 DEF Run, ConversionJob, Loaded, IntakeInv
    <2>2. CASE Load(j)
      <3>1. objects[SourceKey(conversion[j].source)] \in Content \cup {Partial, None}
        BY <1>1 DEF IntakeInv, SourcesHold, ConversionJob
      <3>2. CASE Converting(j, "failed")
        BY <1>1, <3>2 DEF Converting, ConversionJob, Loaded, IntakeInv
      <3>3. CASE /\ objects[SourceKey(conversion[j].source)] # None
                 /\ conversion' = [conversion EXCEPT ![j] =
                       [@ EXCEPT !.pc = "convert",
                                 !.loaded = objects[SourceKey(conversion[j].source)]]]
        <4> DEFINE found == objects[SourceKey(conversion[j].source)]
        <4>1. found \in Content \cup {Partial, None} /\ found # None
          BY <3>1, <3>3
        <4>2. conversion' = [conversion EXCEPT ![j] =
                                [conversion[j] EXCEPT !.pc = "convert", !.loaded = found]]
          BY <3>3
        <4> HIDE DEF found
        <4>3. conversion' \in [Conversion -> ConversionJob]
          BY <1>1, <4>1, <4>2 DEF ConversionJob
        <4>4. conversion'[j].loaded = found
          BY <1>1, <4>2 DEF ConversionJob
        <4>5. \A i \in Conversion : i # j => conversion'[i] = conversion[i]
          BY <1>1, <4>2
        <4> QED
          BY <4>1, <4>3, <4>4, <4>5 DEF Loaded, IntakeInv
      <3> QED
        BY <2>2, <3>2, <3>3 DEF Load
    <2>3. CASE Convert(j)
      <3>1. Converting(j, "put") \/ Converting(j, "failed")
        BY <2>3 DEF Convert
      <3> QED
        BY <1>1, <3>1 DEF Converting, ConversionJob, Loaded, IntakeInv
    <2>4. CASE Finish(j)
      BY <1>1, <2>4 DEF Finish, Converting, ConversionJob, Loaded, IntakeInv
    <2>5. CASE WorkerStops(j)
      BY <1>1, <2>5 DEF WorkerStops, Converting, ConversionJob, Loaded, IntakeInv
    <2> QED
      BY <2>1, <2>2, <2>3, <2>4, <2>5
  <1>4. UNCHANGED objectVars \/ Begins(j) \/ Stop(j)
    BY ConvertBegins DEF Run, Load, Convert, Finish, WorkerStops, objectVars
  <1>5. StoreFrame' /\ \A d \in Caller : d # j => put'[d] = put[d]
    <2>1. CASE UNCHANGED objectVars
      BY <1>2, <2>1 DEF objectVars, IntakeInv, StoreFrame, PutsFit, SourcesHold, RecordedIsStored
    <2>2. CASE Begins(j) \/ Stop(j)
      BY <1>1, <1>2, <2>2, StoreFrameStep, SourcesStay DEF IntakeInv
    <2> QED
      BY <1>4, <2>1, <2>2
  <1>6. UploadPuts'
    <2>1. \A u \in Upload : put'[u] = put[u] /\ Hash(u)' = Hash(u)
      BY <1>1, <1>2, <1>5 DEF Hash
    <2> QED
      BY <1>2, <2>1 DEF UploadPuts, IntakeInv
  <1>7. Sent' /\ Answered' /\ OneSource'
    BY <1>2 DEF Sent, Answered, OneSource, Held, Hash, IntakeInv
  <1>8. TypeOK'
    <2>1. EnvironmentTypeOK'
      BY FaultTyped DEF Run, Load, Convert, Finish, WorkerStops, IntakeInv, TypeOK
    <2> QED
      BY <1>2, <1>3, <2>1 DEF TypeOK, IntakeInv, StoreInv
  <1> QED
    BY <1>3, <1>5, <1>6, <1>7, <1>8 DEF IntakeInv, StoreFrame

\* The policy of egress reads a record.
LEMMA AuthorizeKeeps ==
    ASSUME IntakeInv, StoreInv', NEW h \in Content, Authorize(h)
    PROVE  IntakeInv'
  <1>1. UNCHANGED <<backend, objects, put, records, upload, conversion, faults>>
    BY DEF Authorize
  <1>2. granted' \subseteq Content
    BY DEF Authorize, IntakeInv, TypeOK
  <1>3. TypeOK'
    BY <1>1, <1>2 DEF IntakeInv, TypeOK, StoreInv, EnvironmentTypeOK
  <1>4. /\ PutsFit' /\ SourcesHold' /\ UploadPuts' /\ Sent' /\ Answered' /\ Loaded'
        /\ RecordedIsStored' /\ OneSource'
    BY <1>1 DEF IntakeInv, PutsFit, SourcesHold, UploadPuts, Hash, Sent, Answered, Held, Loaded,
                RecordedIsStored, OneSource
  <1> QED
    BY <1>3, <1>4 DEF IntakeInv

\* Every step of the runtime keeps it.
LEMMA IntakeInvNext == IntakeInv /\ [Next]_vars => IntakeInv'
  <1> SUFFICES ASSUME IntakeInv, [Next]_vars PROVE IntakeInv'
    OBVIOUS
  <1>1. StoreInv'
    BY StoreSteps, StoreInvNext DEF IntakeInv
  <1>2. CASE UNCHANGED vars
    BY <1>2 DEF vars, IntakeInv, TypeOK, ObjectsTypeOK, EnvironmentTypeOK, StoreInv, OneWriter,
                StoredIsThere, Object, PutsFit, SourcesHold, UploadPuts, Hash, Sent, Answered,
                Held, Loaded, RecordedIsStored, OneSource
  <1>3. CASE Next
    <2>1. Upload \subseteq Caller /\ Conversion \subseteq Caller
      BY IntakeAssumption
    <2>2. \A u \in Upload : Send(u) \/ Serve(u) \/ DatabaseThrows(u) \/ ApiStops(u) => IntakeInv'
      BY <1>1, <2>1, RequestKeeps, RecordKeeps, StoringKeeps DEF Serve
    <2>3. \A j \in Conversion : Run(j) \/ Handle(j) \/ WorkerStops(j) => IntakeInv'
      BY <1>1, <2>1, ConversionKeeps, StoringKeeps DEF Handle
    <2> QED
      BY <1>1, <1>3, <2>2, <2>3, StoringKeeps, AuthorizeKeeps DEF Next
  <1> QED
    BY <1>2, <1>3

\* The invariant holds of the runtime's uploads and conversions.
THEOREM IntakeInvariant == Spec => []IntakeInv
  <1> QED
    BY IntakeInvInit, IntakeInvNext, PTL DEF Spec

\* Every variable keeps its type.
THEOREM IntakeTyped == Spec => []TypeOK
  <1>1. IntakeInv => TypeOK
    BY DEF IntakeInv
  <1> QED
    BY <1>1, IntakeInvariant, PTL

\* uploadSource: a record in ivory_sources names bytes that are all in the object
\* store, whatever crashed or raced between the two.
THEOREM RecordsNameObjects == Spec => []RecordedIsStored
  <1>1. IntakeInv => RecordedIsStored
    BY DEF IntakeInv
  <1> QED
    BY <1>1, IntakeInvariant, PTL

\* persistSource: all who upload one content are told the id of its one record.
THEOREM OneSourceForAll == Spec => []OneSource
  <1>1. IntakeInv => OneSource
    BY DEF IntakeInv
  <1> QED
    BY <1>1, IntakeInvariant, PTL

\* The runtime uses the object store as its callers may, so what the port promises
\* holds in it: no source and no artifact is ever written over.
THEOREM IntakeKeepsObjects == Spec => KeepsItsPromise
  <1>1. Init => ObjectsInit
    BY DEF Init
  <1>2. IntakeInv /\ [Next]_vars => [ObjectsNext]_objectVars
    BY StoreSteps
  <1>3. Spec => ObjectsSpec
    BY <1>1, <1>2, IntakeInvariant, PTL DEF Spec, ObjectsSpec
  <1> QED
    BY <1>3, StoreImplementsPort, PTL

-----------------------------------------------------------------------------
\* Rights.

\* A record is what one upload of its content would record: one row, of one admission.
RecordsAreAdmissions ==
    \A h \in Content : records[h] # None =>
        \E u \in Upload, n \in 1 .. MaxSends :
            /\ Hash(u) = h
            /\ records[h] = [id |-> <<u, n>>, transfer |-> Admission(upload[u].metadata).transfer]

GrantsAreRecorded == \A h \in granted : records[h] # None /\ records[h].transfer.permitted

RightsInv == RecordsAreAdmissions /\ GrantsAreRecorded

\* No request changes what it uploads, nor what it says of it.
LEMMA UploadsStay ==
    ASSUME IntakeInv, [Next]_vars, NEW v \in Upload
    PROVE  Hash(v)' = Hash(v) /\ upload'[v].metadata = upload[v].metadata
  <1>1. upload \in [Upload -> UploadRequest]
    BY DEF IntakeInv, TypeOK
  <1>2. CASE UNCHANGED upload
    BY <1>2 DEF Hash
  <1>3. ASSUME NEW u \in Upload, Send(u)
        PROVE  Hash(v)' = Hash(v) /\ upload'[v].metadata = upload[v].metadata
    BY <1>1, <1>3 DEF Send, Hash, UploadRequest
  <1>4. ASSUME NEW u \in Upload, NEW pc, Uploading(u, pc)
        PROVE  Hash(v)' = Hash(v) /\ upload'[v].metadata = upload[v].metadata
    BY <1>1, <1>4 DEF Uploading, Hash, UploadRequest
  <1>5. ASSUME NEW u \in Upload, PersistSource(u)
        PROVE  Hash(v)' = Hash(v) /\ upload'[v].metadata = upload[v].metadata
    BY <1>1, <1>5 DEF PersistSource, Hash, UploadRequest
  <1>6. ASSUME NEW u \in Upload, Admit(u) \/ PutFails(u) \/ DatabaseThrows(u) \/ ApiStops(u)
        PROVE  Hash(v)' = Hash(v) /\ upload'[v].metadata = upload[v].metadata
    BY <1>4, <1>6 DEF Admit, PutFails, DatabaseThrows, ApiStops
  <1>7. ASSUME NEW c \in Caller, Storing(c) \/ StoreThrows(c)
        PROVE  UNCHANGED upload
    BY <1>7 DEF Storing, StoreThrows
  <1>8. ASSUME NEW j \in Conversion,
               Run(j) \/ Load(j) \/ Convert(j) \/ Finish(j) \/ WorkerStops(j)
        PROVE  UNCHANGED upload
    BY <1>8 DEF Run, Load, Convert, Finish, WorkerStops
  <1>9. ASSUME NEW h \in Content, Authorize(h)
        PROVE  UNCHANGED upload
    BY <1>9 DEF Authorize
  <1>10. Upload \subseteq Caller /\ Conversion \subseteq Caller
    BY IntakeAssumption
  <1>11. CASE UNCHANGED vars
    BY <1>2, <1>11 DEF vars
  <1> QED
    BY <1>2, <1>3, <1>5, <1>6, <1>7, <1>8, <1>9, <1>10, <1>11 DEF Next, Serve, Handle

\* A record comes from the upload that makes it, and is never changed.
LEMMA RecordsStay ==
    ASSUME IntakeInv, [Next]_vars, NEW h \in Content
    PROVE  \/ records'[h] = records[h]
           \/ /\ records[h] = None
              /\ \E u \in Upload :
                    Hash(u) = h /\ upload[u].pc = "put" /\ records'[h] = OwnRecord(u)
  <1>1. records \in [Content -> SourceRecord \cup {None}]
    BY DEF IntakeInv, TypeOK
  <1>2. ASSUME NEW u \in Upload, Upsert(u)
        PROVE  \/ records'[h] = records[h]
               \/ records[h] = None /\ Hash(u) = h /\ records'[h] = OwnRecord(u)
    BY <1>1, <1>2 DEF Upsert
  <1>3. ASSUME NEW u \in Upload, PersistSource(u) \/ DatabaseThrows(u)
        PROVE  upload[u].pc = "put" /\ (Upsert(u) \/ UNCHANGED records)
    BY <1>3 DEF PersistSource, DatabaseThrows
  <1>4. ASSUME NEW u \in Upload, Send(u) \/ Admit(u) \/ PutFails(u) \/ ApiStops(u)
        PROVE  UNCHANGED records
    BY <1>4 DEF Send, Admit, PutFails, ApiStops
  <1>5. ASSUME NEW c \in Caller, Storing(c) \/ StoreThrows(c)
        PROVE  UNCHANGED records
    BY <1>5 DEF Storing, StoreThrows
  <1>6. ASSUME NEW j \in Conversion,
               Run(j) \/ Load(j) \/ Convert(j) \/ Finish(j) \/ WorkerStops(j)
        PROVE  UNCHANGED records
    BY <1>6 DEF Run, Load, Convert, Finish, WorkerStops
  <1>7. ASSUME NEW g \in Content, Authorize(g)
        PROVE  UNCHANGED records
    BY <1>7 DEF Authorize
  <1>8. Upload \subseteq Caller /\ Conversion \subseteq Caller
    BY IntakeAssumption
  <1>9. CASE UNCHANGED vars
    BY <1>9 DEF vars
  <1> QED
    BY <1>2, <1>3, <1>4, <1>5, <1>6, <1>7, <1>8, <1>9 DEF Next, Serve, Handle

\* Every step keeps the rights.
LEMMA RightsInvNext == IntakeInv /\ RightsInv /\ [Next]_vars => RightsInv'
  <1> SUFFICES ASSUME IntakeInv, RightsInv, [Next]_vars PROVE RightsInv'
    OBVIOUS
  <1>1. ASSUME NEW h \in Content, records'[h] # None
        PROVE  \E u \in Upload, n \in 1 .. MaxSends :
                  /\ Hash(u)' = h
                  /\ records'[h] = [id |-> <<u, n>>,
                                    transfer |-> Admission(upload'[u].metadata).transfer]
    <2>1. CASE records'[h] = records[h]
      <3>1. PICK u \in Upload, n \in 1 .. MaxSends :
               /\ Hash(u) = h
               /\ records[h] = [id |-> <<u, n>>,
                                transfer |-> Admission(upload[u].metadata).transfer]
        BY <1>1, <2>1 DEF RightsInv, RecordsAreAdmissions
      <3> QED
        BY <2>1, <3>1, UploadsStay
    <2>2. CASE records'[h] # records[h]
      <3>1. PICK u \in Upload :
               Hash(u) = h /\ upload[u].pc = "put" /\ records'[h] = OwnRecord(u)
        BY <2>2, RecordsStay
      <3>2. upload[u].sends \in 1 .. MaxSends
        BY <3>1, IntakeAssumption DEF IntakeInv, TypeOK, UploadRequest, Sent
      <3> QED
        BY <3>1, <3>2, UploadsStay DEF OwnRecord, OwnId
    <2> QED
      BY <2>1, <2>2
  <1>2. RecordsAreAdmissions'
    BY <1>1 DEF RecordsAreAdmissions
  <1>3. \A h \in Content : records[h] # None => records'[h] = records[h]
    BY RecordsStay
  <1>4. granted' = granted \/ \E h \in Content : Authorize(h)
    <2>1. ASSUME NEW u \in Upload, Send(u) \/ Admit(u) \/ PutFails(u) \/ ApiStops(u)
                                   \/ PersistSource(u) \/ DatabaseThrows(u)
          PROVE  UNCHANGED granted
      BY <2>1 DEF Send, Admit, PutFails, ApiStops, PersistSource, DatabaseThrows
    <2>2. ASSUME NEW c \in Caller, Storing(c) \/ StoreThrows(c)
          PROVE  UNCHANGED granted
      BY <2>2 DEF Storing, StoreThrows
    <2>3. ASSUME NEW j \in Conversion,
                 Run(j) \/ Load(j) \/ Convert(j) \/ Finish(j) \/ WorkerStops(j)
          PROVE  UNCHANGED granted
      BY <2>3 DEF Run, Load, Convert, Finish, WorkerStops
    <2>4. Upload \subseteq Caller /\ Conversion \subseteq Caller
      BY IntakeAssumption
    <2>5. CASE UNCHANGED vars
      BY <2>5 DEF vars
    <2> QED
      BY <2>1, <2>2, <2>3, <2>4, <2>5 DEF Next, Serve, Handle
  <1>5. GrantsAreRecorded'
    <2>1. granted \subseteq Content
      BY DEF IntakeInv, TypeOK
    <2>2. CASE granted' = granted
      BY <1>3, <2>1, <2>2 DEF RightsInv, GrantsAreRecorded
    <2>3. CASE \E h \in Content : Authorize(h)
      BY <1>3, <2>1, <2>3 DEF RightsInv, GrantsAreRecorded, Authorize
    <2> QED
      BY <1>4, <2>2, <2>3
  <1> QED
    BY <1>2, <1>5 DEF RightsInv

\* ContentAwareAllowlistedEgressPolicy over persistSource: a transfer is authorized
\* on the admission of one upload, whose id the record carries.
THEOREM GrantsRest == Spec => []GrantsRestOnOneAdmission
  <1>1. Init => RightsInv
    BY DEF Init, RightsInv, RecordsAreAdmissions, GrantsAreRecorded
  <1>2. Spec => []RightsInv
    BY <1>1, RightsInvNext, IntakeInvariant, PTL DEF Spec
  <1>3. IntakeInv /\ RightsInv => GrantsRestOnOneAdmission
    <2> SUFFICES ASSUME IntakeInv, RightsInv, NEW h \in granted
                 PROVE  \E u \in Upload, n \in 1 .. MaxSends :
                           /\ Hash(u) = h
                           /\ Admission(upload[u].metadata).transfer.permitted
                           /\ records[h] = [id |-> <<u, n>>,
                                            transfer |-> Admission(upload[u].metadata).transfer]
      BY DEF GrantsRestOnOneAdmission
    <2>1. h \in Content /\ records[h] # None /\ records[h].transfer.permitted
      BY DEF IntakeInv, TypeOK, RightsInv, GrantsAreRecorded
    <2>2. PICK u \in Upload, n \in 1 .. MaxSends :
             /\ Hash(u) = h
             /\ records[h] = [id |-> <<u, n>>,
                              transfer |-> Admission(upload[u].metadata).transfer]
      BY <2>1 DEF RightsInv, RecordsAreAdmissions
    <2>3. records[h].transfer = Admission(upload[u].metadata).transfer
      BY <2>2
    <2> QED
      BY <2>1, <2>2, <2>3
  <1> QED
    BY <1>2, <1>3, IntakeInvariant, PTL

-----------------------------------------------------------------------------
\* Calls and those who await them.

(***************************************************************************)
(* Nobody is in a call but an upload that was admitted and awaits it, for  *)
(* its own source, and a conversion that awaits it; and what a conversion  *)
(* awaits, or returned on, is the call for its own artifact.               *)
(***************************************************************************)
UploadCalls == \A u \in Upload : put[u].pc \in InFlight =>
                   upload[u].pc = "put" /\ Allowed(u) /\ put[u].key = SourceKey(Hash(u))

ConversionCalls ==
    \A j \in Conversion :
        /\ put[j].pc \in InFlight => conversion[j].pc = "put"
        /\ conversion[j].pc \in {"put", "done"} => put[j].pc # "none" /\ put[j].key = Artifact(j)
        /\ conversion[j].pc = "done" => put[j].pc = "stored"

\* A call goes on, or throws, only while it is made, and stays for the same object.
LEMMA GoesOn ==
    ASSUME StoreInv, NEW c \in Caller, PutStep(c) \/ Throw(c)
    PROVE  /\ put[c].pc \in InFlight
           /\ put'[c].pc # "none" /\ put'[c].key = put[c].key /\ put'[c].bytes = put[c].bytes
           /\ \A d \in Caller : d # c => put'[d] = put[d]
  <1>1. put[c].pc \in InFlight
    BY DEF PutStep, Look, Create, Close, PutObject, LookAgain, Throw, InFlight
  <1> QED
    BY <1>1, CallKept

\* A request and its call change by the steps of the two alone.
LEMMA OfRequest ==
    ASSUME IntakeInv, [Next]_vars, NEW v \in Upload
    PROVE  \/ upload'[v] = upload[v] /\ put'[v] = put[v] /\ faults' \in {faults, faults + 1}
           \/ Send(v) \/ Admit(v) \/ PutFails(v) \/ PersistSource(v) \/ DatabaseThrows(v)
           \/ ApiStops(v) \/ Storing(v) \/ StoreThrows(v)
  <1> DEFINE Apart == upload'[v] = upload[v] /\ put'[v] = put[v] /\ faults' \in {faults, faults + 1}
  <1>1. /\ upload \in [Upload -> UploadRequest]
        /\ Upload \subseteq Caller /\ Conversion \subseteq Caller /\ v \in Caller /\ v \notin Conversion
        /\ StoreInv /\ PutsFit /\ SourcesHold
    BY IntakeAssumption DEF IntakeInv, TypeOK
  <1>2. CASE UNCHANGED vars
    BY <1>2 DEF vars
  <1>3. ASSUME NEW u \in Upload, u # v, Send(u) \/ PutFails(u) \/ PersistSource(u) \/ DatabaseThrows(u)
        PROVE  Apart
    BY <1>1, <1>3 DEF Send, PutFails, PersistSource, DatabaseThrows, Uploading, Fault
  <1>4. ASSUME NEW u \in Upload, u # v, Admit(u)
        PROVE  Apart
    <2>1. upload'[v] = upload[v] /\ faults' = faults
      BY <1>1, <1>4 DEF Admit, Uploading
    <2>2. CASE Allowed(u)
      <3>1. Begins(u) /\ u \in Caller
        BY <1>4, <2>2, AdmitBegins
      <3> QED
        BY <1>1, <1>4, <2>1, <3>1, SourcesStay
    <2>3. CASE ~Allowed(u)
      BY <1>4, <2>1, <2>3 DEF Admit, objectVars
    <2> QED
      BY <2>2, <2>3
  <1>5. ASSUME NEW u \in Upload, u # v, ApiStops(u)
        PROVE  Apart
    <2>1. upload'[v] = upload[v] /\ faults' = faults + 1 /\ Stop(u)
      BY <1>1, <1>5 DEF ApiStops, Uploading, Fault
    <2> QED
      BY <1>1, <1>5, <2>1, SourcesStay
  <1>6. ASSUME NEW c \in Caller, c # v, Storing(c) \/ StoreThrows(c)
        PROVE  Apart
    <2>1. upload' = upload /\ faults' \in {faults, faults + 1} /\ (PutStep(c) \/ Throw(c))
      BY <1>6 DEF Storing, StoreThrows, Fault
    <2> QED
      BY <1>1, <1>6, <2>1, GoesOn
  <1>7. ASSUME NEW j \in Conversion, Run(j) \/ Load(j) \/ Finish(j)
        PROVE  Apart
    BY <1>7 DEF Run, Load, Finish
  <1>8. ASSUME NEW j \in Conversion, Convert(j)
        PROVE  Apart
    <2>1. upload' = upload /\ faults' = faults /\ (UNCHANGED objectVars \/ Begins(j))
      BY <1>8, ConvertBegins DEF Convert
    <2> QED
      BY <1>1, <2>1, SourcesStay DEF objectVars
  <1>9. ASSUME NEW j \in Conversion, WorkerStops(j)
        PROVE  Apart
    <2>1. upload' = upload /\ faults' = faults + 1 /\ Stop(j)
      BY <1>9 DEF WorkerStops, Fault
    <2> QED
      BY <1>1, <2>1, SourcesStay
  <1>10. ASSUME NEW h \in Content, Authorize(h)
         PROVE  Apart
    BY <1>10 DEF Authorize
  <1> HIDE DEF Apart
  <1>11. Apart \/ Send(v) \/ Admit(v) \/ PutFails(v) \/ PersistSource(v) \/ DatabaseThrows(v)
               \/ ApiStops(v) \/ Storing(v) \/ StoreThrows(v)
    BY <1>1, <1>2, <1>3, <1>4, <1>5, <1>6, <1>7, <1>8, <1>9, <1>10 DEF Next, Serve, Handle, Apart
  <1> QED
    BY <1>11 DEF Apart

\* So do a conversion and its call.
LEMMA OfConversion ==
    ASSUME IntakeInv, [Next]_vars, NEW i \in Conversion
    PROVE  \/ conversion'[i] = conversion[i] /\ put'[i] = put[i]
           \/ Run(i) \/ Load(i) \/ Convert(i) \/ Finish(i) \/ WorkerStops(i)
           \/ Storing(i) \/ StoreThrows(i)
  <1> DEFINE Apart == conversion'[i] = conversion[i] /\ put'[i] = put[i]
  <1>1. /\ conversion \in [Conversion -> ConversionJob]
        /\ Upload \subseteq Caller /\ Conversion \subseteq Caller /\ i \in Caller /\ i \notin Upload
        /\ StoreInv /\ PutsFit /\ SourcesHold
    BY IntakeAssumption DEF IntakeInv, TypeOK
  <1>2. CASE UNCHANGED vars
    BY <1>2 DEF vars
  <1>3. ASSUME NEW u \in Upload, Send(u) \/ PutFails(u) \/ PersistSource(u) \/ DatabaseThrows(u)
        PROVE  Apart
    BY <1>3 DEF Send, PutFails, PersistSource, DatabaseThrows
  <1>4. ASSUME NEW u \in Upload, Admit(u)
        PROVE  Apart
    <2>1. conversion' = conversion
      BY <1>4 DEF Admit
    <2>2. CASE Allowed(u)
      <3>1. Begins(u) /\ u \in Caller
        BY <1>4, <2>2, AdmitBegins
      <3> QED
        BY <1>1, <1>4, <2>1, <3>1, SourcesStay
    <2>3. CASE ~Allowed(u)
      BY <1>4, <2>1, <2>3 DEF Admit, objectVars
    <2> QED
      BY <2>2, <2>3
  <1>5. ASSUME NEW u \in Upload, ApiStops(u)
        PROVE  Apart
    <2>1. conversion' = conversion /\ Stop(u)
      BY <1>5 DEF ApiStops
    <2> QED
      BY <1>1, <1>5, <2>1, SourcesStay
  <1>6. ASSUME NEW c \in Caller, c # i, Storing(c) \/ StoreThrows(c)
        PROVE  Apart
    <2>1. conversion' = conversion /\ (PutStep(c) \/ Throw(c))
      BY <1>6 DEF Storing, StoreThrows
    <2> QED
      BY <1>1, <1>6, <2>1, GoesOn
  <1>7. ASSUME NEW j \in Conversion, j # i, Run(j) \/ Load(j) \/ Finish(j)
        PROVE  Apart
    BY <1>1, <1>7 DEF Run, Load, Finish, Converting
  <1>8. ASSUME NEW j \in Conversion, j # i, Convert(j)
        PROVE  Apart
    <2>1. conversion'[i] = conversion[i] /\ (UNCHANGED objectVars \/ Begins(j))
      BY <1>1, <1>8, ConvertBegins DEF Convert, Converting
    <2> QED
      BY <1>1, <1>8, <2>1, SourcesStay DEF objectVars
  <1>9. ASSUME NEW j \in Conversion, j # i, WorkerStops(j)
        PROVE  Apart
    <2>1. conversion'[i] = conversion[i] /\ Stop(j)
      BY <1>1, <1>9 DEF WorkerStops, Converting
    <2> QED
      BY <1>1, <1>9, <2>1, SourcesStay
  <1>10. ASSUME NEW h \in Content, Authorize(h)
         PROVE  Apart
    BY <1>10 DEF Authorize
  <1> HIDE DEF Apart
  <1>11. Apart \/ Run(i) \/ Load(i) \/ Convert(i) \/ Finish(i) \/ WorkerStops(i)
               \/ Storing(i) \/ StoreThrows(i)
    BY <1>1, <1>2, <1>3, <1>4, <1>5, <1>6, <1>7, <1>8, <1>9, <1>10 DEF Next, Serve, Handle, Apart
  <1> QED
    BY <1>11 DEF Apart

\* What an upload says of itself stays, and so does what the policy says of it.
LEMMA AllowedStays ==
    ASSUME IntakeInv, [Next]_vars, NEW v \in Upload
    PROVE  (Allowed(v) => Allowed(v)') /\ Hash(v)' = Hash(v)
  BY UploadsStay DEF Allowed

\* A request in a call awaits that call.
LEMMA UploadCallsNext ==
    ASSUME IntakeInv, UploadCalls, [Next]_vars
    PROVE  UploadCalls'
  <1> SUFFICES ASSUME NEW v \in Upload, put'[v].pc \in InFlight
               PROVE  upload'[v].pc = "put" /\ Allowed(v)' /\ put'[v].key = SourceKey(Hash(v)')
    BY DEF UploadCalls, Hash, Allowed
  <1>1. /\ upload \in [Upload -> UploadRequest] /\ put \in [Caller -> Put] /\ v \in Caller
        /\ StoreInv
    BY IntakeAssumption DEF IntakeInv, TypeOK, ObjectsTypeOK
  <1>2. (Allowed(v) => Allowed(v)') /\ Hash(v)' = Hash(v)
    BY AllowedStays
  <1>3. put[v].pc \in InFlight =>
            upload[v].pc = "put" /\ Allowed(v) /\ put[v].key = SourceKey(Hash(v))
    BY DEF UploadCalls
  <1>4. CASE upload'[v] = upload[v] /\ put'[v] = put[v]
    BY <1>2, <1>3, <1>4
  <1>5. CASE Send(v) \/ PutFails(v) \/ PersistSource(v) \/ DatabaseThrows(v)
    <2>1. put'[v] = put[v] /\ (upload[v].pc # "put" \/ put[v].pc \in {"refused", "failed", "stored"})
      BY <1>5 DEF Send, PutFails, PersistSource, DatabaseThrows
    <2> QED
      BY <1>3, <2>1 DEF InFlight
  <1>6. CASE Admit(v) /\ Allowed(v)
    <2>1. PutImmutable(v, SourceKey(Hash(v)), Hash(v)) /\ Uploading(v, "put")
      BY <1>6 DEF Admit
    <2>2. put'[v].key = SourceKey(Hash(v))
      BY <1>1, <2>1 DEF PutImmutable
    <2>3. upload'[v].pc = "put"
      BY <1>1, <2>1 DEF Uploading, UploadRequest
    <2> QED
      BY <1>2, <1>6, <2>2, <2>3
  <1>7. CASE Admit(v) /\ ~Allowed(v)
    BY <1>3, <1>7 DEF Admit, objectVars
  <1>8. CASE ApiStops(v)
    BY <1>1, <1>8 DEF ApiStops, Stop, NoPut, InFlight
  <1>9. CASE Storing(v) \/ StoreThrows(v)
    <2>1. upload' = upload /\ (PutStep(v) \/ Throw(v))
      BY <1>9 DEF Storing, StoreThrows
    <2>2. put[v].pc \in InFlight /\ put'[v].key = put[v].key
      BY <1>1, <2>1, GoesOn
    <2> QED
      BY <1>2, <1>3, <2>1, <2>2
  <1> QED
    BY <1>4, <1>5, <1>6, <1>7, <1>8, <1>9, OfRequest

\* A conversion in a call awaits that call, and returns when it is answered.
LEMMA ConversionCallsNext ==
    ASSUME IntakeInv, ConversionCalls, [Next]_vars
    PROVE  ConversionCalls'
  <1> SUFFICES ASSUME NEW i \in Conversion
               PROVE  /\ put'[i].pc \in InFlight => conversion'[i].pc = "put"
                      /\ conversion'[i].pc \in {"put", "done"} =>
                             put'[i].pc # "none" /\ put'[i].key = Artifact(i)'
                      /\ conversion'[i].pc = "done" => put'[i].pc = "stored"
    BY DEF ConversionCalls
  <1>1. /\ conversion \in [Conversion -> ConversionJob] /\ put \in [Caller -> Put] /\ i \in Caller
        /\ StoreInv
    BY IntakeAssumption DEF IntakeInv, TypeOK, ObjectsTypeOK
  <1>2. /\ put[i].pc \in InFlight => conversion[i].pc = "put"
        /\ conversion[i].pc \in {"put", "done"} => put[i].pc # "none" /\ put[i].key = Artifact(i)
        /\ conversion[i].pc = "done" => put[i].pc = "stored"
    BY DEF ConversionCalls
  <1>3. CASE conversion'[i] = conversion[i] /\ put'[i] = put[i]
    BY <1>2, <1>3 DEF Artifact
  <1>4. CASE Run(i)
    <2>1. conversion'[i].pc = "load" /\ put'[i] = put[i] /\ conversion[i].pc # "put"
      BY <1>1, <1>4 DEF Run, ConversionJob
    <2> QED
      BY <1>2, <2>1
  <1>5. CASE Load(i)
    <2>1. conversion'[i].pc \in {"failed", "convert"} /\ put'[i] = put[i] /\ conversion[i].pc # "put"
      <3> DEFINE found == objects[SourceKey(conversion[i].source)]
      <3>1. \/ conversion' = [conversion EXCEPT ![i].pc = "failed"]
            \/ conversion' = [conversion EXCEPT ![i] = [conversion[i] EXCEPT !.pc = "convert",
                                                                             !.loaded = found]]
        BY <1>5 DEF Load, Converting
      <3> HIDE DEF found
      <3> QED
        BY <1>1, <1>5, <3>1 DEF Load, ConversionJob
    <2> QED
      BY <1>2, <2>1
  <1>6. CASE Convert(i)
    <2>1. CASE Converting(i, "put")
               /\ \E r \in Release : PutImmutable(i, Artifact(i), <<conversion[i].loaded, r>>)
      <3>1. conversion'[i].pc = "put" /\ Artifact(i)' = Artifact(i)
        BY <1>1, <2>1 DEF Converting, ConversionJob, Artifact
      <3>2. put'[i].key = Artifact(i) /\ put'[i].pc = "look"
        BY <1>1, <2>1 DEF PutImmutable
      <3> QED
        BY <3>1, <3>2
    <2>2. CASE Converting(i, "failed") /\ UNCHANGED objectVars
      <3>1. conversion'[i].pc = "failed" /\ put'[i] = put[i] /\ conversion[i].pc = "convert"
        BY <1>1, <1>6, <2>2 DEF Convert, Converting, ConversionJob, objectVars
      <3> QED
        BY <1>2, <3>1
    <2> QED
      BY <1>6, <2>1, <2>2 DEF Convert
  <1>7. CASE Finish(i)
    <2>1. /\ conversion[i].pc = "put" /\ put[i].pc \in {"stored", "refused", "failed"}
          /\ put'[i] = put[i]
          /\ Converting(i, IF put[i].pc = "stored" THEN "done" ELSE "failed")
      BY <1>7 DEF Finish
    <2>2. /\ conversion'[i].pc = IF put[i].pc = "stored" THEN "done" ELSE "failed"
          /\ Artifact(i)' = Artifact(i)
      BY <1>1, <2>1 DEF Converting, ConversionJob, Artifact
    <2> QED
      BY <1>2, <2>1, <2>2 DEF InFlight
  <1>8. CASE WorkerStops(i)
    <2>1. conversion'[i].pc = "idle" /\ put'[i] = NoPut
      BY <1>1, <1>8 DEF WorkerStops, Stop, Converting, ConversionJob
    <2> QED
      BY <2>1 DEF NoPut, InFlight
  <1>9. CASE Storing(i) \/ StoreThrows(i)
    <2>1. conversion' = conversion /\ (PutStep(i) \/ Throw(i))
      BY <1>9 DEF Storing, StoreThrows
    <2>2. put[i].pc \in InFlight /\ put'[i].pc # "none" /\ put'[i].key = put[i].key
      BY <1>1, <2>1, GoesOn
    <2>3. conversion[i].pc = "put"
      BY <1>2, <2>2
    <2> QED
      BY <1>2, <2>1, <2>2, <2>3 DEF Artifact
  <1> QED
    BY <1>3, <1>4, <1>5, <1>6, <1>7, <1>8, <1>9, OfConversion

\* Calls are awaited, whoever makes them.
LEMMA CallsAwaited == Spec => [](IntakeInv /\ UploadCalls /\ ConversionCalls)
  <1>1. Init => UploadCalls /\ ConversionCalls
    <2> SUFFICES ASSUME Init PROVE UploadCalls /\ ConversionCalls
      OBVIOUS
    <2>1. \A c \in Caller : put[c].pc = "none"
      BY DEF Init, ObjectsInit, NoPut
    <2>2. \A j \in Conversion : conversion[j].pc = "idle"
      BY DEF Init
    <2> QED
      BY <2>1, <2>2, IntakeAssumption DEF UploadCalls, ConversionCalls, InFlight
  <1>2. IntakeInv /\ UploadCalls /\ ConversionCalls /\ [Next]_vars
        => UploadCalls' /\ ConversionCalls'
    BY UploadCallsNext, ConversionCallsNext
  <1> QED
    BY <1>1, <1>2, IntakeInvariant, PTL DEF Spec

\* The handler of source.convert: when it has returned, the artifact its job names is
\* stored as it made it, whatever other jobs of the same source stored meanwhile.
THEOREM DoneMeansStored == Spec => []DoneIsStored
  <1>1. IntakeInv /\ ConversionCalls => DoneIsStored
    BY IntakeAssumption
       DEF IntakeInv, StoreInv, StoredIsThere, ConversionCalls, DoneIsStored, Object
  <1> QED
    BY <1>1, CallsAwaited, PTL

\* uploadSource: bytes appear under a source's key only on behalf of a request for
\* them that the policy admitted and that still awaits its call.
THEOREM AdmittedOnly == Spec => OnlyAdmitted
  <1>1. ASSUME IntakeInv, UploadCalls, ConversionCalls, [Next]_vars,
               NEW h \in Content, objects[SourceKey(h)] = None, objects'[SourceKey(h)] # None
        PROVE  \E u \in Upload : Hash(u) = h /\ Allowed(u) /\ upload[u].pc = "put"
    <2>1. [ObjectsNext]_objectVars /\ StoreInv
      BY <1>1, StoreSteps DEF IntakeInv
    <2>2. PICK c \in Caller : CallerStep(c)
      BY <1>1, <2>1 DEF ObjectsNext, CallerStep, objectVars
    <2>3. SourceKey(h) \in ObjectKey
      BY Keys
    <2>4. put[c].pc \in InFlight /\ put[c].key = SourceKey(h)
      BY <1>1, <2>1, <2>2, <2>3, ObjectChange
    <2>5. c \in Upload
      <3> SUFFICES ASSUME c \in Conversion PROVE FALSE
        BY IntakeAssumption
      <3>1. conversion[c].pc = "put" /\ put[c].key = Artifact(c)
        BY <1>1, <2>4 DEF ConversionCalls
      <3>2. conversion[c] \in ConversionJob
        BY <1>1 DEF IntakeInv, TypeOK
      <3> QED
        BY <2>4, <3>1, <3>2, Keys DEF Artifact, ConversionJob
    <2>6. upload[c].pc = "put" /\ Allowed(c) /\ put[c].key = SourceKey(Hash(c))
      BY <1>1, <2>4, <2>5 DEF UploadCalls
    <2>7. Hash(c) \in Content
      BY <1>1, <2>5 DEF IntakeInv, TypeOK, UploadRequest, Hash
    <2> QED
      BY <2>4, <2>5, <2>6, <2>7, Keys
  <1>2. IntakeInv /\ UploadCalls /\ ConversionCalls /\ [Next]_vars =>
            [\A h \in Content : objects[SourceKey(h)] = None /\ objects'[SourceKey(h)] # None
               => \E u \in Upload : Hash(u) = h /\ Allowed(u) /\ upload[u].pc = "put"]_vars
    BY <1>1
  <1> QED
    BY <1>2, CallsAwaited, PTL DEF Spec, OnlyAdmitted

-----------------------------------------------------------------------------
\* Racing uploads.

\* S3 shows an object whole or not at all.
WholeOnS3 == backend = "s3" => /\ \A k \in ObjectKey : objects[k] # Partial
                               /\ \A c \in Caller : put[c].pc # "writing"

(***************************************************************************)
(* Until something fails, no upload does: the object that a call finds,    *)
(* or that its PutObject met, is the very content it brings.               *)
(***************************************************************************)
Harmless == backend = "s3" /\ faults = 0 =>
                \A u \in Upload : /\ upload[u].pc # "failed"
                                  /\ put[u].pc \notin {"refused", "failed"}
                                  /\ put[u].pc = "relook" => Object(u) # None

\* No step of the store shows a part of an object on S3.
LEMMA WholeNext ==
    ASSUME IntakeInv, WholeOnS3, [Next]_vars
    PROVE  WholeOnS3' /\ backend' = backend
  <1>1. [ObjectsNext]_objectVars /\ StoreInv
    BY StoreSteps DEF IntakeInv
  <1>2. CASE UNCHANGED objectVars
    BY <1>2 DEF objectVars, WholeOnS3
  <1>3. CASE ObjectsNext
    <2>1. PICK c \in Caller : CallerStep(c)
      BY <1>3 DEF ObjectsNext, CallerStep
    <2>2. Touches(c) /\ Changes(c)
      BY <1>1, <2>1, Shapes DEF StoreInv
    <2>3. /\ put \in [Caller -> Put] /\ backend' = backend
          /\ \A d \in Caller : d # c => put'[d] = put[d]
          /\ objects \in [ObjectKey -> Bytes \cup {Partial, None}]
      BY <1>1, <2>2 DEF Touches, StoreInv, ObjectsTypeOK
    <2>4. put[c].pc # "none" => put[c].bytes \in Bytes /\ put[c].bytes # Partial
      BY <1>1, InFlightCall, PartialAssumption DEF StoreInv
    <2>5. ASSUME backend = "s3"
          PROVE  (\A k \in ObjectKey : objects'[k] # Partial) /\ put'[c].pc # "writing"
      <3>1. (\A k \in ObjectKey : objects[k] # Partial) /\ put[c].pc # "writing"
        BY <2>5 DEF WholeOnS3
      <3>2. CASE UNCHANGED objects /\ (put'[c].pc = "writing" => put[c].pc = "writing")
        BY <3>1, <3>2
      <3>3. CASE /\ put[c].pc = "write" /\ Store(c)
                 /\ put'[c] \in {[put[c] EXCEPT !.pc = "stored"], [put[c] EXCEPT !.pc = "failed"],
                                 put[c], NoPut}
        <4>1. put'[c].pc # "writing"
          BY <2>3, <3>3 DEF Put, NoPut
        <4> QED
          BY <2>3, <2>4, <3>1, <3>3, <4>1 DEF Store
      <3> QED
        BY <2>2, <2>5, <3>1, <3>2, <3>3 DEF Changes
    <2> QED
      BY <2>3, <2>5 DEF WholeOnS3
  <1> QED
    BY <1>1, <1>2, <1>3

\* The object that is there for an upload's call is what the upload brings, on S3.
LEMMA SameContent ==
    ASSUME IntakeInv, WholeOnS3, UploadCalls, backend = "s3",
           NEW u \in Upload, put[u].pc \in InFlight
    PROVE  Object(u) = None \/ Object(u) = put[u].bytes
  <1>1. u \in Caller /\ Hash(u) \in Content
    BY IntakeAssumption DEF IntakeInv, TypeOK, UploadRequest, Hash
  <1>2. put[u].key = SourceKey(Hash(u)) /\ put[u].pc # "none"
    BY DEF UploadCalls, InFlight
  <1>3. put[u].bytes = Hash(u)
    BY <1>1, <1>2 DEF IntakeInv, PutsFit
  <1>4. Object(u) \in {None, Partial, Hash(u)} /\ Object(u) # Partial
    BY <1>1, <1>2, Keys DEF Object, IntakeInv, SourcesHold, WholeOnS3
  <1> QED
    BY <1>3, <1>4

\* A step without a fault fails no upload, unless one failed.
LEMMA HarmlessNext ==
    ASSUME IntakeInv, WholeOnS3, UploadCalls, Harmless, [Next]_vars
    PROVE  Harmless'
  <1> SUFFICES ASSUME NEW v \in Upload, backend' = "s3", faults' = 0
               PROVE  /\ upload'[v].pc # "failed"
                      /\ put'[v].pc \notin {"refused", "failed"}
                      /\ put'[v].pc = "relook" => objects'[put'[v].key] # None
    BY DEF Harmless, Object
  <1>1. /\ upload \in [Upload -> UploadRequest] /\ put \in [Caller -> Put] /\ v \in Caller
        /\ StoreInv /\ faults \in Nat /\ put[v] \in Put
    BY IntakeAssumption, FaultAssumption
       DEF IntakeInv, TypeOK, ObjectsTypeOK, EnvironmentTypeOK
  <1>2. backend = "s3" /\ ~DatabaseThrows(v) /\ ~ApiStops(v) /\ ~StoreThrows(v)
    BY <1>1, WholeNext DEF DatabaseThrows, ApiStops, StoreThrows, Fault
  <1>3. faults' \in {faults, faults + 1} => faults = 0
    BY <1>1
  <1>4. ASSUME faults = 0
        PROVE  /\ upload[v].pc # "failed"
               /\ put[v].pc \notin {"refused", "failed"}
               /\ put[v].pc = "relook" => Object(v) # None
    BY <1>2, <1>4 DEF Harmless
  <1>5. put[v].pc # "none" =>
            /\ put[v].key \in ObjectKey
            /\ Object(v) # None => objects'[put[v].key] # None
    <2> SUFFICES ASSUME put[v].pc # "none"
                 PROVE  /\ put[v].key \in ObjectKey
                        /\ Object(v) # None => objects'[put[v].key] # None
      OBVIOUS
    <2>1. put[v].key \in ObjectKey
      BY <1>1, InFlightCall DEF StoreInv
    <2>2. Object(v) # Partial
      BY <1>2, <2>1 DEF WholeOnS3, Object
    <2>3. CASE UNCHANGED objectVars
      BY <2>1, <2>3 DEF objectVars, Object
    <2>4. CASE ObjectsNext
      <3>1. PICK c \in Caller : CallerStep(c)
        BY <2>4 DEF ObjectsNext, CallerStep
      <3> QED
        BY <1>1, <2>1, <2>2, <3>1, ObjectChange DEF Object
    <2> QED
      BY <2>3, <2>4, <2>1, StoreSteps
  <1>6. CASE upload'[v] = upload[v] /\ put'[v] = put[v] /\ faults' \in {faults, faults + 1}
    BY <1>3, <1>4, <1>5, <1>6 DEF Object
  <1>7. CASE Send(v)
    <2>1. upload'[v].pc = "admit" /\ put'[v] = put[v] /\ faults' = faults
      BY <1>1, <1>7 DEF Send, UploadRequest
    <2> QED
      BY <1>3, <1>4, <1>5, <2>1 DEF Object
  <1>8. CASE Admit(v) /\ Allowed(v)
    <2>1. upload'[v].pc = "put" /\ put'[v].pc = "look"
      BY <1>1, <1>8 DEF Admit, Uploading, UploadRequest, PutImmutable
    <2> QED
      BY <2>1
  <1>9. CASE Admit(v) /\ ~Allowed(v)
    <2>1. upload'[v].pc = "denied" /\ put'[v] = put[v] /\ faults' = faults
      BY <1>1, <1>9 DEF Admit, Uploading, UploadRequest, objectVars
    <2> QED
      BY <1>3, <1>4, <1>5, <2>1 DEF Object
  <1>10. ~PutFails(v)
    BY <1>3, <1>4 DEF PutFails
  <1>11. CASE PersistSource(v)
    <2>1. upload'[v].pc = "answered" /\ put'[v] = put[v] /\ faults' = faults
      BY <1>1, <1>11 DEF PersistSource, UploadRequest
    <2> QED
      BY <1>3, <1>4, <1>5, <2>1 DEF Object
  <1>12. CASE Storing(v)
    <2>1. upload' = upload /\ faults' = faults /\ PutStep(v)
      BY <1>12 DEF Storing
    <2>2. put[v].pc \in InFlight /\ faults = 0
      BY <1>1, <1>3, <2>1, GoesOn
    <2>3. Object(v) = None \/ Object(v) = put[v].bytes
      BY <1>2, <2>2, SameContent
    <2>4. upload'[v].pc # "failed"
      BY <1>4, <2>1, <2>2
    <2>5. CASE Look(v)
      <3>1. put'[v].pc = IF Object(v) = None THEN "write" ELSE Compared(v)
        BY <1>1, <2>2, <2>5 DEF Look, To, Put, NoPut, InFlight
      <3> QED
        BY <2>3, <2>4, <3>1 DEF Compared
    <2>6. CASE PutObject(v)
      <3>1. CASE To(v, "stored")
        <4>1. put'[v].pc = "stored"
          BY <1>1, <2>2, <3>1 DEF To, Put, NoPut, InFlight
        <4> QED
          BY <2>4, <4>1
      <3>2. CASE Object(v) # None /\ To(v, "relook")
        <4>1. put'[v].pc = "relook" /\ put'[v].key = put[v].key
          BY <1>1, <2>2, <3>2 DEF To, Put, NoPut, InFlight
        <4> QED
          BY <1>5, <2>2, <2>4, <3>2, <4>1 DEF InFlight
      <3> QED
        BY <2>6, <3>1, <3>2 DEF PutObject
    <2>7. CASE LookAgain(v)
      <3>1. put'[v].pc = Compared(v) /\ Object(v) # None
        BY <1>1, <1>4, <2>2, <2>7 DEF LookAgain, To, Put, NoPut, InFlight
      <3> QED
        BY <2>3, <2>4, <3>1 DEF Compared
    <2>8. ~Create(v) /\ ~Close(v)
      BY <1>1, <1>2 DEF Create, Close, WholeOnS3
    <2> QED
      BY <2>1, <2>5, <2>6, <2>7, <2>8 DEF PutStep
  <1> QED
    BY <1>2, <1>6, <1>7, <1>8, <1>9, <1>10, <1>11, <1>12, OfRequest

\* ADR-002, of S3: uploads of one content that race are all answered, unless something
\* else fails.
THEOREM RacesDoNoHarm == Spec => []RaceIsHarmless
  <1>1. Init => WholeOnS3 /\ Harmless
    <2> SUFFICES ASSUME Init PROVE WholeOnS3 /\ Harmless
      OBVIOUS
    <2>1. \A c \in Caller : put[c].pc = "none"
      BY DEF Init, ObjectsInit, NoPut
    <2>2. \A k \in ObjectKey : objects[k] = None
      BY DEF Init, ObjectsInit
    <2>3. \A u \in Upload : upload[u].pc = "idle"
      BY DEF Init
    <2> QED
      BY <2>1, <2>2, <2>3, IntakeAssumption, PartialAssumption DEF WholeOnS3, Harmless
  <1>2. IntakeInv /\ UploadCalls /\ WholeOnS3 /\ Harmless /\ [Next]_vars
        => WholeOnS3' /\ Harmless'
    BY WholeNext, HarmlessNext
  <1>3. IntakeInv /\ Harmless => RaceIsHarmless
    <2> SUFFICES ASSUME IntakeInv, Harmless, backend = "s3",
                        NEW u \in Upload, upload[u].pc = "failed"
                 PROVE  faults > 0
      BY DEF RaceIsHarmless, NoneRefused
    <2>1. faults \in Nat
      BY FaultAssumption DEF IntakeInv, TypeOK, EnvironmentTypeOK
    <2>2. faults # 0
      BY DEF Harmless
    <2> QED
      BY <2>1, <2>2
  <1>4. Spec => [](IntakeInv /\ WholeOnS3 /\ Harmless)
    BY <1>1, <1>2, CallsAwaited, PTL DEF Spec
  <1> QED
    BY <1>3, <1>4, PTL
=============================================================================
