----------------------------- MODULE ObjectStore ------------------------------
(***************************************************************************)
(* putImmutable of the two object stores, one step for each call it makes. *)
(* FilesystemObjectStore reads the file and creates it with the flag wx if *)
(* there is none; the bytes reach it after it was created, so another call *)
(* may find a part of them.  S3CompatibleObjectStore asks for the object's *)
(* metadata, writes with If-None-Match: *, and asks again when that is     *)
(* answered 412; S3 shows an object whole or not at all.                   *)
(*                                                                         *)
(* Bytes are equal when their hashes are.  The calls of several processes  *)
(* interleave.                                                             *)
(***************************************************************************)
CONSTANTS ObjectKey,
          Bytes,    \* contents
          Caller,   \* who may be in a call of putImmutable
          Partial,  \* a part of a content
          None      \* no object

ASSUME PartialAssumption == Partial # None /\ {Partial, None} \cap Bytes = {}

VARIABLES backend,  \* the store the environment configures
          objects,  \* the object under each key
          put       \* the call each caller makes, or made last

objectVars == <<backend, objects, put>>

NoPut == [pc |-> "none", key |-> None, bytes |-> None]

(***************************************************************************)
(* none     no call                                                        *)
(* look     before readFile / HeadObject                                   *)
(* write    there was no object: before open(wx) / PutObject               *)
(* writing  the file is created, its bytes are on their way                *)
(* relook   PutObject answered 412: before the second HeadObject           *)
(* stored   answered                                                       *)
(* refused  "Immutable object already exists with different content"       *)
(* failed   any other error                                                *)
(***************************************************************************)
InFlight == {"look", "write", "writing", "relook"}

Put == [pc    : InFlight \cup {"stored", "refused", "failed"},
        key   : ObjectKey,
        bytes : Bytes] \cup {NoPut}

ObjectsTypeOK == /\ backend \in {"filesystem", "s3"}
                 /\ objects \in [ObjectKey -> Bytes \cup {Partial, None}]
                 /\ put \in [Caller -> Put]

ObjectsInit == /\ backend \in {"filesystem", "s3"}
               /\ objects = [k \in ObjectKey |-> None]
               /\ put = [c \in Caller |-> NoPut]

-----------------------------------------------------------------------------

Object(c) == objects[put[c].key]

\* The bytes of c become the object.
Store(c) == objects' = [objects EXCEPT ![put[c].key] = put[c].bytes]

To(c, pc) == put' = [put EXCEPT ![c].pc = pc]

\* Regression: an object that is there is taken for the caller's.
ComparedByKey(c) == IF Object(c) # None THEN "stored" ELSE "refused"

Compared(c) == IF Object(c) = put[c].bytes THEN "stored" ELSE "refused"

PutImmutable(c, k, b) ==
    /\ put[c].pc \notin InFlight
    /\ put' = [put EXCEPT ![c] = [pc |-> "look", key |-> k, bytes |-> b]]
    /\ UNCHANGED <<backend, objects>>

\* readFile, ENOENT; HeadObject, 404.
Look(c) == /\ put[c].pc = "look"
           /\ To(c, IF Object(c) = None THEN "write" ELSE Compared(c))
           /\ UNCHANGED <<backend, objects>>

\* Regression: without wx, the file is truncated and written again.
CreateOver(c) == /\ put[c].pc = "write"
                 /\ backend = "filesystem"
                 /\ objects' = [objects EXCEPT ![put[c].key] = Partial]
                 /\ To(c, "writing")
                 /\ UNCHANGED backend

\* Regression: EEXIST is taken to mean that the object is stored.
CreateOrExists(c) ==
    /\ put[c].pc = "write"
    /\ backend = "filesystem"
    /\ \/ /\ Object(c) = None
          /\ objects' = [objects EXCEPT ![put[c].key] = Partial]
          /\ To(c, "writing")
       \/ /\ Object(c) # None
          /\ To(c, "stored")
          /\ UNCHANGED objects
    /\ UNCHANGED backend

\* writeFile(wx) opens the file; EEXIST is not caught.
Create(c) ==
    /\ put[c].pc = "write"
    /\ backend = "filesystem"
    /\ \/ /\ Object(c) = None
          /\ objects' = [objects EXCEPT ![put[c].key] = Partial]
          /\ To(c, "writing")
       \/ /\ Object(c) # None
          /\ To(c, "failed")
          /\ UNCHANGED objects
    /\ UNCHANGED backend

\* The last byte is written.
Close(c) == /\ put[c].pc = "writing"
            /\ Store(c)
            /\ To(c, "stored")
            /\ UNCHANGED backend

\* Regression: 412 is an error as any other.
PutObjectOrThrow(c) ==
    /\ put[c].pc = "write"
    /\ backend = "s3"
    /\ \/ /\ Object(c) = None
          /\ Store(c)
          /\ To(c, "stored")
       \/ /\ Object(c) # None
          /\ To(c, "failed")
          /\ UNCHANGED objects
    /\ UNCHANGED backend

\* PutObject with If-None-Match: *.
PutObject(c) ==
    /\ put[c].pc = "write"
    /\ backend = "s3"
    /\ \/ /\ Object(c) = None
          /\ Store(c)
          /\ To(c, "stored")
       \/ /\ Object(c) # None
          /\ To(c, "relook")
          /\ UNCHANGED objects
    /\ UNCHANGED backend

LookAgain(c) == /\ put[c].pc = "relook"
                /\ To(c, Compared(c))
                /\ UNCHANGED <<backend, objects>>

PutStep(c) == Look(c) \/ Create(c) \/ Close(c) \/ PutObject(c) \/ LookAgain(c)

\* A PutObject that is cut off may be done all the same.
Unanswered(c) == \/ UNCHANGED objects
                 \/ /\ put[c].pc = "write"
                    /\ backend = "s3"
                    /\ Object(c) = None
                    /\ Store(c)

\* A call throws, and so does putImmutable; or the S3 client sends it again.
Throw(c) == /\ put[c].pc \in InFlight
            /\ Unanswered(c)
            /\ To(c, "failed") \/ (backend = "s3" /\ UNCHANGED put)
            /\ UNCHANGED backend

\* The process of c dies, in a call or after it.
Stop(c) == /\ UNCHANGED objects \/ (put[c].pc \in InFlight /\ Unanswered(c))
           /\ put' = [put EXCEPT ![c] = NoPut]
           /\ UNCHANGED backend

ObjectsNext ==
    \E c \in Caller : \/ \E k \in ObjectKey, b \in Bytes : PutImmutable(c, k, b)
                      \/ PutStep(c) \/ Throw(c) \/ Stop(c)

ObjectsSpec == ObjectsInit /\ [][ObjectsNext]_objectVars

-----------------------------------------------------------------------------

\* The call as its caller sees it.
Promised(p) ==
    [p EXCEPT !.pc = CASE p.pc \in InFlight -> "asked"
                       [] p.pc = "stored" -> "answered"
                       [] p.pc \in {"refused", "failed"} -> "refused"
                       [] OTHER -> "none"]

\* A part of an object is no object yet.
Whole == [k \in ObjectKey |-> IF objects[k] = Partial THEN None ELSE objects[k]]

Calls == [c \in Caller |-> Promised(put[c])]

Immutable == INSTANCE ImmutableObjects WITH objects <- Whole, call <- Calls

\* The store implements what the port promises, whatever races with what.
KeepsItsPromise == Immutable!Spec
=============================================================================
