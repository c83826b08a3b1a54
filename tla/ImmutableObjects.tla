--------------------------- MODULE ImmutableObjects ---------------------------
(***************************************************************************)
(* What putImmutable of ObjectStorePort promises, whichever store is       *)
(* behind it: an object is written once, whole, and never changes; a call  *)
(* that is answered has its own bytes stored under its key.  A call that   *)
(* is refused, or whose process dies, may or may not have stored them.     *)
(***************************************************************************)
CONSTANTS ObjectKey, Bytes, Caller, None

VARIABLES objects,  \* the object under each key
          call      \* the call each caller makes, or made last

NoCall == [pc |-> "none", key |-> None, bytes |-> None]

Init == /\ objects = [k \in ObjectKey |-> None]
        /\ call = [c \in Caller |-> NoCall]

Ask(c, k, b) == /\ call[c].pc # "asked"
                /\ call' = [call EXCEPT ![c] = [pc |-> "asked", key |-> k, bytes |-> b]]
                /\ UNCHANGED objects

\* The bytes of a call in flight become the object, if there is none.
Write(c) == /\ objects[call[c].key] = None
            /\ objects' = [objects EXCEPT ![call[c].key] = call[c].bytes]

Answer(c) == /\ objects'[call[c].key] = call[c].bytes
             /\ call' = [call EXCEPT ![c].pc = "answered"]

\* Still in flight, refused, or gone with its process.
GoOn(c) == \/ UNCHANGED call
           \/ call' = [call EXCEPT ![c].pc = "refused"]
           \/ call' = [call EXCEPT ![c] = NoCall]

Serve(c) == /\ call[c].pc = "asked"
            /\ Write(c) \/ UNCHANGED objects
            /\ Answer(c) \/ GoOn(c)

\* The process dies with the answer.
Forget(c) == /\ call' = [call EXCEPT ![c] = NoCall]
             /\ UNCHANGED objects

Next == \E c \in Caller : \/ \E k \in ObjectKey, b \in Bytes : Ask(c, k, b)
                          \/ Serve(c)
                          \/ Forget(c)

Spec == Init /\ [][Next]_<<objects, call>>
=============================================================================
