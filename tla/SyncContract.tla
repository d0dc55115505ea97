---------------------------- MODULE SyncContract ----------------------------
(***************************************************************************)
(* What the controller promises to those who read a SecretSync and its     *)
(* Secret, whatever controllers, caches, retries and crashes there are     *)
(* behind it.  There is one object, one Secret of the same name, and the   *)
(* set of states that have been applied to the Secret so far.  A state is  *)
(* the record that the sync hash stands for.                               *)
(***************************************************************************)
EXTENDS Integers

CONSTANT None

VARIABLES
  object,  \* the SecretSync: uid, generation, recorded state and time; or None
  secret,  \* the Secret: owner and data; or None
  applied  \* the states that have been applied: records with the fields data,
           \* ssUID and ssGeneration, and others that do not matter here

vars == <<object, secret, applied>>

Init == object = None /\ secret = None /\ applied = {}

\* A new object, under a UID of its own: nothing has been applied for it.
Create ==
  /\ object = None /\ object' # None
  /\ \A s \in applied : s.ssUID # object'.uid
  /\ object' = [uid |-> object'.uid, generation |-> 1, recorded |-> None, time |-> None]
  /\ UNCHANGED <<secret, applied>>

Edit ==
  /\ object # None
  /\ object' = [object EXCEPT !.generation = object.generation + 1]
  /\ UNCHANGED <<secret, applied>>

Delete ==
  /\ object # None /\ object' = None
  /\ UNCHANGED <<secret, applied>>

\* A state is applied: the Secret gets its data and its owner.  A Secret that
\* somebody else has made is left alone.
Apply ==
  /\ secret # None => secret.owner # None
  /\ \E s \in applied' : /\ applied' = applied \cup {s}
                         /\ secret' = [owner |-> s.ssUID, data |-> s.data]
  /\ UNCHANGED object

\* A sync is recorded in the object: of a state of this very object at its
\* present generation, after it was applied, and never at an earlier time.
Record ==
  /\ object # None /\ object' # None
  /\ \E s \in applied :
       /\ s.ssUID = object.uid /\ s.ssGeneration = object.generation
       /\ object' = [uid |-> object.uid, generation |-> object.generation,
                     recorded |-> s, time |-> object'.time]
  /\ object.recorded # None => object'.time >= object.time
  /\ UNCHANGED <<secret, applied>>

\* A user makes a Secret of that name; a user or the collector removes one.
Occupy ==
  /\ secret = None /\ secret' # None
  /\ secret'.owner = None
  /\ UNCHANGED <<object, applied>>

Remove ==
  /\ secret # None /\ secret' = None
  /\ UNCHANGED <<object, applied>>

Next == Create \/ Edit \/ Delete \/ Apply \/ Record \/ Occupy \/ Remove

Spec == Init /\ [][Next]_vars
=============================================================================
