---------------------------- MODULE DirectoryService ----------------------------
(***************************************************************************)
(* What listing an open directory promises: its entries come one at a      *)
(* time, in their order on disk, each at most once since it was opened; a  *)
(* call ends without an error when none is left, and before that only when *)
(* the client has refused an entry, which then is lost.  (That every call  *)
(* ends is EveryReadDirReturns of ReadDirectory.)                          *)
(***************************************************************************)
EXTENDS Integers

CONSTANTS
  Handles, Threads, Directories, Errors, NULL,
  Listed(_),         \* the entries of a directory
  Precedes(_, _)     \* their order on disk

VARIABLES
  left,              \* left[h]: the entries that h has still to list, NULL if closed
  call               \* call[t]: the call that thread t is serving, or NULL

vars == <<left, call>>

Init ==
  /\ left = [h \in Handles |-> NULL]
  /\ call = [t \in Threads |-> NULL]

Used(h) == \E t \in Threads : call[t] # NULL /\ call[t].handle = h

Open(h, k) ==
  /\ left[h] = NULL
  /\ left' = [left EXCEPT ![h] = Listed(k)]
  /\ UNCHANGED call

Close(h) ==
  /\ left[h] # NULL
  /\ ~Used(h)
  /\ left' = [left EXCEPT ![h] = NULL]
  /\ UNCHANGED call

Ask(t, h) ==
  /\ call[t] = NULL
  /\ left[h] # NULL
  /\ ~Used(h)
  /\ call' = [call EXCEPT ![t] = [handle |-> h, refused |-> FALSE, answer |-> NULL]]
  /\ UNCHANGED left

\* The first entry that is left leaves; the client takes it, or not.
Leaves(t) ==
  /\ call[t] # NULL
  /\ call[t].answer = NULL /\ ~call[t].refused
  /\ \E p \in left[call[t].handle] :
       /\ \A q \in left[call[t].handle] \ {p} : Precedes(p, q)
       /\ left' = [left EXCEPT ![call[t].handle] = @ \ {p}]

Give(t) == Leaves(t) /\ UNCHANGED call

Refuse(t) == Leaves(t) /\ call' = [call EXCEPT ![t].refused = TRUE]

Answer(t) ==
  /\ call[t] # NULL
  /\ call[t].answer = NULL
  /\ \/ call[t].refused /\ \E e \in Errors : call' = [call EXCEPT ![t].answer = e]
     \/ left[call[t].handle] = {} /\ call' = [call EXCEPT ![t].answer = "OK"]
  /\ UNCHANGED left

Return(t) ==
  /\ call[t] # NULL
  /\ call[t].answer # NULL
  /\ call' = [call EXCEPT ![t] = NULL]
  /\ UNCHANGED left

Serve(t) == Give(t) \/ Refuse(t) \/ Answer(t) \/ Return(t)

Next ==
  \/ \E h \in Handles, k \in Directories : Open(h, k)
  \/ \E h \in Handles : Close(h)
  \/ \E t \in Threads : Serve(t) \/ \E h \in Handles : Ask(t, h)

Spec == Init /\ [][Next]_vars
=============================================================================
