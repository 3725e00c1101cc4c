------------------------------ MODULE FileService ------------------------------
(***************************************************************************)
(* What reading from the mounted file system promises: a read of an open   *)
(* file answers, at one instant, with the bytes of that file in the range  *)
(* asked for, or with an error when the range starts beyond its end.       *)
(* Files are immutable, so the answer depends on the request alone.        *)
(***************************************************************************)
EXTENDS Integers, Sequences

CONSTANTS
  Files, Handles, Threads, Offsets, Sizes, NULL,
  Eof(_),            \* length of a file
  Content(_, _),     \* Content(f, o): byte of file f at offset o
  OutOfRange         \* the error answer

VARIABLES
  opened,            \* opened[h]: the file h was opened on, or NULL
  request            \* request[t]: the read thread t is serving, or NULL

vars == <<opened, request>>

\* The bytes of f from off on, at most size of them.
Range(f, off, size) ==
  LET n == IF off + size <= Eof(f) THEN size ELSE Eof(f) - off
  IN  [k \in 1 .. n |-> Content(f, off + k - 1)]

Answer(f, off, size) == IF off > Eof(f) THEN OutOfRange ELSE Range(f, off, size)

Init ==
  /\ opened = [h \in Handles |-> NULL]
  /\ request = [t \in Threads |-> NULL]

Open(h, f) ==
  /\ opened[h] = NULL
  /\ opened' = [opened EXCEPT ![h] = f]
  /\ UNCHANGED request

Close(h) ==
  /\ opened[h] # NULL
  /\ \A t \in Threads : request[t] # NULL => request[t].handle # h
  /\ opened' = [opened EXCEPT ![h] = NULL]
  /\ UNCHANGED request

Ask(t, h, off, size) ==
  /\ request[t] = NULL
  /\ opened[h] # NULL
  /\ request' = [request EXCEPT ![t] =
                  [handle |-> h, off |-> off, size |-> size, answer |-> NULL]]
  /\ UNCHANGED opened

Serve(t) ==
  /\ request[t] # NULL
  /\ request[t].answer = NULL
  /\ request' = [request EXCEPT ![t].answer =
                  Answer(opened[request[t].handle], request[t].off, request[t].size)]
  /\ UNCHANGED opened

Return(t) ==
  /\ request[t] # NULL
  /\ request[t].answer # NULL
  /\ request' = [request EXCEPT ![t] = NULL]
  /\ UNCHANGED opened

Next ==
  \/ \E h \in Handles, f \in Files : Open(h, f)
  \/ \E h \in Handles : Close(h)
  \/ \E t \in Threads, h \in Handles, off \in Offsets, size \in Sizes : Ask(t, h, off, size)
  \/ \E t \in Threads : Serve(t) \/ Return(t)

Spec == Init /\ [][Next]_vars /\ \A t \in Threads : WF_vars(Serve(t) \/ Return(t))
=============================================================================
