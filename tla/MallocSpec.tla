---------------------------- MODULE MallocSpec ----------------------------
(***************************************************************************)
(* What a malloc()/free() pair promises its client, whatever is behind it: *)
(* a block handed out is not in the client's hands already, it has the     *)
(* size that was asked for, it stays the client's until the client frees   *)
(* it, freeing a block of one's own never ends the program, and a request  *)
(* may always be answered with NULL.                                       *)
(***************************************************************************)

CONSTANTS
  Ptr,       \* the addresses a block may have
  Size,      \* the sizes a client may ask for
  Supported, \* those the allocator answers
  NULL

VARIABLES
  live,    \* the blocks the client owns: a set of [ptr, size]
  refused, \* the size just refused, if the last call answered NULL
  exited   \* why the program was ended by exit(1), or "no"

vars == <<live, refused, exited>>

Init ==
  /\ live = {}
  /\ refused = NULL
  /\ exited = "no"

Malloc(sz, p) ==
  /\ p \notin {b.ptr : b \in live}
  /\ live' = live \cup {[ptr |-> p, size |-> sz]}
  /\ refused' = NULL
  /\ UNCHANGED exited

MallocFails(sz) ==
  /\ refused' = sz
  /\ UNCHANGED <<live, exited>>

Free(b) ==
  /\ live' = live \ {b}
  /\ refused' = NULL
  /\ UNCHANGED exited

(* A size the allocator was not built for ends the program. *)
Exit(sz) ==
  /\ refused' = NULL
  /\ exited' = "unsupported"
  /\ UNCHANGED live

Next ==
  /\ exited = "no"
  /\ \/ \E sz \in Supported, p \in Ptr : Malloc(sz, p)
     \/ \E sz \in Supported : MallocFails(sz)
     \/ \E b \in live : Free(b)
     \/ \E sz \in Size \ Supported : Exit(sz)

Spec == Init /\ [][Next]_vars

===========================================================================
