--------------------------- MODULE AbstractRWLock ---------------------------
(* What a readers-writer lock promises: writers exclude everybody. *)
CONSTANT Threads

VARIABLES reading, writing  \* the threads that hold the lock either way

vars == <<reading, writing>>

Init == reading = {} /\ writing = {}

Read(t) ==
  /\ writing = {}
  /\ reading' = reading \cup {t}
  /\ UNCHANGED writing

Write(t) ==
  /\ reading = {} /\ writing = {}
  /\ writing' = {t}
  /\ UNCHANGED reading

Done(t) ==
  /\ t \in reading \cup writing
  /\ reading' = reading \ {t}
  /\ writing' = writing \ {t}

Next == \E t \in Threads : Read(t) \/ Write(t) \/ Done(t)

Spec == Init /\ [][Next]_vars
=============================================================================
