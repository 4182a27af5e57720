--------------------------- MODULE ReadWriteLock ---------------------------
(***************************************************************************)
(* What a reader/writer barrier promises, with nothing about how callers   *)
(* wait: any number of readers, or one writer, who may itself read.        *)
(***************************************************************************)
CONSTANTS Threads, None

VARIABLES reading,  \* the threads inside a read section
          writing   \* the thread inside the write section, or None

vars == <<reading, writing>>

Init == reading = {} /\ writing = None

BeginRead(t) ==
  /\ writing \in {None, t}
  /\ reading' = reading \union {t}
  /\ UNCHANGED writing

EndRead(t) ==
  /\ t \in reading
  /\ reading' = reading \ {t}
  /\ UNCHANGED writing

BeginWrite(t) ==
  /\ writing = None
  /\ reading = {}
  /\ writing' = t
  /\ UNCHANGED reading

EndWrite(t) ==
  /\ writing = t
  /\ reading = {}
  /\ writing' = None
  /\ UNCHANGED reading

Next == \E t \in Threads : BeginRead(t) \/ EndRead(t) \/ BeginWrite(t) \/ EndWrite(t)

Spec == Init /\ [][Next]_vars
=============================================================================
