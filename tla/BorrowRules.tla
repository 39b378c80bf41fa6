----------------------------- MODULE BorrowRules -----------------------------
(***************************************************************************)
(* What the arenas of poni-arena promise: a key names one object for ever, *)
(* and every object is borrowed by any number of readers or by one writer. *)
(* A program that asks for more is stopped; no other is.                   *)
(***************************************************************************)
EXTENDS Naturals, Sequences

CONSTANTS
    Obj,        \* what is put into the arena
    Guard       \* the borrows that can be held at a time

VARIABLES
    named,      \* the key k names named[k]
    readers,    \* per object, the guards that read it
    writers,    \* per object, the guards that write it
    stopped     \* "none", or the kind of borrow that was refused

vars == <<named, readers, writers, stopped>>

Running == stopped = "none"
Named == {named[k] : k \in DOMAIN named}

Init == /\ named = <<>> /\ stopped = "none"
        /\ readers = [o \in Obj |-> {}] /\ writers = [o \in Obj |-> {}]

Push == /\ Running
        /\ \E o \in Obj \ Named : named' = Append(named, o)
        /\ UNCHANGED <<readers, writers, stopped>>

Read(o) == /\ Running /\ writers[o] = {}
           /\ \E g \in Guard \ readers[o] :
                 readers' = [readers EXCEPT ![o] = @ \cup {g}]
           /\ UNCHANGED <<named, writers, stopped>>

Write(o) == /\ Running /\ writers[o] = {} /\ readers[o] = {}
            /\ \E g \in Guard : writers' = [writers EXCEPT ![o] = {g}]
            /\ UNCHANGED <<named, readers, stopped>>

Release(o) == /\ Running
              /\ \E g \in readers[o] \cup writers[o] :
                    /\ readers' = [readers EXCEPT ![o] = @ \ {g}]
                    /\ writers' = [writers EXCEPT ![o] = @ \ {g}]
              /\ UNCHANGED <<named, stopped>>

(* Somebody wants to read what is written, or to write what is borrowed.   *)
Refuse(kind) == Running /\ stopped' = kind /\ UNCHANGED <<named, readers, writers>>
RefuseRead(o) == writers[o] # {} /\ Refuse("read")
RefuseWrite(o) == readers[o] \cup writers[o] # {} /\ Refuse("write")

Next == \/ Push
        \/ \E o \in Named : Read(o) \/ Write(o) \/ Release(o) \/ RefuseRead(o) \/ RefuseWrite(o)

Spec == Init /\ [][Next]_vars
==============================================================================
