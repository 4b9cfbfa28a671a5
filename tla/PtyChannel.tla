----------------------------- MODULE PtyChannel -----------------------------
(***************************************************************************)
(* What a pseudo terminal promises to those that hold a descriptor of it:  *)
(* a first-in, first-out channel of the last Size bytes written.  It opens *)
(* empty, and a channel that was closed is never opened again.             *)
(***************************************************************************)
EXTENDS Integers, Sequences

CONSTANTS
    Size,       \* how many bytes a channel keeps
    Byte,       \* the bytes
    Id          \* the names of channels

VARIABLES
    content,    \* the bytes in each channel
    open,       \* the channels that are open
    closed,     \* the channels that were
    got         \* what the last step read

vars == <<content, open, closed, got>>

Init ==
    /\ content = [i \in Id |-> <<>>]
    /\ open = {}
    /\ closed = {}
    /\ got = <<>>

Open(i) ==
    /\ i \notin open \cup closed
    /\ open' = open \cup {i}
    /\ got' = <<>>
    /\ UNCHANGED <<content, closed>>

\* Several channels at once, when the process that held them exits.
Close(S) ==
    /\ S \subseteq open
    /\ open' = open \ S
    /\ closed' = closed \cup S
    /\ content' = [i \in Id |-> IF i \in S THEN <<>> ELSE content[i]]
    /\ got' = <<>>

\* A full channel forgets its oldest byte.
Write(i, b) ==
    /\ i \in open
    /\ content' = [content EXCEPT ![i] =
                      Append(IF Len(@) = Size THEN Tail(@) ELSE @, b)]
    /\ got' = <<>>
    /\ UNCHANGED <<open, closed>>

\* A read takes the oldest byte, or nothing from an empty channel.
Read(i) ==
    /\ i \in open
    /\ IF content[i] = <<>>
       THEN got' = <<>> /\ UNCHANGED content
       ELSE /\ got' = <<Head(content[i])>>
            /\ content' = [content EXCEPT ![i] = Tail(@)]
    /\ UNCHANGED <<open, closed>>

Next ==
    \/ \E i \in Id : Open(i) \/ Read(i) \/ \E b \in Byte : Write(i, b)
    \/ \E S \in SUBSET Id : Close(S)

Spec == Init /\ [][Next]_vars
=============================================================================
