--------------------------- MODULE MessageChannel ---------------------------
(***************************************************************************)
(* What a connection promises to the code that uses it: the messages handed *)
(* over on one side come out on the other side whole, in order, once.       *)
(* Window bounds the messages under way. Both the engine's network          *)
(* (Datagram) and the sockets between games (Transport) are shown to        *)
(* implement it. A connection that breaks takes no more steps.              *)
(***************************************************************************)
EXTENDS Naturals, Sequences

CONSTANTS Message, Window

VARIABLES sent, delivered

vars == <<sent, delivered>>

Init == sent = <<>> /\ delivered = <<>>

Send(m) ==
    /\ Len(sent) < Len(delivered) + Window
    /\ sent' = Append(sent, m)
    /\ UNCHANGED delivered

Deliver ==
    /\ Len(delivered) < Len(sent)
    /\ delivered' = Append(delivered, sent[Len(delivered) + 1])
    /\ UNCHANGED sent

Next == Deliver \/ \E m \in Message : Send(m)

Spec == Init /\ [][Next]_vars

=============================================================================
