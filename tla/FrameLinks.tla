----------------------------- MODULE FrameLinks ------------------------------
(***************************************************************************)
(* What linkup and cutoff promise: frames of a publisher's track reach the  *)
(* subscribers that are linked to it, and no others.  FrameRouting is shown *)
(* to implement this specification.                                         *)
(***************************************************************************)
EXTENDS FiniteSets

CONSTANTS Pubs, Subs, Kinds

VARIABLES
    links,      \* the <<publisher, subscriber, kind>> that are linked
    last        \* what was done last, and to which link or track

vars == <<links, last>>

Init == links = {} /\ last = <<"none">>

Link(p, s, k) == /\ links' = links \cup {<<p, s, k>>}
                 /\ last' = <<"link", p, s, k>>

Cut(p, s, k) == /\ links' = links \ {<<p, s, k>>}
                /\ last' = <<"cut", p, s, k>>

Deliver(p, s, k) == /\ <<p, s, k>> \in links
                    /\ last' = <<"deliver", p, s, k>>
                    /\ UNCHANGED links

Close(x, k) == /\ links' = {l \in links : ~(x \in {l[1], l[2]} /\ k = l[3])}
               /\ last' = <<"close", x, k>>

Next == \/ \E p \in Pubs, s \in Subs, k \in Kinds :
             Link(p, s, k) \/ Cut(p, s, k) \/ Deliver(p, s, k)
        \/ \E x \in Pubs \cup Subs, k \in Kinds : Close(x, k)

Spec == Init /\ [][Next]_vars

=============================================================================
