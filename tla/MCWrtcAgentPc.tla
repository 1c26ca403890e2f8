--------------------------- MODULE MCWrtcAgentPc ----------------------------
(***************************************************************************)
(* Offers for model checking WrtcAgentPc: one that does not parse, one that *)
(* cannot be negotiated, and accepted ones that differ in each property the *)
(* connection looks at.                                                    *)
(***************************************************************************)
EXTENDS WrtcAgentPc

Accepted(medias, isBundle, mux, secure) ==
    [parses |-> TRUE, negotiates |-> TRUE, medias |-> medias,
     bundle |-> isBundle, mux |-> mux, secure |-> secure]

Bundled == Accepted(<<"audio", "video">>, TRUE, TRUE, TRUE)

MCOffers ==
    {Bundled,
     [Bundled EXCEPT !.parses = FALSE],
     [Bundled EXCEPT !.negotiates = FALSE],
     [Bundled EXCEPT !.mux = FALSE],
     [Bundled EXCEPT !.secure = FALSE],
     Accepted(<<>>, TRUE, TRUE, TRUE),
     Accepted(<<"audio">>, FALSE, TRUE, TRUE),
     Accepted(<<"video">>, FALSE, TRUE, TRUE),
     Accepted(<<"audio", "video">>, FALSE, TRUE, TRUE)}

=============================================================================
