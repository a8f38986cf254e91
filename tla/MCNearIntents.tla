--------------------------- MODULE MCNearIntents ---------------------------
(* Instance of NearIntents for TLC: two claims of a refund the POA bridge    *)
(* withdraws, and one claim of a refund of every other kind.                 *)
EXTENDS NearIntents

OneClaimUnlessPoa ==
    asset # "poa" => Cardinality({c \in Claims : pc'[c] # "idle"}) <= 1
=============================================================================
