--------------------------- MODULE MCVbaTranslation ---------------------------
(* VbaTranslation with replies of at most five tokens: enough for a block in  *)
(* the explanation and one behind the delimiter that shares no fence with it. *)
EXTENDS VbaTranslation

MCReplies ==
    {r \in SeqOf(Tokens, 5) :
        \A i \in 1..(Len(r) - 1) : r[i] = "fence" => r[i + 1] # "fence"}
=============================================================================
