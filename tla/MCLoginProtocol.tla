---------------------------- MODULE MCLoginProtocol ----------------------------
(***************************************************************************)
(* Instances of LoginProtocol.  The stray packets have the ids of the      *)
(* state, ids that reach the rows of the other states, and one in front of *)
(* the table; for each handler a body that it turns down, those that it    *)
(* takes, and one that does not fit.                                       *)
(***************************************************************************)
EXTENDS LoginProtocol

MCStrayPackets ==
    ({-12, -6, -5, 0, 1, 3, 6, 7} \X {"other"})
        \union ({-12, 0} \X {"STATUS", "LOGIN"}) \union {<<-6, "LOGIN">>}
        \union ({1, 7} \X {"token"})
        \union ({0, 1} \X {"misfit"})
=============================================================================
