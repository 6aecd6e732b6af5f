------------------------------ MODULE MCServer ------------------------------
(***************************************************************************)
(* The instance of Server that TLC checks.                                 *)
(***************************************************************************)
EXTENDS Server

Operations ==
    {"read", "compare", "compensate", "loseRace", "createEvent", "recommend", "revokeKey", "rotateKey"}
WithKeys == {"read"}
=============================================================================
