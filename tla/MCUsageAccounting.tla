-------------------------- MODULE MCUsageAccounting --------------------------
(* UsageAccounting with two AmSC projects mapped to one service user, a    *)
(* project mapped to a bare user name, and an API key of that user.        *)
EXTENDS UsageAccounting

MCUserOf == [c \in Credential |-> IF c \in {"materials", "climate"} THEN "svc" ELSE "alice"]
MCAccountOf == [c \in Keycard |->
    CASE c = "materials" -> "acct1" [] c = "climate" -> "acct2" [] c = "seed" -> None]
=============================================================================
