----------------------------- MODULE MCService -----------------------------
(* A game type "g" with a fleet "f" and its server "s", a fleet of a user   *)
(* that has the name of the game type, and a server "u" of a user, whose    *)
(* name is used twice.                                                      *)
EXTENDS Service

Game == <<"gametypes", "g">>
Namesake == <<"fleets", "g">>
Fleet == <<"fleets", "f">>
Owned == <<"servers", "s">>
Users == <<"servers", "u">>

AllObjects == {Game, Namesake, Fleet, Owned, Users}
FewObjects == AllObjects \ {Owned}
MCOwner == [o \in AllObjects |-> CASE o = Fleet -> Game [] o = Owned -> Fleet
                                  [] OTHER -> NoOwner]
MCMaxUid == [o \in AllObjects |-> IF o = Users THEN 2 ELSE 1]

Plain(method, path, name, force) == Request(method, path, name, force, "none", NoValue)

MCRequests ==
    {Plain("POST", "game", "g", FALSE), Plain("DELETE", "game", "g", TRUE),
     Plain("POST", "fleet", "g", FALSE), Plain("DELETE", "fleet", "f", TRUE),
     Plain("POST", "server", "u", FALSE), Plain("DELETE", "server", "u", TRUE),
     Plain("POST", "scaler", "u", FALSE), Plain("DELETE", "scaler", "u", FALSE),
     Request("POST", "labels", "u", FALSE, "k", "a"),
     Request("DELETE", "labels", "u", FALSE, "server", NoValue)}
=============================================================================
