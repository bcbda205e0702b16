----------------------------- MODULE MCGateway -----------------------------
(* Instances of Gateway for TLC: two slack actions, two conversations.     *)
EXTENDS Gateway

Act(v)  == [resource |-> "", verb |-> v]
Send    == Act("send_message")
Read    == Act("read_messages")
Eng == [raw |-> [form |-> "#name", text |-> "eng"], exact |-> [form |-> "id", text |-> "C1"],
        id |-> "C1", name |-> "eng", kind |-> "public"]
Dm  == [raw |-> [form |-> "rawId", text |-> "D1"], exact |-> [form |-> "id", text |-> "D1"],
        id |-> "D1", name |-> "", kind |-> "dm"]

MCActions == {Send, Read}
MCTargets == {Eng, Dm}
MCCapabilities == [c \in {"post", "read"} |-> IF c = "post" THEN {Send} ELSE {Read}]
MCLimit == [a \in MCActions |-> IF a = Send THEN 1 ELSE 0]

G(mode, verb, scope) == [mode |-> mode, subject |-> Act(verb), scopes |-> {scope}]
Class(c) == [form |-> "class", text |-> c]
EngId    == [form |-> "id", text |-> "C1"]

\* Grants that ask for everything, that tell classes apart, that deny a
\* class, and that ask for one conversation only.
MCManifests ==
  { <<G("ask", "*", AnyScope)>>,
    <<G("ask", "post", Class("channels/*")), G("on", "post", Class("dm/*"))>>,
    <<G("ask", "post", AnyScope), G("off", "post", Class("dm/*")), G("on", "read", AnyScope)>>,
    <<G("ask", "read", EngId), G("on", "post", [form |-> "#name", text |-> "eng"])>> }
=============================================================================
