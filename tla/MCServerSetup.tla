--------------------------- MODULE MCServerSetup ---------------------------
(* Instances of ServerSetup small enough for TLC. *)
EXTENDS ServerSetup

Binding == {"kind", "all", "followed", "bindrso", "remove"}
Timing  == {"day", "hour", "pinned", "remove"}
Posting == {"channel", "unbind", "toggle", "remove"}

\* Two managers at once, the website, the gateway and the posts, each scene about
\* one part of what is held; longer sequences of one manager; and one manager
\* alone with the panels in front of them.
Scene(verbs, managers, most, happens) ==
  [verbs |-> verbs, managers |-> managers, walking |-> FALSE, on |-> {}, answers |-> most, events |-> happens]

MCScenes ==
  {Scene(v, Managers, 2, 2) : v \in {Binding, Timing, Posting}}
    \cup {Scene(Binding, {Walker}, 3, 1), Scene(Timing, {Walker}, 3, 2)}
    \cup {[Scene(Posting, {Walker}, 3, 2) EXCEPT !.on = {"announce.new"}]}
    \cup {[Scene(Binding \cup Timing \cup Posting, {Walker}, 2, 0) EXCEPT !.walking = TRUE]}

MCRsos == {"acm", "ieee"}
MCDays == {"mon", "tue"}
MCSwitchable == {"announce.new", "mirror.scheduled"}
MCPurposes == {"announcements"}
=============================================================================
