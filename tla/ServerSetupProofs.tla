------------------------- MODULE ServerSetupProofs -------------------------
(***************************************************************************)
(* Proofs about ServerSetup: where each actor can be, what is held under   *)
(* the writes of several of them, what the bot reports, leaves alone and   *)
(* switches off, and how the panels lead to one another.                   *)
(***************************************************************************)
EXTENDS ServerSetup, FiniteSetTheorems, SequenceTheorems, TLAPS

-----------------------------------------------------------------------------
(* What may be left of an operation, and which step is where.              *)

Ops == {"none", "kind", "all", "followed", "bindrso", "day", "hour", "pinned",
        "channel", "unbind", "toggle", "remove", "unbound", "leave", "post"}

LEMMA WaysOf ==
  /\ Ways("none") =
       {<<>>}
  /\ Ways("kind") =
       {<<"read", "setKind", "read">>, <<"setKind", "read">>, <<"read">>}
  /\ Ways("all") =
       {<<"read", "bindAll", "unfollow", "read">>, <<"bindAll", "unfollow", "read">>,
        <<"unfollow", "read">>, <<"read">>}
  /\ Ways("followed") =
       {<<"read", "bindSet", "unfollow", "follow", "read">>,
        <<"bindSet", "unfollow", "follow", "read">>, <<"unfollow", "follow", "read">>,
        <<"follow", "read">>, <<"read">>}
  /\ Ways("bindrso") =
       {<<"read", "confirm", "bindRso", "readBinding", "report", "read">>,
        <<"confirm", "bindRso", "readBinding", "report", "read">>,
        <<"bindRso", "readBinding", "report", "read">>, <<"readBinding", "report", "read">>,
        <<"report", "read">>, <<"read">>}
  /\ Ways("day") =
       {<<"read", "setSchedule", "read">>, <<"setSchedule", "read">>, <<"read">>}
  /\ Ways("hour") =
       {<<"read", "setSchedule", "read">>, <<"setSchedule", "read">>, <<"read">>}
  /\ Ways("pinned") =
       {<<"read", "setPinned", "read">>, <<"setPinned", "read">>, <<"read">>}
  /\ Ways("channel") =
       {<<"read", "bindChannel", "read">>, <<"bindChannel", "read">>, <<"read">>}
  /\ Ways("unbind") =
       {<<"read", "unbindChannel", "read">>, <<"unbindChannel", "read">>, <<"read">>}
  /\ Ways("toggle") =
       {<<"read", "readFeature", "setFeature", "read">>, <<"readFeature", "setFeature", "read">>,
        <<"setFeature", "read">>, <<"read">>}
  /\ Ways("remove") =
       {<<"removeGuild">>}
  /\ Ways("unbound") =
       {<<"readInstruction", "disconnect", "advance">>, <<"disconnect", "advance">>, <<"advance">>}
  /\ Ways("leave") =
       {<<"removeGuild", "forget">>, <<"forget">>}
  /\ Ways("post") =
       {<<"isEnabled", "listChannels", "switchOff", "getInstallation", "intend", "sendNotice", "recordNotice">>,
        <<"listChannels", "switchOff", "getInstallation", "intend", "sendNotice", "recordNotice">>,
        <<"switchOff", "getInstallation", "intend", "sendNotice", "recordNotice">>,
        <<"getInstallation", "intend", "sendNotice", "recordNotice">>,
        <<"intend", "sendNotice", "recordNotice">>, <<"sendNotice", "recordNotice">>,
        <<"recordNotice">>}
<1>1. Ways("none") =
       {<<>>}
  <2>1. Steps("none") = <<>>
    BY DEF Steps
  <2>2. /\ After(<<>>) = <<>>
    BY DEF After
  <2>3. TRUE
    OBVIOUS
  <2> QED BY <2>1, <2>2, <2>3, Zenon DEF Ways
<1>2. Ways("kind") =
       {<<"read", "setKind", "read">>, <<"setKind", "read">>, <<"read">>}
  <2>1. Steps("kind") = <<"read", "setKind", "read">>
    BY DEF Steps
  <2>2. /\ After(<<"read", "setKind", "read">>) = <<"setKind", "read">>
        /\ After(<<"setKind", "read">>) = <<"read">>
        /\ After(<<"read">>) = <<>>
        /\ After(<<>>) = <<>>
    BY DEF After
  <2>3. /\ <<"read", "setKind", "read">> # <<>>
        /\ <<"setKind", "read">> # <<>>
        /\ <<"read">> # <<>>
    OBVIOUS
  <2> QED BY <2>1, <2>2, <2>3, Zenon DEF Ways
<1>3. Ways("all") =
       {<<"read", "bindAll", "unfollow", "read">>, <<"bindAll", "unfollow", "read">>,
        <<"unfollow", "read">>, <<"read">>}
  <2>1. Steps("all") = <<"read", "bindAll", "unfollow", "read">>
    BY DEF Steps
  <2>2. /\ After(<<"read", "bindAll", "unfollow", "read">>) = <<"bindAll", "unfollow", "read">>
        /\ After(<<"bindAll", "unfollow", "read">>) = <<"unfollow", "read">>
        /\ After(<<"unfollow", "read">>) = <<"read">>
        /\ After(<<"read">>) = <<>>
        /\ After(<<>>) = <<>>
    BY DEF After
  <2>3. /\ <<"read", "bindAll", "unfollow", "read">> # <<>>
        /\ <<"bindAll", "unfollow", "read">> # <<>>
        /\ <<"unfollow", "read">> # <<>>
        /\ <<"read">> # <<>>
    OBVIOUS
  <2> QED BY <2>1, <2>2, <2>3, Zenon DEF Ways
<1>4. Ways("followed") =
       {<<"read", "bindSet", "unfollow", "follow", "read">>,
        <<"bindSet", "unfollow", "follow", "read">>, <<"unfollow", "follow", "read">>,
        <<"follow", "read">>, <<"read">>}
  <2>1. Steps("followed") = <<"read", "bindSet", "unfollow", "follow", "read">>
    BY DEF Steps
  <2>2. /\ After(<<"read", "bindSet", "unfollow", "follow", "read">>) =
             <<"bindSet", "unfollow", "follow", "read">>
        /\ After(<<"bindSet", "unfollow", "follow", "read">>) = <<"unfollow", "follow", "read">>
        /\ After(<<"unfollow", "follow", "read">>) = <<"follow", "read">>
        /\ After(<<"follow", "read">>) = <<"read">>
        /\ After(<<"read">>) = <<>>
        /\ After(<<>>) = <<>>
    BY DEF After
  <2>3. /\ <<"read", "bindSet", "unfollow", "follow", "read">> # <<>>
        /\ <<"bindSet", "unfollow", "follow", "read">> # <<>>
        /\ <<"unfollow", "follow", "read">> # <<>>
        /\ <<"follow", "read">> # <<>>
        /\ <<"read">> # <<>>
    OBVIOUS
  <2> QED BY <2>1, <2>2, <2>3, Zenon DEF Ways
<1>5. Ways("bindrso") =
       {<<"read", "confirm", "bindRso", "readBinding", "report", "read">>,
        <<"confirm", "bindRso", "readBinding", "report", "read">>,
        <<"bindRso", "readBinding", "report", "read">>, <<"readBinding", "report", "read">>,
        <<"report", "read">>, <<"read">>}
  <2>1. Steps("bindrso") = <<"read", "confirm", "bindRso", "readBinding", "report", "read">>
    BY DEF Steps, BindToRso
  <2>2. /\ After(<<"read", "confirm", "bindRso", "readBinding", "report", "read">>) =
             <<"confirm", "bindRso", "readBinding", "report", "read">>
        /\ After(<<"confirm", "bindRso", "readBinding", "report", "read">>) =
             <<"bindRso", "readBinding", "report", "read">>
        /\ After(<<"bindRso", "readBinding", "report", "read">>) =
             <<"readBinding", "report", "read">>
        /\ After(<<"readBinding", "report", "read">>) = <<"report", "read">>
        /\ After(<<"report", "read">>) = <<"read">>
        /\ After(<<"read">>) = <<>>
        /\ After(<<>>) = <<>>
    BY DEF After
  <2>3. /\ <<"read", "confirm", "bindRso", "readBinding", "report", "read">> # <<>>
        /\ <<"confirm", "bindRso", "readBinding", "report", "read">> # <<>>
        /\ <<"bindRso", "readBinding", "report", "read">> # <<>>
        /\ <<"readBinding", "report", "read">> # <<>>
        /\ <<"report", "read">> # <<>>
        /\ <<"read">> # <<>>
    OBVIOUS
  <2> QED BY <2>1, <2>2, <2>3, Zenon DEF Ways
<1>6. Ways("day") =
       {<<"read", "setSchedule", "read">>, <<"setSchedule", "read">>, <<"read">>}
  <2>1. Steps("day") = <<"read", "setSchedule", "read">>
    BY DEF Steps
  <2>2. /\ After(<<"read", "setSchedule", "read">>) = <<"setSchedule", "read">>
        /\ After(<<"setSchedule", "read">>) = <<"read">>
        /\ After(<<"read">>) = <<>>
        /\ After(<<>>) = <<>>
    BY DEF After
  <2>3. /\ <<"read", "setSchedule", "read">> # <<>>
        /\ <<"setSchedule", "read">> # <<>>
        /\ <<"read">> # <<>>
    OBVIOUS
  <2> QED BY <2>1, <2>2, <2>3, Zenon DEF Ways
<1>7. Ways("hour") =
       {<<"read", "setSchedule", "read">>, <<"setSchedule", "read">>, <<"read">>}
  <2>1. Steps("hour") = <<"read", "setSchedule", "read">>
    BY DEF Steps
  <2>2. /\ After(<<"read", "setSchedule", "read">>) = <<"setSchedule", "read">>
        /\ After(<<"setSchedule", "read">>) = <<"read">>
        /\ After(<<"read">>) = <<>>
        /\ After(<<>>) = <<>>
    BY DEF After
  <2>3. /\ <<"read", "setSchedule", "read">> # <<>>
        /\ <<"setSchedule", "read">> # <<>>
        /\ <<"read">> # <<>>
    OBVIOUS
  <2> QED BY <2>1, <2>2, <2>3, Zenon DEF Ways
<1>8. Ways("pinned") =
       {<<"read", "setPinned", "read">>, <<"setPinned", "read">>, <<"read">>}
  <2>1. Steps("pinned") = <<"read", "setPinned", "read">>
    BY DEF Steps
  <2>2. /\ After(<<"read", "setPinned", "read">>) = <<"setPinned", "read">>
        /\ After(<<"setPinned", "read">>) = <<"read">>
        /\ After(<<"read">>) = <<>>
        /\ After(<<>>) = <<>>
    BY DEF After
  <2>3. /\ <<"read", "setPinned", "read">> # <<>>
        /\ <<"setPinned", "read">> # <<>>
        /\ <<"read">> # <<>>
    OBVIOUS
  <2> QED BY <2>1, <2>2, <2>3, Zenon DEF Ways
<1>9. Ways("channel") =
       {<<"read", "bindChannel", "read">>, <<"bindChannel", "read">>, <<"read">>}
  <2>1. Steps("channel") = <<"read", "bindChannel", "read">>
    BY DEF Steps
  <2>2. /\ After(<<"read", "bindChannel", "read">>) = <<"bindChannel", "read">>
        /\ After(<<"bindChannel", "read">>) = <<"read">>
        /\ After(<<"read">>) = <<>>
        /\ After(<<>>) = <<>>
    BY DEF After
  <2>3. /\ <<"read", "bindChannel", "read">> # <<>>
        /\ <<"bindChannel", "read">> # <<>>
        /\ <<"read">> # <<>>
    OBVIOUS
  <2> QED BY <2>1, <2>2, <2>3, Zenon DEF Ways
<1>10. Ways("unbind") =
       {<<"read", "unbindChannel", "read">>, <<"unbindChannel", "read">>, <<"read">>}
  <2>1. Steps("unbind") = <<"read", "unbindChannel", "read">>
    BY DEF Steps
  <2>2. /\ After(<<"read", "unbindChannel", "read">>) = <<"unbindChannel", "read">>
        /\ After(<<"unbindChannel", "read">>) = <<"read">>
        /\ After(<<"read">>) = <<>>
        /\ After(<<>>) = <<>>
    BY DEF After
  <2>3. /\ <<"read", "unbindChannel", "read">> # <<>>
        /\ <<"unbindChannel", "read">> # <<>>
        /\ <<"read">> # <<>>
    OBVIOUS
  <2> QED BY <2>1, <2>2, <2>3, Zenon DEF Ways
<1>11. Ways("toggle") =
       {<<"read", "readFeature", "setFeature", "read">>, <<"readFeature", "setFeature", "read">>,
        <<"setFeature", "read">>, <<"read">>}
  <2>1. Steps("toggle") = <<"read", "readFeature", "setFeature", "read">>
    BY DEF Steps
  <2>2. /\ After(<<"read", "readFeature", "setFeature", "read">>) =
             <<"readFeature", "setFeature", "read">>
        /\ After(<<"readFeature", "setFeature", "read">>) = <<"setFeature", "read">>
        /\ After(<<"setFeature", "read">>) = <<"read">>
        /\ After(<<"read">>) = <<>>
        /\ After(<<>>) = <<>>
    BY DEF After
  <2>3. /\ <<"read", "readFeature", "setFeature", "read">> # <<>>
        /\ <<"readFeature", "setFeature", "read">> # <<>>
        /\ <<"setFeature", "read">> # <<>>
        /\ <<"read">> # <<>>
    OBVIOUS
  <2> QED BY <2>1, <2>2, <2>3, Zenon DEF Ways
<1>12. Ways("remove") =
       {<<"removeGuild">>}
  <2>1. Steps("remove") = <<"removeGuild">>
    BY DEF Steps
  <2>2. /\ After(<<"removeGuild">>) = <<>>
        /\ After(<<>>) = <<>>
    BY DEF After
  <2>3. /\ <<"removeGuild">> # <<>>
    OBVIOUS
  <2> QED BY <2>1, <2>2, <2>3, Zenon DEF Ways
<1>13. Ways("unbound") =
       {<<"readInstruction", "disconnect", "advance">>, <<"disconnect", "advance">>, <<"advance">>}
  <2>1. Steps("unbound") = <<"readInstruction", "disconnect", "advance">>
    BY DEF Steps
  <2>2. /\ After(<<"readInstruction", "disconnect", "advance">>) = <<"disconnect", "advance">>
        /\ After(<<"disconnect", "advance">>) = <<"advance">>
        /\ After(<<"advance">>) = <<>>
        /\ After(<<>>) = <<>>
    BY DEF After
  <2>3. /\ <<"readInstruction", "disconnect", "advance">> # <<>>
        /\ <<"disconnect", "advance">> # <<>>
        /\ <<"advance">> # <<>>
    OBVIOUS
  <2> QED BY <2>1, <2>2, <2>3, Zenon DEF Ways
<1>14. Ways("leave") =
       {<<"removeGuild", "forget">>, <<"forget">>}
  <2>1. Steps("leave") = <<"removeGuild", "forget">>
    BY DEF Steps, OnGuildDelete
  <2>2. /\ After(<<"removeGuild", "forget">>) = <<"forget">>
        /\ After(<<"forget">>) = <<>>
        /\ After(<<>>) = <<>>
    BY DEF After
  <2>3. /\ <<"removeGuild", "forget">> # <<>>
        /\ <<"forget">> # <<>>
    OBVIOUS
  <2> QED BY <2>1, <2>2, <2>3, Zenon DEF Ways
<1>15. Ways("post") =
       {<<"isEnabled", "listChannels", "switchOff", "getInstallation", "intend", "sendNotice", "recordNotice">>,
        <<"listChannels", "switchOff", "getInstallation", "intend", "sendNotice", "recordNotice">>,
        <<"switchOff", "getInstallation", "intend", "sendNotice", "recordNotice">>,
        <<"getInstallation", "intend", "sendNotice", "recordNotice">>,
        <<"intend", "sendNotice", "recordNotice">>, <<"sendNotice", "recordNotice">>,
        <<"recordNotice">>}
  <2>1. Steps("post") = <<"isEnabled", "listChannels", "switchOff", "getInstallation", "intend", "sendNotice", "recordNotice">>
    BY DEF Steps
  <2>2. /\ After(<<"isEnabled", "listChannels", "switchOff", "getInstallation", "intend", "sendNotice", "recordNotice">>) =
             <<"listChannels", "switchOff", "getInstallation", "intend", "sendNotice", "recordNotice">>
        /\ After(<<"listChannels", "switchOff", "getInstallation", "intend", "sendNotice", "recordNotice">>) =
             <<"switchOff", "getInstallation", "intend", "sendNotice", "recordNotice">>
        /\ After(<<"switchOff", "getInstallation", "intend", "sendNotice", "recordNotice">>) =
             <<"getInstallation", "intend", "sendNotice", "recordNotice">>
        /\ After(<<"getInstallation", "intend", "sendNotice", "recordNotice">>) =
             <<"intend", "sendNotice", "recordNotice">>
        /\ After(<<"intend", "sendNotice", "recordNotice">>) = <<"sendNotice", "recordNotice">>
        /\ After(<<"sendNotice", "recordNotice">>) = <<"recordNotice">>
        /\ After(<<"recordNotice">>) = <<>>
        /\ After(<<>>) = <<>>
    BY DEF After
  <2>3. /\ <<"isEnabled", "listChannels", "switchOff", "getInstallation", "intend", "sendNotice", "recordNotice">> # <<>>
        /\ <<"listChannels", "switchOff", "getInstallation", "intend", "sendNotice", "recordNotice">> # <<>>
        /\ <<"switchOff", "getInstallation", "intend", "sendNotice", "recordNotice">> # <<>>
        /\ <<"getInstallation", "intend", "sendNotice", "recordNotice">> # <<>>
        /\ <<"intend", "sendNotice", "recordNotice">> # <<>>
        /\ <<"sendNotice", "recordNotice">> # <<>>
        /\ <<"recordNotice">> # <<>>
    OBVIOUS
  <2> QED BY <2>1, <2>2, <2>3, Zenon DEF Ways
<1> QED BY <1>1, <1>2, <1>3, <1>4, <1>5, <1>6, <1>7, <1>8, <1>9, <1>10, <1>11, <1>12, <1>13, <1>14, <1>15

Then(todo, step) == Tail(todo) # <<>> /\ Head(Tail(todo)) = step
Last(todo) == Tail(todo) = <<>>
ToRedraw(todo) == Tail(todo) = <<"read">>

\* An actor at a step is in an operation that has it, and goes to the step that
\* follows it there.
Place(op, todo) ==
  /\ todo = <<>> <=> op = "none"
  /\ todo # <<>> =>
       /\ Head(todo) = "read" =>
            \/ todo = <<"read">> /\ Last(todo)
                 /\ op \notin {"none", "remove", "unbound", "leave", "post"}
            \/ op = "kind" /\ todo = Steps(op) /\ Then(todo, "setKind")
            \/ op = "all" /\ todo = Steps(op) /\ Then(todo, "bindAll")
            \/ op = "followed" /\ todo = Steps(op) /\ Then(todo, "bindSet")
            \/ op = "bindrso" /\ todo = Steps(op) /\ Then(todo, "confirm")
            \/ op \in {"day", "hour"} /\ todo = Steps(op) /\ Then(todo, "setSchedule")
            \/ op = "pinned" /\ todo = Steps(op) /\ Then(todo, "setPinned")
            \/ op = "channel" /\ todo = Steps(op) /\ Then(todo, "bindChannel")
            \/ op = "unbind" /\ todo = Steps(op) /\ Then(todo, "unbindChannel")
            \/ op = "toggle" /\ todo = Steps(op) /\ Then(todo, "readFeature")
       /\ Head(todo) = "setKind" => op = "kind" /\ ToRedraw(todo)
       /\ Head(todo) = "bindAll" => op = "all" /\ Then(todo, "unfollow")
       /\ Head(todo) = "unfollow" =>
            \/ op = "all" /\ ToRedraw(todo)
            \/ op = "followed" /\ Then(todo, "follow")
       /\ Head(todo) = "bindSet" => op = "followed" /\ Then(todo, "unfollow")
       /\ Head(todo) = "follow" => op = "followed" /\ ToRedraw(todo)
       /\ Head(todo) = "confirm" => op = "bindrso" /\ Then(todo, "bindRso")
       /\ Head(todo) = "bindRso" => op = "bindrso" /\ Then(todo, "readBinding")
       /\ Head(todo) = "readBinding" => op = "bindrso" /\ Then(todo, "report")
       /\ Head(todo) = "report" => op = "bindrso" /\ ToRedraw(todo)
       /\ Head(todo) = "setSchedule" => op \in {"day", "hour"} /\ ToRedraw(todo)
       /\ Head(todo) = "setPinned" => op = "pinned" /\ ToRedraw(todo)
       /\ Head(todo) = "bindChannel" => op = "channel" /\ ToRedraw(todo)
       /\ Head(todo) = "unbindChannel" => op = "unbind" /\ ToRedraw(todo)
       /\ Head(todo) = "readFeature" => op = "toggle" /\ Then(todo, "setFeature")
       /\ Head(todo) = "setFeature" => op = "toggle" /\ ToRedraw(todo)
       /\ Head(todo) = "removeGuild" =>
            \/ op = "remove" /\ Last(todo)
            \/ op = "leave" /\ Then(todo, "forget")
       /\ Head(todo) = "readInstruction" => op = "unbound" /\ Then(todo, "disconnect")
       /\ Head(todo) = "disconnect" => op = "unbound" /\ Then(todo, "advance")
       /\ Head(todo) = "advance" => op = "unbound" /\ Last(todo)
       /\ Head(todo) = "forget" => op = "leave" /\ Last(todo)
       /\ Head(todo) = "isEnabled" => op = "post" /\ Then(todo, "listChannels")
       /\ Head(todo) = "listChannels" => op = "post" /\ Then(todo, "switchOff")
       /\ Head(todo) = "switchOff" => op = "post" /\ Then(todo, "getInstallation")
       /\ Head(todo) = "getInstallation" => op = "post" /\ Then(todo, "intend")
       /\ Head(todo) = "intend" => op = "post" /\ Then(todo, "sendNotice")
       /\ Head(todo) = "sendNotice" => op = "post" /\ Then(todo, "recordNotice")
       /\ Head(todo) = "recordNotice" => op = "post" /\ Last(todo)
       /\ Tail(todo) # <<>> => Tail(todo) \in Ways(op) /\ Tail(todo) # Steps(op)

LEMMA WhereIs ==
  ASSUME NEW op \in Ops, NEW todo \in Ways(op)
  PROVE  Place(op, todo)
<1>1. CASE op = "none"
  <2>1. /\ Steps(op) = <<>>
        /\ Ways(op) = {<<>>}
    BY <1>1, WaysOf DEF Steps
  <2> QED BY <1>1, <2>1, Zenon DEF Place, Then, Last, ToRedraw
<1>2. CASE op = "kind"
  <2>1. /\ Steps(op) = <<"read", "setKind", "read">>
        /\ Ways(op) = {<<"read", "setKind", "read">>, <<"setKind", "read">>, <<"read">>}
    BY <1>2, WaysOf DEF Steps
  <2>2. /\ Head(<<"read", "setKind", "read">>) = "read"
        /\ Tail(<<"read", "setKind", "read">>) = <<"setKind", "read">>
        /\ Head(<<"setKind", "read">>) = "setKind"
        /\ Tail(<<"setKind", "read">>) = <<"read">>
        /\ Head(<<"read">>) = "read"
        /\ Tail(<<"read">>) = <<>>
    OBVIOUS
  <2>3. /\ <<"read", "setKind", "read">> # <<>>
        /\ <<"setKind", "read">> # <<>>
        /\ <<"read">> # <<>>
        /\ <<"setKind", "read">> # <<"read", "setKind", "read">>
        /\ <<"read">> # <<"read", "setKind", "read">>
    OBVIOUS
  <2> QED BY <1>2, <2>1, <2>2, <2>3, Zenon DEF Place, Then, Last, ToRedraw
<1>3. CASE op = "all"
  <2>1. /\ Steps(op) = <<"read", "bindAll", "unfollow", "read">>
        /\ Ways(op) = {<<"read", "bindAll", "unfollow", "read">>, <<"bindAll", "unfollow", "read">>,
                         <<"unfollow", "read">>, <<"read">>}
    BY <1>3, WaysOf DEF Steps
  <2>2. /\ Head(<<"read", "bindAll", "unfollow", "read">>) = "read"
        /\ Tail(<<"read", "bindAll", "unfollow", "read">>) = <<"bindAll", "unfollow", "read">>
        /\ Head(<<"bindAll", "unfollow", "read">>) = "bindAll"
        /\ Tail(<<"bindAll", "unfollow", "read">>) = <<"unfollow", "read">>
        /\ Head(<<"unfollow", "read">>) = "unfollow"
        /\ Tail(<<"unfollow", "read">>) = <<"read">>
        /\ Head(<<"read">>) = "read"
        /\ Tail(<<"read">>) = <<>>
    OBVIOUS
  <2>3. /\ <<"read", "bindAll", "unfollow", "read">> # <<>>
        /\ <<"bindAll", "unfollow", "read">> # <<>>
        /\ <<"unfollow", "read">> # <<>>
        /\ <<"read">> # <<>>
        /\ <<"bindAll", "unfollow", "read">> # <<"read", "bindAll", "unfollow", "read">>
        /\ <<"unfollow", "read">> # <<"read", "bindAll", "unfollow", "read">>
        /\ <<"read">> # <<"read", "bindAll", "unfollow", "read">>
    OBVIOUS
  <2> QED BY <1>3, <2>1, <2>2, <2>3, Zenon DEF Place, Then, Last, ToRedraw
<1>4. CASE op = "followed"
  <2>1. /\ Steps(op) = <<"read", "bindSet", "unfollow", "follow", "read">>
        /\ Ways(op) = {<<"read", "bindSet", "unfollow", "follow", "read">>,
                         <<"bindSet", "unfollow", "follow", "read">>,
                         <<"unfollow", "follow", "read">>, <<"follow", "read">>, <<"read">>}
    BY <1>4, WaysOf DEF Steps
  <2>2. /\ Head(<<"read", "bindSet", "unfollow", "follow", "read">>) = "read"
        /\ Tail(<<"read", "bindSet", "unfollow", "follow", "read">>) =
             <<"bindSet", "unfollow", "follow", "read">>
        /\ Head(<<"bindSet", "unfollow", "follow", "read">>) = "bindSet"
        /\ Tail(<<"bindSet", "unfollow", "follow", "read">>) = <<"unfollow", "follow", "read">>
        /\ Head(<<"unfollow", "follow", "read">>) = "unfollow"
        /\ Tail(<<"unfollow", "follow", "read">>) = <<"follow", "read">>
        /\ Head(<<"follow", "read">>) = "follow"
        /\ Tail(<<"follow", "read">>) = <<"read">>
        /\ Head(<<"read">>) = "read"
        /\ Tail(<<"read">>) = <<>>
    OBVIOUS
  <2>3. /\ <<"read", "bindSet", "unfollow", "follow", "read">> # <<>>
        /\ <<"bindSet", "unfollow", "follow", "read">> # <<>>
        /\ <<"unfollow", "follow", "read">> # <<>>
        /\ <<"follow", "read">> # <<>>
        /\ <<"read">> # <<>>
        /\ <<"bindSet", "unfollow", "follow", "read">> #
             <<"read", "bindSet", "unfollow", "follow", "read">>
        /\ <<"unfollow", "follow", "read">> # <<"read", "bindSet", "unfollow", "follow", "read">>
        /\ <<"follow", "read">> # <<"read", "bindSet", "unfollow", "follow", "read">>
        /\ <<"read">> # <<"read", "bindSet", "unfollow", "follow", "read">>
    OBVIOUS
  <2> QED BY <1>4, <2>1, <2>2, <2>3, Zenon DEF Place, Then, Last, ToRedraw
<1>5. CASE op = "bindrso"
  <2>1. /\ Steps(op) = <<"read", "confirm", "bindRso", "readBinding", "report", "read">>
        /\ Ways(op) = {<<"read", "confirm", "bindRso", "readBinding", "report", "read">>,
                         <<"confirm", "bindRso", "readBinding", "report", "read">>,
                         <<"bindRso", "readBinding", "report", "read">>,
                         <<"readBinding", "report", "read">>, <<"report", "read">>,
                         <<"read">>}
    BY <1>5, WaysOf DEF Steps, BindToRso
  <2>2. /\ Head(<<"read", "confirm", "bindRso", "readBinding", "report", "read">>) = "read"
        /\ Tail(<<"read", "confirm", "bindRso", "readBinding", "report", "read">>) =
             <<"confirm", "bindRso", "readBinding", "report", "read">>
        /\ Head(<<"confirm", "bindRso", "readBinding", "report", "read">>) = "confirm"
        /\ Tail(<<"confirm", "bindRso", "readBinding", "report", "read">>) =
             <<"bindRso", "readBinding", "report", "read">>
        /\ Head(<<"bindRso", "readBinding", "report", "read">>) = "bindRso"
        /\ Tail(<<"bindRso", "readBinding", "report", "read">>) =
             <<"readBinding", "report", "read">>
        /\ Head(<<"readBinding", "report", "read">>) = "readBinding"
        /\ Tail(<<"readBinding", "report", "read">>) = <<"report", "read">>
        /\ Head(<<"report", "read">>) = "report"
        /\ Tail(<<"report", "read">>) = <<"read">>
        /\ Head(<<"read">>) = "read"
        /\ Tail(<<"read">>) = <<>>
    OBVIOUS
  <2>3. /\ <<"read", "confirm", "bindRso", "readBinding", "report", "read">> # <<>>
        /\ <<"confirm", "bindRso", "readBinding", "report", "read">> # <<>>
        /\ <<"bindRso", "readBinding", "report", "read">> # <<>>
        /\ <<"readBinding", "report", "read">> # <<>>
        /\ <<"report", "read">> # <<>>
        /\ <<"read">> # <<>>
        /\ <<"confirm", "bindRso", "readBinding", "report", "read">> #
             <<"read", "confirm", "bindRso", "readBinding", "report", "read">>
        /\ <<"bindRso", "readBinding", "report", "read">> #
             <<"read", "confirm", "bindRso", "readBinding", "report", "read">>
        /\ <<"readBinding", "report", "read">> #
             <<"read", "confirm", "bindRso", "readBinding", "report", "read">>
        /\ <<"report", "read">> #
             <<"read", "confirm", "bindRso", "readBinding", "report", "read">>
        /\ <<"read">> # <<"read", "confirm", "bindRso", "readBinding", "report", "read">>
    OBVIOUS
  <2> QED BY <1>5, <2>1, <2>2, <2>3, Zenon DEF Place, Then, Last, ToRedraw
<1>6. CASE op = "day"
  <2>1. /\ Steps(op) = <<"read", "setSchedule", "read">>
        /\ Ways(op) = {<<"read", "setSchedule", "read">>, <<"setSchedule", "read">>, <<"read">>}
    BY <1>6, WaysOf DEF Steps
  <2>2. /\ Head(<<"read", "setSchedule", "read">>) = "read"
        /\ Tail(<<"read", "setSchedule", "read">>) = <<"setSchedule", "read">>
        /\ Head(<<"setSchedule", "read">>) = "setSchedule"
        /\ Tail(<<"setSchedule", "read">>) = <<"read">>
        /\ Head(<<"read">>) = "read"
        /\ Tail(<<"read">>) = <<>>
    OBVIOUS
  <2>3. /\ <<"read", "setSchedule", "read">> # <<>>
        /\ <<"setSchedule", "read">> # <<>>
        /\ <<"read">> # <<>>
        /\ <<"setSchedule", "read">> # <<"read", "setSchedule", "read">>
        /\ <<"read">> # <<"read", "setSchedule", "read">>
    OBVIOUS
  <2> QED BY <1>6, <2>1, <2>2, <2>3, Zenon DEF Place, Then, Last, ToRedraw
<1>7. CASE op = "hour"
  <2>1. /\ Steps(op) = <<"read", "setSchedule", "read">>
        /\ Ways(op) = {<<"read", "setSchedule", "read">>, <<"setSchedule", "read">>, <<"read">>}
    BY <1>7, WaysOf DEF Steps
  <2>2. /\ Head(<<"read", "setSchedule", "read">>) = "read"
        /\ Tail(<<"read", "setSchedule", "read">>) = <<"setSchedule", "read">>
        /\ Head(<<"setSchedule", "read">>) = "setSchedule"
        /\ Tail(<<"setSchedule", "read">>) = <<"read">>
        /\ Head(<<"read">>) = "read"
        /\ Tail(<<"read">>) = <<>>
    OBVIOUS
  <2>3. /\ <<"read", "setSchedule", "read">> # <<>>
        /\ <<"setSchedule", "read">> # <<>>
        /\ <<"read">> # <<>>
        /\ <<"setSchedule", "read">> # <<"read", "setSchedule", "read">>
        /\ <<"read">> # <<"read", "setSchedule", "read">>
    OBVIOUS
  <2> QED BY <1>7, <2>1, <2>2, <2>3, Zenon DEF Place, Then, Last, ToRedraw
<1>8. CASE op = "pinned"
  <2>1. /\ Steps(op) = <<"read", "setPinned", "read">>
        /\ Ways(op) = {<<"read", "setPinned", "read">>, <<"setPinned", "read">>, <<"read">>}
    BY <1>8, WaysOf DEF Steps
  <2>2. /\ Head(<<"read", "setPinned", "read">>) = "read"
        /\ Tail(<<"read", "setPinned", "read">>) = <<"setPinned", "read">>
        /\ Head(<<"setPinned", "read">>) = "setPinned"
        /\ Tail(<<"setPinned", "read">>) = <<"read">>
        /\ Head(<<"read">>) = "read"
        /\ Tail(<<"read">>) = <<>>
    OBVIOUS
  <2>3. /\ <<"read", "setPinned", "read">> # <<>>
        /\ <<"setPinned", "read">> # <<>>
        /\ <<"read">> # <<>>
        /\ <<"setPinned", "read">> # <<"read", "setPinned", "read">>
        /\ <<"read">> # <<"read", "setPinned", "read">>
    OBVIOUS
  <2> QED BY <1>8, <2>1, <2>2, <2>3, Zenon DEF Place, Then, Last, ToRedraw
<1>9. CASE op = "channel"
  <2>1. /\ Steps(op) = <<"read", "bindChannel", "read">>
        /\ Ways(op) = {<<"read", "bindChannel", "read">>, <<"bindChannel", "read">>, <<"read">>}
    BY <1>9, WaysOf DEF Steps
  <2>2. /\ Head(<<"read", "bindChannel", "read">>) = "read"
        /\ Tail(<<"read", "bindChannel", "read">>) = <<"bindChannel", "read">>
        /\ Head(<<"bindChannel", "read">>) = "bindChannel"
        /\ Tail(<<"bindChannel", "read">>) = <<"read">>
        /\ Head(<<"read">>) = "read"
        /\ Tail(<<"read">>) = <<>>
    OBVIOUS
  <2>3. /\ <<"read", "bindChannel", "read">> # <<>>
        /\ <<"bindChannel", "read">> # <<>>
        /\ <<"read">> # <<>>
        /\ <<"bindChannel", "read">> # <<"read", "bindChannel", "read">>
        /\ <<"read">> # <<"read", "bindChannel", "read">>
    OBVIOUS
  <2> QED BY <1>9, <2>1, <2>2, <2>3, Zenon DEF Place, Then, Last, ToRedraw
<1>10. CASE op = "unbind"
  <2>1. /\ Steps(op) = <<"read", "unbindChannel", "read">>
        /\ Ways(op) = {<<"read", "unbindChannel", "read">>, <<"unbindChannel", "read">>, <<"read">>}
    BY <1>10, WaysOf DEF Steps
  <2>2. /\ Head(<<"read", "unbindChannel", "read">>) = "read"
        /\ Tail(<<"read", "unbindChannel", "read">>) = <<"unbindChannel", "read">>
        /\ Head(<<"unbindChannel", "read">>) = "unbindChannel"
        /\ Tail(<<"unbindChannel", "read">>) = <<"read">>
        /\ Head(<<"read">>) = "read"
        /\ Tail(<<"read">>) = <<>>
    OBVIOUS
  <2>3. /\ <<"read", "unbindChannel", "read">> # <<>>
        /\ <<"unbindChannel", "read">> # <<>>
        /\ <<"read">> # <<>>
        /\ <<"unbindChannel", "read">> # <<"read", "unbindChannel", "read">>
        /\ <<"read">> # <<"read", "unbindChannel", "read">>
    OBVIOUS
  <2> QED BY <1>10, <2>1, <2>2, <2>3, Zenon DEF Place, Then, Last, ToRedraw
<1>11. CASE op = "toggle"
  <2>1. /\ Steps(op) = <<"read", "readFeature", "setFeature", "read">>
        /\ Ways(op) = {<<"read", "readFeature", "setFeature", "read">>, <<"readFeature", "setFeature", "read">>,
                         <<"setFeature", "read">>, <<"read">>}
    BY <1>11, WaysOf DEF Steps
  <2>2. /\ Head(<<"read", "readFeature", "setFeature", "read">>) = "read"
        /\ Tail(<<"read", "readFeature", "setFeature", "read">>) =
             <<"readFeature", "setFeature", "read">>
        /\ Head(<<"readFeature", "setFeature", "read">>) = "readFeature"
        /\ Tail(<<"readFeature", "setFeature", "read">>) = <<"setFeature", "read">>
        /\ Head(<<"setFeature", "read">>) = "setFeature"
        /\ Tail(<<"setFeature", "read">>) = <<"read">>
        /\ Head(<<"read">>) = "read"
        /\ Tail(<<"read">>) = <<>>
    OBVIOUS
  <2>3. /\ <<"read", "readFeature", "setFeature", "read">> # <<>>
        /\ <<"readFeature", "setFeature", "read">> # <<>>
        /\ <<"setFeature", "read">> # <<>>
        /\ <<"read">> # <<>>
        /\ <<"readFeature", "setFeature", "read">> #
             <<"read", "readFeature", "setFeature", "read">>
        /\ <<"setFeature", "read">> # <<"read", "readFeature", "setFeature", "read">>
        /\ <<"read">> # <<"read", "readFeature", "setFeature", "read">>
    OBVIOUS
  <2> QED BY <1>11, <2>1, <2>2, <2>3, Zenon DEF Place, Then, Last, ToRedraw
<1>12. CASE op = "remove"
  <2>1. /\ Steps(op) = <<"removeGuild">>
        /\ Ways(op) = {<<"removeGuild">>}
    BY <1>12, WaysOf DEF Steps
  <2>2. /\ Head(<<"removeGuild">>) = "removeGuild"
        /\ Tail(<<"removeGuild">>) = <<>>
    OBVIOUS
  <2>3. /\ <<"removeGuild">> # <<>>
    OBVIOUS
  <2> QED BY <1>12, <2>1, <2>2, <2>3, Zenon DEF Place, Then, Last, ToRedraw
<1>13. CASE op = "unbound"
  <2>1. /\ Steps(op) = <<"readInstruction", "disconnect", "advance">>
        /\ Ways(op) = {<<"readInstruction", "disconnect", "advance">>, <<"disconnect", "advance">>, <<"advance">>}
    BY <1>13, WaysOf DEF Steps
  <2>2. /\ Head(<<"readInstruction", "disconnect", "advance">>) = "readInstruction"
        /\ Tail(<<"readInstruction", "disconnect", "advance">>) = <<"disconnect", "advance">>
        /\ Head(<<"disconnect", "advance">>) = "disconnect"
        /\ Tail(<<"disconnect", "advance">>) = <<"advance">>
        /\ Head(<<"advance">>) = "advance"
        /\ Tail(<<"advance">>) = <<>>
    OBVIOUS
  <2>3. /\ <<"readInstruction", "disconnect", "advance">> # <<>>
        /\ <<"disconnect", "advance">> # <<>>
        /\ <<"advance">> # <<>>
        /\ <<"disconnect", "advance">> # <<"readInstruction", "disconnect", "advance">>
        /\ <<"advance">> # <<"readInstruction", "disconnect", "advance">>
    OBVIOUS
  <2> QED BY <1>13, <2>1, <2>2, <2>3, Zenon DEF Place, Then, Last, ToRedraw
<1>14. CASE op = "leave"
  <2>1. /\ Steps(op) = <<"removeGuild", "forget">>
        /\ Ways(op) = {<<"removeGuild", "forget">>, <<"forget">>}
    BY <1>14, WaysOf DEF Steps, OnGuildDelete
  <2>2. /\ Head(<<"removeGuild", "forget">>) = "removeGuild"
        /\ Tail(<<"removeGuild", "forget">>) = <<"forget">>
        /\ Head(<<"forget">>) = "forget"
        /\ Tail(<<"forget">>) = <<>>
    OBVIOUS
  <2>3. /\ <<"removeGuild", "forget">> # <<>>
        /\ <<"forget">> # <<>>
        /\ <<"forget">> # <<"removeGuild", "forget">>
    OBVIOUS
  <2> QED BY <1>14, <2>1, <2>2, <2>3, Zenon DEF Place, Then, Last, ToRedraw
<1>15. CASE op = "post"
  <2>1. /\ Steps(op) = <<"isEnabled", "listChannels", "switchOff", "getInstallation", "intend", "sendNotice",
                        "recordNotice">>
        /\ Ways(op) = {<<"isEnabled", "listChannels", "switchOff", "getInstallation", "intend", "sendNotice", "recordNotice">>,
                         <<"listChannels", "switchOff", "getInstallation", "intend", "sendNotice", "recordNotice">>,
                         <<"switchOff", "getInstallation", "intend", "sendNotice", "recordNotice">>,
                         <<"getInstallation", "intend", "sendNotice", "recordNotice">>,
                         <<"intend", "sendNotice", "recordNotice">>,
                         <<"sendNotice", "recordNotice">>, <<"recordNotice">>}
    BY <1>15, WaysOf DEF Steps
  <2>2. /\ Head(<<"isEnabled", "listChannels", "switchOff", "getInstallation", "intend", "sendNotice", "recordNotice">>) = "isEnabled"
        /\ Tail(<<"isEnabled", "listChannels", "switchOff", "getInstallation", "intend", "sendNotice", "recordNotice">>) =
             <<"listChannels", "switchOff", "getInstallation", "intend", "sendNotice", "recordNotice">>
        /\ Head(<<"listChannels", "switchOff", "getInstallation", "intend", "sendNotice", "recordNotice">>) = "listChannels"
        /\ Tail(<<"listChannels", "switchOff", "getInstallation", "intend", "sendNotice", "recordNotice">>) =
             <<"switchOff", "getInstallation", "intend", "sendNotice", "recordNotice">>
        /\ Head(<<"switchOff", "getInstallation", "intend", "sendNotice", "recordNotice">>) = "switchOff"
        /\ Tail(<<"switchOff", "getInstallation", "intend", "sendNotice", "recordNotice">>) =
             <<"getInstallation", "intend", "sendNotice", "recordNotice">>
        /\ Head(<<"getInstallation", "intend", "sendNotice", "recordNotice">>) = "getInstallation"
        /\ Tail(<<"getInstallation", "intend", "sendNotice", "recordNotice">>) =
             <<"intend", "sendNotice", "recordNotice">>
        /\ Head(<<"intend", "sendNotice", "recordNotice">>) = "intend"
        /\ Tail(<<"intend", "sendNotice", "recordNotice">>) = <<"sendNotice", "recordNotice">>
        /\ Head(<<"sendNotice", "recordNotice">>) = "sendNotice"
        /\ Tail(<<"sendNotice", "recordNotice">>) = <<"recordNotice">>
        /\ Head(<<"recordNotice">>) = "recordNotice"
        /\ Tail(<<"recordNotice">>) = <<>>
    OBVIOUS
  <2>3. /\ <<"isEnabled", "listChannels", "switchOff", "getInstallation", "intend", "sendNotice", "recordNotice">> # <<>>
        /\ <<"listChannels", "switchOff", "getInstallation", "intend", "sendNotice", "recordNotice">> # <<>>
        /\ <<"switchOff", "getInstallation", "intend", "sendNotice", "recordNotice">> # <<>>
        /\ <<"getInstallation", "intend", "sendNotice", "recordNotice">> # <<>>
        /\ <<"intend", "sendNotice", "recordNotice">> # <<>>
        /\ <<"sendNotice", "recordNotice">> # <<>>
        /\ <<"recordNotice">> # <<>>
        /\ <<"listChannels", "switchOff", "getInstallation", "intend", "sendNotice", "recordNotice">> #
             <<"isEnabled", "listChannels", "switchOff", "getInstallation", "intend", "sendNotice", "recordNotice">>
        /\ <<"switchOff", "getInstallation", "intend", "sendNotice", "recordNotice">> #
             <<"isEnabled", "listChannels", "switchOff", "getInstallation", "intend", "sendNotice", "recordNotice">>
        /\ <<"getInstallation", "intend", "sendNotice", "recordNotice">> #
             <<"isEnabled", "listChannels", "switchOff", "getInstallation", "intend", "sendNotice", "recordNotice">>
        /\ <<"intend", "sendNotice", "recordNotice">> #
             <<"isEnabled", "listChannels", "switchOff", "getInstallation", "intend", "sendNotice", "recordNotice">>
        /\ <<"sendNotice", "recordNotice">> #
             <<"isEnabled", "listChannels", "switchOff", "getInstallation", "intend", "sendNotice", "recordNotice">>
        /\ <<"recordNotice">> #
             <<"isEnabled", "listChannels", "switchOff", "getInstallation", "intend", "sendNotice", "recordNotice">>
    OBVIOUS
  <2> QED BY <1>15, <2>1, <2>2, <2>3, Zenon DEF Place, Then, Last, ToRedraw
<1> QED BY <1>1, <1>2, <1>3, <1>4, <1>5, <1>6, <1>7, <1>8, <1>9, <1>10, <1>11, <1>12, <1>13, <1>14, <1>15 DEF Ops

-----------------------------------------------------------------------------
(* The actors, and what becomes of one that goes on, jumps, stops or takes *)
(* an operation up.                                                        *)

LEMMA WhoIsWho ==
  /\ Handler \in Actors /\ Gateway \in Actors /\ Poster \in Actors /\ Walker \in Actors
  /\ Managers \subseteq Actors
  /\ \A m \in Managers : m # Handler /\ m # Gateway /\ m # Poster
  /\ Handler # Gateway /\ Handler # Poster /\ Gateway # Poster
  /\ \A a \in Actors : a \in Managers \/ a \in {Handler, Gateway, Poster}
BY SetupAssumption DEF Actors, Handler, Gateway, Poster

\* The operations of a manager, the handler, the gateway and the poster are apart.
LEMMA WhoDoesWhat ==
  /\ \A a \in Actors : Operations(a) \subseteq Ops
  /\ \A m \in Managers : Operations(m) = Ops \ {"unbound", "leave", "post"}
  /\ Operations(Handler) = {"none", "unbound"}
  /\ Operations(Gateway) = {"none", "leave"}
  /\ Operations(Poster) = {"none", "post"}
<1>1. Handler # Gateway /\ Handler # Poster /\ Gateway # Poster
  BY WhoIsWho
<1>2. /\ Operations(Handler) = {"none", "unbound"}
      /\ Operations(Gateway) = {"none", "leave"}
      /\ Operations(Poster) = {"none", "post"}
  BY <1>1 DEF Operations
<1>3. ASSUME NEW m \in Managers
      PROVE  Operations(m) = Ops \ {"unbound", "leave", "post"}
  BY WhoIsWho DEF Operations, Ops
<1> QED BY WhoIsWho, <1>2, <1>3 DEF Ops

LEMMA HandIs ==
  ASSUME HandsTyped, NEW a \in Actors
  PROVE  /\ hand[a].op \in Operations(a) /\ hand[a].op \in Ops
         /\ hand[a].arg \in Choices(hand[a].op)
         /\ hand[a].todo \in Ways(hand[a].op)
         /\ hand[a].saw \in Readings
         /\ hand[a] = [op |-> hand[a].op, arg |-> hand[a].arg,
                       todo |-> hand[a].todo, saw |-> hand[a].saw]
BY WhoDoesWhat DEF HandsTyped, Hands

\* Who is at work has an operation, and who is not has none.
LEMMA BusyIs ==
  ASSUME HandsTyped, NEW a \in Actors
  PROVE  Busy(a) <=> hand[a].op # "none"
BY HandIs, WhereIs DEF Busy, Place

\* What an actor is at, by the step it is at.
Does(h, step) == h.todo # <<>> /\ Head(h.todo) = step

StepFits(a, h) ==
  /\ Does(h, "read") => a \in Managers /\ h.op \notin {"none", "remove"}
  /\ Does(h, "setKind") => a \in Managers /\ h.op = "kind"
  /\ Does(h, "bindAll") => a \in Managers /\ h.op = "all"
  /\ Does(h, "unfollow") => a \in Managers /\ h.op \in {"all", "followed"}
  /\ Does(h, "bindSet") => a \in Managers /\ h.op = "followed"
  /\ Does(h, "follow") => a \in Managers /\ h.op = "followed"
  /\ Does(h, "confirm") => a \in Managers /\ h.op = "bindrso"
  /\ Does(h, "bindRso") => a \in Managers /\ h.op = "bindrso"
  /\ Does(h, "readBinding") => a \in Managers /\ h.op = "bindrso"
  /\ Does(h, "report") => a \in Managers /\ h.op = "bindrso"
  /\ Does(h, "setSchedule") => a \in Managers /\ h.op \in {"day", "hour"}
  /\ Does(h, "setPinned") => a \in Managers /\ h.op = "pinned"
  /\ Does(h, "bindChannel") => a \in Managers /\ h.op = "channel"
  /\ Does(h, "unbindChannel") => a \in Managers /\ h.op = "unbind"
  /\ Does(h, "readFeature") => a \in Managers /\ h.op = "toggle"
  /\ Does(h, "setFeature") => a \in Managers /\ h.op = "toggle"
  /\ Does(h, "removeGuild") => \/ a \in Managers /\ h.op = "remove"
                               \/ a = Gateway /\ h.op = "leave"
  /\ Does(h, "readInstruction") => a = Handler /\ h.op = "unbound"
  /\ Does(h, "disconnect") => a = Handler /\ h.op = "unbound"
  /\ Does(h, "advance") => a = Handler /\ h.op = "unbound"
  /\ Does(h, "forget") => a = Gateway /\ h.op = "leave"
  /\ Does(h, "isEnabled") => a = Poster /\ h.op = "post"
  /\ Does(h, "listChannels") => a = Poster /\ h.op = "post"
  /\ Does(h, "switchOff") => a = Poster /\ h.op = "post"
  /\ Does(h, "getInstallation") => a = Poster /\ h.op = "post"
  /\ Does(h, "intend") => a = Poster /\ h.op = "post"
  /\ Does(h, "sendNotice") => a = Poster /\ h.op = "post"
  /\ Does(h, "recordNotice") => a = Poster /\ h.op = "post"

LEMMA StepOf ==
  ASSUME NEW a \in Actors, NEW h, h \in Hands(a, h.op)
  PROVE  StepFits(a, h)
<1>1. /\ h.op \in Operations(a) /\ h.op \in Ops /\ h.todo \in Ways(h.op)
  BY WhoDoesWhat DEF Hands
<1>2. \/ a \in Managers /\ h.op \in Ops \ {"unbound", "leave", "post"}
      \/ a = Handler /\ h.op \in {"none", "unbound"}
      \/ a = Gateway /\ h.op \in {"none", "leave"}
      \/ a = Poster /\ h.op \in {"none", "post"}
  BY <1>1, WhoIsWho, WhoDoesWhat
<1>3. Place(h.op, h.todo)
  BY <1>1, WhereIs
<1>4. Does(h, "read") => a \in Managers /\ h.op \notin {"none", "remove"}
  BY <1>2, <1>3 DEF Does, Place, Ops
<1>5. Does(h, "setKind") => a \in Managers /\ h.op = "kind"
  BY <1>2, <1>3 DEF Does, Place, Ops
<1>6. Does(h, "bindAll") => a \in Managers /\ h.op = "all"
  BY <1>2, <1>3 DEF Does, Place, Ops
<1>7. Does(h, "unfollow") => a \in Managers /\ h.op \in {"all", "followed"}
  BY <1>2, <1>3 DEF Does, Place, Ops
<1>8. Does(h, "bindSet") => a \in Managers /\ h.op = "followed"
  BY <1>2, <1>3 DEF Does, Place, Ops
<1>9. Does(h, "follow") => a \in Managers /\ h.op = "followed"
  BY <1>2, <1>3 DEF Does, Place, Ops
<1>10. Does(h, "confirm") => a \in Managers /\ h.op = "bindrso"
  BY <1>2, <1>3 DEF Does, Place, Ops
<1>11. Does(h, "bindRso") => a \in Managers /\ h.op = "bindrso"
  BY <1>2, <1>3 DEF Does, Place, Ops
<1>12. Does(h, "readBinding") => a \in Managers /\ h.op = "bindrso"
  BY <1>2, <1>3 DEF Does, Place, Ops
<1>13. Does(h, "report") => a \in Managers /\ h.op = "bindrso"
  BY <1>2, <1>3 DEF Does, Place, Ops
<1>14. Does(h, "setSchedule") => a \in Managers /\ h.op \in {"day", "hour"}
  BY <1>2, <1>3 DEF Does, Place, Ops
<1>15. Does(h, "setPinned") => a \in Managers /\ h.op = "pinned"
  BY <1>2, <1>3 DEF Does, Place, Ops
<1>16. Does(h, "bindChannel") => a \in Managers /\ h.op = "channel"
  BY <1>2, <1>3 DEF Does, Place, Ops
<1>17. Does(h, "unbindChannel") => a \in Managers /\ h.op = "unbind"
  BY <1>2, <1>3 DEF Does, Place, Ops
<1>18. Does(h, "readFeature") => a \in Managers /\ h.op = "toggle"
  BY <1>2, <1>3 DEF Does, Place, Ops
<1>19. Does(h, "setFeature") => a \in Managers /\ h.op = "toggle"
  BY <1>2, <1>3 DEF Does, Place, Ops
<1>20. Does(h, "removeGuild") => \/ a \in Managers /\ h.op = "remove"
                                 \/ a = Gateway /\ h.op = "leave"
  <2>1. Does(h, "removeGuild") => h.op \in {"remove", "leave"}
    BY <1>3 DEF Does, Place
  <2>2. h.op = "remove" => a \in Managers
    BY <1>2
  <2>3. h.op = "leave" => a = Gateway
    BY <1>2
  <2> QED BY <2>1, <2>2, <2>3
<1>21. Does(h, "readInstruction") => a = Handler /\ h.op = "unbound"
  BY <1>2, <1>3 DEF Does, Place, Ops
<1>22. Does(h, "disconnect") => a = Handler /\ h.op = "unbound"
  BY <1>2, <1>3 DEF Does, Place, Ops
<1>23. Does(h, "advance") => a = Handler /\ h.op = "unbound"
  BY <1>2, <1>3 DEF Does, Place, Ops
<1>24. Does(h, "forget") => a = Gateway /\ h.op = "leave"
  BY <1>2, <1>3 DEF Does, Place, Ops
<1>25. Does(h, "isEnabled") => a = Poster /\ h.op = "post"
  BY <1>2, <1>3 DEF Does, Place, Ops
<1>26. Does(h, "listChannels") => a = Poster /\ h.op = "post"
  BY <1>2, <1>3 DEF Does, Place, Ops
<1>27. Does(h, "switchOff") => a = Poster /\ h.op = "post"
  BY <1>2, <1>3 DEF Does, Place, Ops
<1>28. Does(h, "getInstallation") => a = Poster /\ h.op = "post"
  BY <1>2, <1>3 DEF Does, Place, Ops
<1>29. Does(h, "intend") => a = Poster /\ h.op = "post"
  BY <1>2, <1>3 DEF Does, Place, Ops
<1>30. Does(h, "sendNotice") => a = Poster /\ h.op = "post"
  BY <1>2, <1>3 DEF Does, Place, Ops
<1>31. Does(h, "recordNotice") => a = Poster /\ h.op = "post"
  BY <1>2, <1>3 DEF Does, Place, Ops
<1> QED BY <1>4, <1>5, <1>6, <1>7, <1>8, <1>9, <1>10, <1>11, <1>12, <1>13, <1>14, <1>15, <1>16, <1>17, <1>18, <1>19, <1>20, <1>21, <1>22, <1>23, <1>24, <1>25, <1>26, <1>27, <1>28, <1>29, <1>30, <1>31 DEF StepFits

LEMMA StepIs ==
  ASSUME HandsTyped, NEW a \in Actors
  PROVE  /\ At(a, "read") => a \in Managers /\ hand[a].op \notin {"none", "remove"}
         /\ At(a, "setKind") => a \in Managers /\ hand[a].op = "kind"
         /\ At(a, "bindAll") => a \in Managers /\ hand[a].op = "all"
         /\ At(a, "unfollow") => a \in Managers /\ hand[a].op \in {"all", "followed"}
         /\ At(a, "bindSet") => a \in Managers /\ hand[a].op = "followed"
         /\ At(a, "follow") => a \in Managers /\ hand[a].op = "followed"
         /\ At(a, "confirm") => a \in Managers /\ hand[a].op = "bindrso"
         /\ At(a, "bindRso") => a \in Managers /\ hand[a].op = "bindrso"
         /\ At(a, "readBinding") => a \in Managers /\ hand[a].op = "bindrso"
         /\ At(a, "report") => a \in Managers /\ hand[a].op = "bindrso"
         /\ At(a, "setSchedule") => a \in Managers /\ hand[a].op \in {"day", "hour"}
         /\ At(a, "setPinned") => a \in Managers /\ hand[a].op = "pinned"
         /\ At(a, "bindChannel") => a \in Managers /\ hand[a].op = "channel"
         /\ At(a, "unbindChannel") => a \in Managers /\ hand[a].op = "unbind"
         /\ At(a, "readFeature") => a \in Managers /\ hand[a].op = "toggle"
         /\ At(a, "setFeature") => a \in Managers /\ hand[a].op = "toggle"
         /\ At(a, "removeGuild") => \/ a \in Managers /\ hand[a].op = "remove"
                                    \/ a = Gateway /\ hand[a].op = "leave"
         /\ At(a, "readInstruction") => a = Handler /\ hand[a].op = "unbound"
         /\ At(a, "disconnect") => a = Handler /\ hand[a].op = "unbound"
         /\ At(a, "advance") => a = Handler /\ hand[a].op = "unbound"
         /\ At(a, "forget") => a = Gateway /\ hand[a].op = "leave"
         /\ At(a, "isEnabled") => a = Poster /\ hand[a].op = "post"
         /\ At(a, "listChannels") => a = Poster /\ hand[a].op = "post"
         /\ At(a, "switchOff") => a = Poster /\ hand[a].op = "post"
         /\ At(a, "getInstallation") => a = Poster /\ hand[a].op = "post"
         /\ At(a, "intend") => a = Poster /\ hand[a].op = "post"
         /\ At(a, "sendNotice") => a = Poster /\ hand[a].op = "post"
         /\ At(a, "recordNotice") => a = Poster /\ hand[a].op = "post"
<1>1. StepFits(a, hand[a])
  BY StepOf DEF HandsTyped
<1> QED BY <1>1, Zenon DEF StepFits, Does, At, Busy

\* The same after a step.
LEMMA NextStepIs ==
  ASSUME HandsTyped', NEW a \in Actors
  PROVE  StepFits(a, hand'[a])
<1>1. hand'[a] \in Hands(a, hand'[a].op)
  BY DEF HandsTyped
<1> QED BY <1>1, StepOf

LEMMA SingleChoice == \A x : (CHOOSE y \in {x} : TRUE) = x
OBVIOUS

LEMMA IdleIs ==
  /\ Idle \in Hands(Handler, "none") /\ \A a \in Actors : Idle \in Hands(a, "none")
  /\ Idle.op = "none" /\ Idle.todo = <<>> /\ Idle.arg = {} /\ Idle.saw = Nothing
<1>1. FirstTiming \in Timings
  BY SetupAssumption DEF FirstTiming, Timings
<1>2. Nothing \in Readings
  BY <1>1 DEF Nothing, Readings
<1>3. \A a \in Actors : "none" \in Operations(a)
  BY WhoIsWho, WhoDoesWhat DEF Ops
<1>4. Choices("none") = {{}} /\ Ways("none") = {<<>>}
  BY WaysOf DEF Choices
<1> QED BY <1>2, <1>3, <1>4, WhoIsWho DEF Idle, Hand, Hands

\* Nobody but a moves.
Others(a) == \A b \in Actors : b # a => hand'[b] = hand[b]

LEMMA HandChanges ==
  ASSUME HandsTyped, NEW a \in Actors, NEW h, h \in Hands(a, h.op), hand' = [hand EXCEPT ![a] = h]
  PROVE  HandsTyped' /\ Others(a) /\ hand'[a] = h
<1>1. DOMAIN hand' = Actors /\ hand'[a] = h /\ Others(a)
  BY DEF HandsTyped, Others
<1>2. ASSUME NEW b \in Actors
      PROVE  hand'[b] \in Hands(b, hand'[b].op)
  BY <1>1 DEF HandsTyped, Others
<1> QED BY <1>1, <1>2 DEF HandsTyped

\* The operation goes on at another of its steps.
LEMMA Turns ==
  ASSUME HandsTyped, NEW a \in Actors, NEW todo \in Ways(hand[a].op), NEW saw \in Readings,
         hand' = [hand EXCEPT ![a] = Hand(@.op, @.arg, todo, saw)]
  PROVE  /\ HandsTyped' /\ Others(a)
         /\ hand'[a].op = hand[a].op /\ hand'[a].arg = hand[a].arg
         /\ hand'[a].todo = todo /\ hand'[a].saw = saw
<1> DEFINE h == Hand(hand[a].op, hand[a].arg, todo, saw)
<1>1. /\ h.op = hand[a].op /\ h.arg = hand[a].arg /\ h.todo = todo /\ h.saw = saw
      /\ h \in Hands(a, h.op)
  BY HandIs DEF Hands, Hand
<1>2. hand' = [hand EXCEPT ![a] = h]
  OBVIOUS
<1>3. HandsTyped' /\ Others(a) /\ hand'[a] = h
  <2> HIDE DEF h
  <2> QED BY <1>1, <1>2, HandChanges
<1> QED BY <1>1, <1>3

LEMMA SkipsIs ==
  ASSUME HandsTyped, NEW a \in Actors, NEW step, <<step>> \in Ways(hand[a].op), Skips(a, step)
  PROVE  /\ HandsTyped' /\ Others(a)
         /\ hand'[a].op = hand[a].op /\ hand'[a].arg = hand[a].arg
         /\ hand'[a].todo = <<step>> /\ hand'[a].saw = hand[a].saw
         /\ panel' = panel
<1> DEFINE left == <<step>>
           saw == hand[a].saw
<1>1. hand' = [hand EXCEPT ![a] = Hand(@.op, @.arg, left, saw)] /\ panel' = panel
  BY DEF Skips
<1>2. saw \in Readings /\ left \in Ways(hand[a].op)
  BY HandIs
<1>3. /\ HandsTyped' /\ Others(a)
      /\ hand'[a].op = hand[a].op /\ hand'[a].arg = hand[a].arg
      /\ hand'[a].todo = left /\ hand'[a].saw = saw
  <2> HIDE DEF left, saw
  <2> QED BY <1>1, <1>2, Turns
<1> QED BY <1>1, <1>3

LEMMA StopsIs ==
  ASSUME HandsTyped, NEW a \in Actors, Stops(a)
  PROVE  HandsTyped' /\ Others(a) /\ hand'[a] = Idle
<1>1. hand' = [hand EXCEPT ![a] = Idle] /\ Idle \in Hands(a, Idle.op)
  BY IdleIs DEF Stops
<1> QED BY <1>1, HandChanges

\* A step that is over leaves the next step of the operation, or nobody at work.
LEMMA KnowingIs ==
  ASSUME HandsTyped, NEW a \in Actors, Busy(a), NEW saw \in Readings, Knowing(a, saw)
  PROVE  /\ HandsTyped' /\ Others(a)
         /\ Tail(hand[a].todo) # <<>> =>
              /\ hand'[a].op = hand[a].op /\ hand'[a].arg = hand[a].arg
              /\ hand'[a].todo = Tail(hand[a].todo) /\ hand'[a].saw = saw
              /\ Tail(hand[a].todo) # Steps(hand[a].op)
              /\ panel' = panel
         /\ Tail(hand[a].todo) = <<>> => hand'[a] = Idle /\ Follows(a, PanelAfter(a))
<1>1. Place(hand[a].op, hand[a].todo)
  BY HandIs, WhereIs
<1>2. CASE Tail(hand[a].todo) = <<>>
  <2>1. hand' = [hand EXCEPT ![a] = Idle] /\ Idle \in Hands(a, Idle.op)
    BY <1>2, IdleIs DEF Knowing
  <2>2. Follows(a, PanelAfter(a))
    BY <1>2 DEF Knowing
  <2> QED BY <1>2, <2>1, <2>2, HandChanges
<1>3. CASE Tail(hand[a].todo) # <<>>
  <2>1. Tail(hand[a].todo) \in Ways(hand[a].op) /\ Tail(hand[a].todo) # Steps(hand[a].op)
    BY <1>1, <1>3 DEF Place, Busy
  <2>2. /\ hand' = [hand EXCEPT ![a] = Hand(@.op, @.arg, Tail(hand[a].todo), saw)]
        /\ panel' = panel
    BY <1>3 DEF Knowing
  <2> QED BY <1>3, <2>1, <2>2, Turns
<1> QED BY <1>2, <1>3

LEMMA GoesIs ==
  ASSUME HandsTyped, NEW a \in Actors, Busy(a), Goes(a)
  PROVE  /\ HandsTyped' /\ Others(a)
         /\ Tail(hand[a].todo) # <<>> =>
              /\ hand'[a].op = hand[a].op /\ hand'[a].arg = hand[a].arg
              /\ hand'[a].todo = Tail(hand[a].todo) /\ hand'[a].saw = hand[a].saw
              /\ Tail(hand[a].todo) # Steps(hand[a].op)
              /\ panel' = panel
         /\ Tail(hand[a].todo) = <<>> => hand'[a] = Idle /\ Follows(a, PanelAfter(a))
BY HandIs, KnowingIs DEF Goes

\* An operation is taken up by an actor that has none.
LEMMA TakesIs ==
  ASSUME HandsTyped, NEW a \in Actors, NEW op \in Operations(a), NEW arg \in Choices(op),
         Takes(a, op, arg)
  PROVE  /\ HandsTyped' /\ Others(a) /\ ~Busy(a)
         /\ hand'[a].op = op /\ hand'[a].arg = arg
         /\ hand'[a].todo = Steps(op) /\ hand'[a].saw = Nothing
<1> DEFINE h == Hand(op, arg, Steps(op), Nothing)
<1>1. Nothing \in Readings
  BY IdleIs, WhoIsWho DEF Hands
<1>2. Steps(op) \in Ways(op)
  BY DEF Ways
<1>3. /\ h.op = op /\ h.arg = arg /\ h.todo = Steps(op) /\ h.saw = Nothing
      /\ h \in Hands(a, h.op)
  BY <1>1, <1>2 DEF Hands, Hand
<1>4. hand' = [hand EXCEPT ![a] = h] /\ ~Busy(a)
  BY DEF Takes
<1>5. HandsTyped' /\ Others(a) /\ hand'[a] = h
  <2> HIDE DEF h
  <2> QED BY <1>3, <1>4, HandChanges
<1> QED BY <1>3, <1>4, <1>5

-----------------------------------------------------------------------------
(* Types.                                                                  *)

LEMMA NoneIsNoPurpose == "none" \notin BoundPurposes
BY SetupAssumption DEF Purposes

LEMMA PlainPanelFits ==
  ASSUME NEW step \in PanelSteps, NEW on, step = "channels" => on = "none"
  PROVE  Fits(Panel(step, on))
BY DEF Fits, Panel

LEMMA ChannelPanelFits ==
  ASSUME NEW p \in BoundPurposes, NEW bound \in BOOLEAN
  PROVE  Fits([step |-> "channels", on |-> p, bound |-> bound])
BY NoneIsNoPurpose DEF Fits, PanelSteps

LEMMA ClosedFits == Fits(Closed)
BY PlainPanelFits DEF Closed, PanelSteps

\* What an operation is about.
LEMMA ArgIs ==
  ASSUME HandsTyped, NEW a \in Actors
  PROVE  /\ hand[a].op = "kind" => Arg(a) \in Kinds /\ hand[a].arg = {Arg(a)}
         /\ hand[a].op = "followed" => hand[a].arg \subseteq Rsos
         /\ hand[a].op \in {"bindrso", "unbound"} => Arg(a) \in Rsos /\ hand[a].arg = {Arg(a)}
         /\ hand[a].op \in {"day", "hour"} => Arg(a) \in Days
         /\ hand[a].op \in {"channel", "unbind"} =>
              Arg(a) \in BoundPurposes /\ hand[a].arg = {Arg(a)}
         /\ hand[a].op \in {"toggle", "post"} => Arg(a) \in Switchable /\ hand[a].arg = {Arg(a)}
<1>1. hand[a].arg \in Choices(hand[a].op)
  BY HandIs
<1>2. ASSUME NEW S, hand[a].arg \in Singles(S)
      PROVE  Arg(a) \in S /\ hand[a].arg = {Arg(a)}
  <2>1. PICK x \in S : hand[a].arg = {x}
    BY <1>2 DEF Singles
  <2>2. Arg(a) = x
    BY <2>1, SingleChoice DEF Arg
  <2> QED BY <2>1, <2>2
<1>3. CASE hand[a].op = "kind"
  BY <1>1, <1>2, <1>3 DEF Choices
<1>4. CASE hand[a].op = "followed"
  BY <1>1, <1>4 DEF Choices
<1>5. CASE hand[a].op \in {"bindrso", "unbound"}
  BY <1>1, <1>2, <1>5 DEF Choices
<1>6. CASE hand[a].op \in {"day", "hour"}
  BY <1>1, <1>2, <1>6 DEF Choices
<1>7. CASE hand[a].op \in {"channel", "unbind"}
  BY <1>1, <1>2, <1>7 DEF Choices
<1>8. CASE hand[a].op \in {"toggle", "post"}
  BY <1>1, <1>2, <1>8 DEF Choices
<1> QED BY <1>3, <1>4, <1>5, <1>6, <1>7, <1>8

LEMMA PanelAfterFits ==
  ASSUME HandsTyped, NEW a \in Actors
  PROVE  Fits(PanelAfter(a))
<1>1. CASE hand[a].op = "kind"
  BY <1>1, PlainPanelFits DEF PanelAfter, PanelSteps
<1>2. CASE hand[a].op \in {"all", "followed", "bindrso"}
  BY <1>2, PlainPanelFits DEF PanelAfter, PanelSteps
<1>3. CASE hand[a].op \in {"day", "hour", "pinned"}
  BY <1>3, PlainPanelFits DEF PanelAfter, PanelSteps
<1>4. CASE hand[a].op \in {"channel", "unbind"}
  <2>1. Arg(a) \in BoundPurposes
    BY <1>4, ArgIs
  <2>2. PanelAfter(a) = [step |-> "channels", on |-> Arg(a), bound |-> Arg(a) \in channels]
    BY <1>4 DEF PanelAfter
  <2>3. (Arg(a) \in channels) \in BOOLEAN
    OBVIOUS
  <2> QED BY <2>1, <2>2, <2>3, ChannelPanelFits
<1>5. CASE hand[a].op = "toggle"
  BY <1>5, PlainPanelFits DEF PanelAfter, PanelSteps
<1>6. CASE hand[a].op \notin {"kind", "all", "followed", "bindrso", "day", "hour", "pinned",
                              "channel", "unbind", "toggle"}
  <2>1. PanelAfter(a) = Closed
    BY <1>6 DEF PanelAfter
  <2> QED BY <2>1, ClosedFits
<1> QED BY <1>1, <1>2, <1>3, <1>4, <1>5, <1>6

LEMMA FollowsFits ==
  ASSUME Fits(panel), NEW a, NEW shown, Fits(shown), Follows(a, shown)
  PROVE  Fits(panel)'
<1>1. panel' = panel \/ panel' = shown
  BY DEF Follows
<1> QED BY <1>1 DEF Fits

\* Whether a step goes on, is skipped or stops, hands and panel keep their types.
LEMMA KnowingFits ==
  ASSUME HandsTyped, Fits(panel), NEW a \in Actors, Busy(a), NEW saw \in Readings,
         Knowing(a, saw)
  PROVE  HandsTyped' /\ Fits(panel)'
<1>1. Tail(hand[a].todo) # <<>> => panel' = panel
  BY KnowingIs
<1>2. Tail(hand[a].todo) = <<>> => Follows(a, PanelAfter(a))
  BY KnowingIs
<1>3. Fits(panel)'
  BY <1>1, <1>2, FollowsFits, PanelAfterFits DEF Fits
<1> QED BY <1>3, KnowingIs

LEMMA GoesFits ==
  ASSUME HandsTyped, Fits(panel), NEW a \in Actors, Busy(a), Goes(a)
  PROVE  HandsTyped' /\ Fits(panel)'
BY KnowingFits, HandIs DEF Goes

LEMMA StopsFits ==
  ASSUME HandsTyped, Fits(panel), NEW a \in Actors, Stops(a)
  PROVE  HandsTyped' /\ Fits(panel)'
<1>1. Follows(a, Closed)
  BY DEF Stops
<1> QED BY <1>1, StopsIs, FollowsFits, ClosedFits

LEMMA SkipsFits ==
  ASSUME HandsTyped, Fits(panel), NEW a \in Actors, NEW step,
         <<step>> \in Ways(hand[a].op), Skips(a, step)
  PROVE  HandsTyped' /\ Fits(panel)'
BY SkipsIs DEF Fits

LEMMA TakesFits ==
  ASSUME HandsTyped, Fits(panel), NEW a \in Actors, NEW op \in Operations(a),
         NEW arg \in Choices(op), Takes(a, op, arg), UNCHANGED panel
  PROVE  HandsTyped' /\ Fits(panel)'
BY TakesIs DEF Fits

LEMMA RowKept ==
  ASSUME HeldTyped, UNCHANGED row
  PROVE  HeldTyped'
BY DEF HeldTyped, row

LEMMA RowCreated ==
  ASSUME HeldTyped, Creates
  PROVE  HeldTyped'
BY DEF HeldTyped, Creates

LEMMA RestKept ==
  ASSUME RestTyped, UNCHANGED <<notice, outside, scene, budget, history>>
  PROVE  RestTyped'
BY DEF RestTyped, outside, budget, history

\* An actor at a step is at work.
LEMMA AtIsBusy == \A a, step : At(a, step) => Busy(a)
BY DEF At

\* Typing step by step: the steps of the managers, which others share.

LEMMA ReadTyped ==
  ASSUME TypeOK, NEW a \in Actors, Read(a)
  PROVE  TypeOK'
<1> DEFINE s == hand[a].saw
           saw == IF Parts(hand[a].op) = {"timing"} THEN [s EXCEPT !.timing = timing]
                  ELSE IF hand[a].op = "toggle" THEN [s EXCEPT !.channels = channels]
                  ELSE s
<1>1. s \in Readings /\ timing \in Timings /\ channels \in SUBSET BoundPurposes
  BY HandIs DEF TypeOK, HeldTyped
<1>2. saw \in Readings
  BY <1>1 DEF Readings
<1>3. Knowing(a, saw) /\ Busy(a)
  BY AtIsBusy DEF Read
<1>4. HandsTyped' /\ Fits(panel)'
  <2> HIDE DEF saw
  <2> QED BY <1>2, <1>3, KnowingFits DEF TypeOK
<1>5. HeldTyped' /\ RestTyped'
  BY RowCreated, RestKept DEF Read, TypeOK
<1> QED BY <1>4, <1>5 DEF TypeOK

LEMMA SetKindTyped ==
  ASSUME TypeOK, NEW a \in Actors, SetKind(a)
  PROVE  TypeOK'
<1>1. HandsTyped' /\ Fits(panel)' /\ RestTyped'
  BY GoesFits, AtIsBusy, RestKept DEF SetKind, TypeOK
<1>2. Arg(a) \in Kinds
  BY StepIs, ArgIs DEF SetKind, TypeOK
<1>3. HeldTyped'
  BY <1>2 DEF SetKind, TypeOK, HeldTyped
<1> QED BY <1>1, <1>3 DEF TypeOK

LEMMA NoRsoIsNone == NoRso \notin Rsos
BY SetupAssumption

LEMMA BindTyped ==
  ASSUME TypeOK, NEW a \in Actors, Bind(a)
  PROVE  TypeOK'
<1>1. HandsTyped' /\ Fits(panel)' /\ RestTyped'
  BY GoesFits, AtIsBusy, RestKept DEF Bind, TypeOK
<1>2. PICK to \in {Unanswered, "rso", "all", "set"}, rso \in Rsos \cup {NoRso} :
        SetBinding(to, rso) /\ (to = "rso" <=> rso \in Rsos)
  <2>1. CASE At(a, "bindRso") /\ SetBinding("rso", Arg(a))
    <3>1. Arg(a) \in Rsos
      BY <2>1, StepIs, ArgIs DEF TypeOK
    <3> QED BY <2>1, <3>1
  <2> QED BY <2>1, NoRsoIsNone DEF Bind, Unanswered
<1>3. HeldTyped'
  BY <1>2 DEF Bind, SetBinding, BoundTo, TypeOK, HeldTyped
<1> QED BY <1>1, <1>3 DEF TypeOK

LEMMA UnfollowTyped ==
  ASSUME TypeOK, NEW a \in Actors, Unfollow(a)
  PROVE  TypeOK'
<1>1. HandsTyped' /\ Fits(panel)' /\ RestTyped'
  BY GoesFits, AtIsBusy, RestKept DEF Unfollow, TypeOK
<1>2. HeldTyped'
  BY DEF Unfollow, Remaining, TypeOK, HeldTyped
<1> QED BY <1>1, <1>2 DEF TypeOK

LEMMA FollowTyped ==
  ASSUME TypeOK, NEW a \in Actors, Follow(a)
  PROVE  TypeOK'
<1>1. HandsTyped' /\ Fits(panel)' /\ RestTyped'
  BY GoesFits, StopsFits, AtIsBusy, RestKept DEF Follow, TypeOK
<1>2. hand[a].arg \subseteq Rsos
  BY StepIs, ArgIs DEF Follow, TypeOK
<1>3. HeldTyped'
  BY <1>2 DEF Follow, TypeOK, HeldTyped
<1> QED BY <1>1, <1>3 DEF TypeOK

LEMMA ConfirmTyped ==
  ASSUME TypeOK, NEW a \in Actors, Confirm(a)
  PROVE  TypeOK'
<1>1. HandsTyped' /\ Fits(panel)'
  BY GoesFits, StopsFits, AtIsBusy DEF Confirm, TypeOK
<1> QED BY <1>1, RestKept, RowKept DEF Confirm, TypeOK

LEMMA ReadBindingTyped ==
  ASSUME TypeOK, NEW a \in Actors, ReadBinding(a)
  PROVE  TypeOK'
<1> DEFINE s == hand[a].saw
           rso == IF installed /\ binding.to = "rso" THEN binding.rso ELSE NoRso
           saw == [s EXCEPT !.rso = rso]
<1>1. s \in Readings /\ rso \in Rsos \cup {NoRso}
  BY HandIs DEF TypeOK, HeldTyped
<1>2. saw \in Readings
  <2> HIDE DEF rso
  <2> QED BY <1>1 DEF Readings
<1>3. Knowing(a, saw) /\ Busy(a)
  BY AtIsBusy DEF ReadBinding
<1>4. HandsTyped' /\ Fits(panel)'
  <2> HIDE DEF saw
  <2> QED BY <1>2, <1>3, KnowingFits DEF TypeOK
<1> QED BY <1>4, RestKept, RowKept DEF ReadBinding, TypeOK

LEMMA ReportTyped ==
  ASSUME TypeOK, NEW a \in Actors, Report(a)
  PROVE  TypeOK'
<1>1. HandsTyped' /\ Fits(panel)'
  BY GoesFits, AtIsBusy DEF Report, TypeOK
<1>2. hand[a].saw.rso \in Rsos \cup {NoRso}
  BY HandIs DEF Readings, TypeOK
<1>3. RestTyped'
  BY <1>2 DEF Report, TypeOK, RestTyped, budget, history
<1> QED BY <1>1, <1>3, RowKept DEF Report, TypeOK

LEMMA SetTimingTyped ==
  ASSUME TypeOK, NEW a \in Actors, SetTiming(a)
  PROVE  TypeOK'
<1>1. HandsTyped' /\ Fits(panel)' /\ RestTyped'
  BY GoesFits, AtIsBusy, RestKept DEF SetTiming, TypeOK
<1>2. hand[a].saw.timing \in Timings /\ timing \in Timings
  BY HandIs DEF Readings, TypeOK, HeldTyped
<1>3. timing' \in Timings
  <2>1. CASE At(a, "setSchedule")
    <3> DEFINE to == Scheduled(a, hand[a].saw.timing)
    <3>1. Arg(a) \in Days
      BY <2>1, StepIs, ArgIs DEF TypeOK
    <3>2. to \in Timings
      BY <1>2, <3>1 DEF Scheduled, Timings
    <3>3. timing' = IF installed THEN [to EXCEPT !.pinned = timing.pinned] ELSE timing
      BY <2>1, StepIs DEF SetTiming, TypeOK
    <3> HIDE DEF to
    <3> QED BY <1>2, <3>2, <3>3 DEF Timings
  <2>2. CASE At(a, "setPinned")
    <3>1. timing' = IF installed THEN [timing EXCEPT !.pinned = ~hand[a].saw.timing.pinned]
                    ELSE timing
      BY <2>2, StepIs DEF SetTiming, TypeOK
    <3> QED BY <1>2, <3>1 DEF Timings
  <2> QED BY <2>1, <2>2 DEF SetTiming
<1>4. HeldTyped'
  BY <1>3 DEF SetTiming, TypeOK, HeldTyped
<1> QED BY <1>1, <1>4 DEF TypeOK

LEMMA SetChannelTyped ==
  ASSUME TypeOK, NEW a \in Actors, SetChannel(a)
  PROVE  TypeOK'
<1>1. HandsTyped' /\ Fits(panel)' /\ RestTyped'
  BY GoesFits, StopsFits, AtIsBusy, RestKept DEF SetChannel, TypeOK
<1>2. hand[a].arg \subseteq BoundPurposes
  BY StepIs, ArgIs DEF SetChannel, TypeOK
<1>3. HeldTyped'
  BY <1>2 DEF SetChannel, TypeOK, HeldTyped
<1> QED BY <1>1, <1>3 DEF TypeOK

LEMMA ReadFeatureTyped ==
  ASSUME TypeOK, NEW a \in Actors, ReadFeature(a)
  PROVE  TypeOK'
<1>1. HandsTyped' /\ Fits(panel)'
  <2>1. CASE Skips(a, "read")
    <3>1. hand[a].op = "toggle"
      BY StepIs DEF ReadFeature, TypeOK
    <3>2. <<"read">> \in Ways(hand[a].op)
      BY <3>1, WaysOf
    <3> QED BY <2>1, <3>2, SkipsFits DEF TypeOK
  <2>2. CASE Knowing(a, [hand[a].saw EXCEPT !.on = Enabled(Arg(a))])
    <3> DEFINE saw == [hand[a].saw EXCEPT !.on = Enabled(Arg(a))]
    <3>1. hand[a].saw \in Readings /\ Enabled(Arg(a)) \in BOOLEAN
      BY HandIs DEF TypeOK, Enabled
    <3>2. saw \in Readings
      BY <3>1 DEF Readings
    <3>3. Knowing(a, saw) /\ Busy(a)
      BY <2>2, AtIsBusy DEF ReadFeature
    <3> HIDE DEF saw
    <3> QED BY <3>2, <3>3, KnowingFits DEF TypeOK
  <2> QED BY <2>1, <2>2 DEF ReadFeature
<1> QED BY <1>1, RestKept, RowKept DEF ReadFeature, TypeOK

LEMMA SetFeatureTyped ==
  ASSUME TypeOK, NEW a \in Actors, SetFeature(a)
  PROVE  TypeOK'
<1>1. HandsTyped' /\ Fits(panel)' /\ RestTyped'
  BY GoesFits, StopsFits, AtIsBusy, RestKept DEF SetFeature, TypeOK
<1>2. HeldTyped'
  BY DEF SetFeature, TypeOK, HeldTyped
<1> QED BY <1>1, <1>2 DEF TypeOK

LEMMA RemoveGuildTyped ==
  ASSUME TypeOK, NEW a \in Actors, RemoveGuild(a)
  PROVE  TypeOK'
<1>1. HandsTyped' /\ Fits(panel)'
  BY GoesFits, AtIsBusy DEF RemoveGuild, TypeOK
<1>2. FirstTiming \in Timings
  BY SetupAssumption DEF FirstTiming, Timings
<1>3. HeldTyped'
  BY <1>2, NoRsoIsNone DEF RemoveGuild, TypeOK, HeldTyped, BoundTo, Unanswered
<1>4. RestTyped'
  BY <1>2 DEF RemoveGuild, TypeOK, RestTyped, outside, budget
<1> QED BY <1>1, <1>3, <1>4 DEF TypeOK

\* What the panels offer: a panel to open, or an answer with what it may be about.

OfferFits(offer) ==
  \/ offer[1] = "open" /\ offer[2] \in PanelSteps
  \/ offer[1] = "category"
  \/ offer[1] = "purpose" /\ offer[2] \in BoundPurposes
  \/ /\ offer[1] \in Ops \ {"none", "unbound", "leave", "post"}
     /\ (IF offer[1] = "followed" THEN offer[2] ELSE {offer[2]}) \in Choices(offer[1])

LEMMA OpensFits ==
  ASSUME NEW steps, steps \subseteq PanelSteps, NEW offer \in Opens(steps)
  PROVE  OfferFits(offer)
BY DEF Opens, OfferFits

LEMMA AnswerFits ==
  ASSUME NEW verb, NEW what,
         \/ verb = "kind" /\ what \in Kinds
         \/ verb = "bindrso" /\ what \in Rsos
         \/ verb \in {"day", "hour"} /\ what \in Days
         \/ verb \in {"channel", "unbind"} /\ what \in BoundPurposes
         \/ verb = "toggle" /\ what \in Switchable
         \/ verb \in {"all", "pinned", "remove"} /\ what = verb
  PROVE  OfferFits(<<verb, what>>)
<1>1. verb \in Ops \ {"none", "unbound", "leave", "post", "followed"}
  BY DEF Ops
<1>2. {what} \in Choices(verb)
  BY DEF Choices, Singles
<1> QED BY <1>1, <1>2 DEF OfferFits

LEMMA FollowedFits ==
  ASSUME NEW rsos, rsos \subseteq Rsos
  PROVE  OfferFits(<<"followed", rsos>>)
<1>1. rsos \in Choices("followed")
  BY DEF Choices
<1> QED BY <1>1 DEF OfferFits, Ops

LEMMA KindPanelFits == \A offer \in KindPanel : OfferFits(offer)
<1>1. {"binding", "closed"} \subseteq PanelSteps
  BY DEF PanelSteps
<1> QED BY <1>1, OpensFits, AnswerFits DEF KindPanel

LEMMA BindingPanelFits == \A offer \in BindingPanel : OfferFits(offer)
<1>1. {"setMenu", "rsoMenu", "kind", "channels", "closed"} \subseteq PanelSteps
  BY DEF PanelSteps
<1> QED BY <1>1, OpensFits, AnswerFits DEF BindingPanel

LEMMA RsoMenuPanelFits == \A step : \A offer \in RsoMenuPanel(step) : OfferFits(offer)
<1>1. {"binding"} \subseteq PanelSteps /\ {"binding", "channels"} \subseteq PanelSteps
  BY DEF PanelSteps
<1>2. Menu \subseteq Rsos
  BY SetupAssumption
<1>3. \A offer \in {<<"followed", rsos>> : rsos \in SUBSET Menu \ {{}}} : OfferFits(offer)
  BY <1>2, FollowedFits
<1>4. \A offer \in {<<"bindrso", rso>> : rso \in Menu} : OfferFits(offer)
  BY <1>2, AnswerFits
<1> QED BY <1>1, <1>3, <1>4, OpensFits DEF RsoMenuPanel

LEMMA ChannelsPanelFits ==
  ASSUME NEW on, NEW bound \in BOOLEAN, on # "none" => on \in BoundPurposes,
         bound => on # "none"
  PROVE  \A offer \in ChannelsPanel(on, bound) : OfferFits(offer)
<1>1. {"binding", "features", "closed"} \subseteq PanelSteps
  BY DEF PanelSteps
<1>2. \A offer \in {<<"purpose", p>> : p \in BoundPurposes} : OfferFits(offer)
  BY DEF OfferFits
<1>3. on # "none" => OfferFits(<<"channel", on>>)
  BY AnswerFits
<1>4. bound => OfferFits(<<"unbind", on>>)
  BY AnswerFits
<1> QED BY <1>1, <1>2, <1>3, <1>4, OpensFits DEF ChannelsPanel

LEMMA FeatureListFits == \A category : \A offer \in FeatureList(category) : OfferFits(offer)
<1>1. {"channels", "timing", "closed"} \subseteq PanelSteps
  BY DEF PanelSteps
<1>2. \A offer \in {<<"category", c>> : c \in Categories} : OfferFits(offer)
  BY DEF OfferFits
<1>3. \A category : \A offer \in {<<"toggle", f>> : f \in {g \in Switchable : FeatureById(g).category = category}} : OfferFits(offer)
  BY AnswerFits
<1> QED BY <1>1, <1>2, <1>3, OpensFits DEF FeatureList

LEMMA TimingPanelFits == \A offer \in TimingPanel : OfferFits(offer)
<1>1. {"features", "closed"} \subseteq PanelSteps
  BY DEF PanelSteps
<1>2. OfferFits(<<"pinned", "pinned">>)
  BY AnswerFits
<1>3. \A offer \in {<<verb, d>> : verb \in {"day", "hour"}, d \in Days} : OfferFits(offer)
  BY AnswerFits
<1> QED BY <1>1, <1>2, <1>3, OpensFits DEF TimingPanel

LEMMA MenuPanelFits == \A offer \in MenuPanel : OfferFits(offer)
<1>1. {"kind", "binding", "channels", "features", "timing", "closed"} \subseteq PanelSteps
  BY DEF PanelSteps
<1> QED BY <1>1, OpensFits DEF MenuPanel

LEMMA OffersFit ==
  ASSUME NEW p, Fits(p), NEW offer \in Offers(p)
  PROVE  OfferFits(offer)
<1>1. CASE p.step = "kind"
  BY <1>1, KindPanelFits DEF Offers
<1>2. CASE p.step = "binding"
  BY <1>2, BindingPanelFits DEF Offers
<1>3. CASE p.step \in {"setMenu", "rsoMenu"}
  BY <1>3, RsoMenuPanelFits DEF Offers
<1>4. CASE p.step = "channels"
  <2>1. Offers(p) = ChannelsPanel(p.on, p.bound)
    BY <1>4 DEF Offers
  <2>2. p.bound \in BOOLEAN /\ (p.on # "none" => p.on \in BoundPurposes)
                           /\ (p.bound => p.on # "none")
    BY <1>4 DEF Fits
  <2> QED BY <2>1, <2>2, ChannelsPanelFits
<1>5. CASE p.step = "features"
  BY <1>5, FeatureListFits DEF Offers
<1>6. CASE p.step = "timing"
  BY <1>6, TimingPanelFits DEF Offers
<1>7. CASE p.step = "menu"
  BY <1>7, MenuPanelFits DEF Offers
<1>8. CASE p.step = "removal"
  BY <1>8, AnswerFits DEF Offers
<1>9. CASE p.step = "closed"
  BY <1>9 DEF Offers
<1>10. p.step \in PanelSteps
  BY DEF Fits
<1> QED BY <1>1, <1>2, <1>3, <1>4, <1>5, <1>6, <1>7, <1>8, <1>9, <1>10 DEF PanelSteps

LEMMA AnyOfferFits ==
  ASSUME NEW offer \in AnyOffer
  PROVE  OfferFits(offer)
<1>1. \A o \in {<<"bindrso", rso>> : rso \in Rsos} : OfferFits(o)
  BY AnswerFits
<1>2. \A o \in {<<verb, p>> : verb \in {"channel", "unbind"}, p \in BoundPurposes} : OfferFits(o)
  BY AnswerFits
<1>3. \A o \in {<<"toggle", f>> : f \in Switchable} : OfferFits(o)
  BY AnswerFits
<1>4. OfferFits(<<"remove", "remove">>)
  BY AnswerFits
<1> QED BY <1>1, <1>2, <1>3, <1>4, KindPanelFits, BindingPanelFits, RsoMenuPanelFits,
           TimingPanelFits DEF AnyOffer

\* An answer is about what its operation may be about.
LEMMA AnswerIs ==
  ASSUME TypeOK, NEW m \in Managers, Answer(m)
  PROVE  \E verb \in Operations(m) \ {"none"} : \E what :
           /\ (IF verb = "followed" THEN what ELSE {what}) \in Choices(verb)
           /\ Chooses(m, verb, what)
<1>1. PICK offer \in IF scene.walking THEN Offers(panel) ELSE AnyOffer :
        offer[1] \in scene.verbs /\ Chooses(m, offer[1], offer[2])
  BY DEF Answer
<1>2. OfferFits(offer)
  BY <1>1, OffersFit, AnyOfferFits DEF TypeOK
<1>3. offer[1] \notin {"open", "category", "purpose"}
  BY <1>1, SetupAssumption DEF TypeOK, RestTyped
<1>4. /\ offer[1] \in Ops \ {"none", "unbound", "leave", "post"}
      /\ (IF offer[1] = "followed" THEN offer[2] ELSE {offer[2]}) \in Choices(offer[1])
  BY <1>2, <1>3 DEF OfferFits
<1>5. offer[1] \in Operations(m) \ {"none"}
  BY <1>4, WhoDoesWhat
<1> QED BY <1>1, <1>4, <1>5

\* Typing step by step: panels, answers, the website, the gateway, posts and faults.

LEMMA PartsAre == \A op : Parts(op) \subseteq {"kind", "binding", "timing", "channels", "features"}
BY DEF Parts

LEMMA CrossedTyped ==
  ASSUME RestTyped, NEW a, NEW op, NEW arg, Takes(a, op, arg)
  PROVE  crossed' \subseteq {"kind", "binding", "timing", "channels", "features"}
BY PartsAre DEF RestTyped, Takes

LEMMA BoundsAre ==
  ASSUME RestTyped
  PROVE  /\ scene.answers \in Nat /\ scene.events \in Nat /\ MaxFaults \in Nat
         /\ scene.managers \subseteq Managers
BY SetupAssumption DEF RestTyped

LEMMA OpenCommandTyped ==
  ASSUME TypeOK, NEW step \in Commands, OpenCommand(step)
  PROVE  TypeOK'
<1>1. Fits(Panel(step, "none"))
  BY PlainPanelFits DEF Commands, PanelSteps
<1>2. Fits(panel)'
  BY <1>1 DEF OpenCommand, Fits
<1>3. HandsTyped' /\ RestTyped'
  BY RestKept DEF OpenCommand, TypeOK, HandsTyped, history
<1>4. HeldTyped'
  BY RowKept, RowCreated DEF OpenCommand, TypeOK
<1> QED BY <1>2, <1>3, <1>4 DEF TypeOK

LEMMA PanelForFits ==
  ASSUME NEW offer, OfferFits(offer), offer[1] \in {"open", "category", "purpose"}
  PROVE  Fits(PanelFor(offer))
<1>1. CASE offer[1] = "open" /\ offer[2] = "features"
  BY <1>1, PlainPanelFits DEF PanelFor, PanelSteps
<1>2. CASE offer[1] = "open" /\ offer[2] # "features"
  <2>1. offer[2] \in PanelSteps
    BY <1>2 DEF OfferFits, Ops
  <2> QED BY <1>2, <2>1, PlainPanelFits DEF PanelFor
<1>3. CASE offer[1] = "category"
  BY <1>3, PlainPanelFits DEF PanelFor, PanelSteps
<1>4. CASE offer[1] = "purpose"
  <2>1. offer[2] \in BoundPurposes
    BY <1>4 DEF OfferFits, Ops
  <2>2. PanelFor(offer) = [step |-> "channels", on |-> offer[2], bound |-> offer[2] \in channels]
    BY <1>4 DEF PanelFor
  <2>3. (offer[2] \in channels) \in BOOLEAN
    OBVIOUS
  <2> QED BY <2>1, <2>2, <2>3, ChannelPanelFits
<1> QED BY <1>1, <1>2, <1>3, <1>4

LEMMA NavigateTyped ==
  ASSUME TypeOK, Navigate
  PROVE  TypeOK'
<1>1. PICK offer \in Offers(panel) :
        offer[1] \in {"open", "category", "purpose"} /\ panel' = PanelFor(offer)
  BY DEF Navigate
<1>2. Fits(PanelFor(offer))
  BY <1>1, OffersFit, PanelForFits DEF TypeOK
<1>3. Fits(panel)'
  BY <1>1, <1>2 DEF Fits
<1>4. HandsTyped' /\ RestTyped' /\ HeldTyped'
  BY RestKept, RowCreated DEF Navigate, TypeOK, HandsTyped
<1> QED BY <1>3, <1>4 DEF TypeOK

LEMMA AnswerTyped ==
  ASSUME TypeOK, NEW m \in Managers, Answer(m)
  PROVE  TypeOK'
<1>1. PICK verb, what :
           /\ verb \in Operations(m) \ {"none"}
           /\ (IF verb = "followed" THEN what ELSE {what}) \in Choices(verb)
           /\ Chooses(m, verb, what)
  BY AnswerIs
<1> DEFINE arg == IF verb = "followed" THEN what ELSE {what}
<1>2. Takes(m, verb, arg) /\ arg \in Choices(verb)
  BY <1>1 DEF Chooses
<1>3. HandsTyped' /\ Fits(panel)'
  <2> HIDE DEF arg
  <2>1. UNCHANGED panel
    BY <1>1 DEF Chooses
  <2> QED BY <1>1, <1>2, <2>1, TakesFits, WhoIsWho DEF TypeOK
<1>4. HeldTyped'
  BY <1>1, RowKept DEF Chooses, TypeOK
<1>5. answered' \in Timings
  <2>1. verb \in {"day", "hour"} => what \in Days
    BY <1>1 DEF Choices, Singles
  <2> QED BY <1>1, <2>1 DEF Chooses, TypeOK, RestTyped, Timings
<1>6. chosen' \subseteq Rsos
  BY <1>1 DEF Chooses, TypeOK, RestTyped, Choices
<1>7. answers' \in 0..scene.answers
  BY <1>1, BoundsAre DEF Chooses, TypeOK, RestTyped
<1>8. crossed' \subseteq {"kind", "binding", "timing", "channels", "features"}
  BY <1>2, CrossedTyped DEF TypeOK
<1>9. RestTyped'
  BY <1>1, <1>5, <1>6, <1>7, <1>8 DEF Chooses, TypeOK, RestTyped, outside
<1> QED BY <1>3, <1>4, <1>9 DEF TypeOK

LEMMA DisconnectOnSiteTyped ==
  ASSUME TypeOK, DisconnectOnSite
  PROVE  TypeOK'
<1>1. HandsTyped' /\ Fits(panel)' /\ HeldTyped'
  BY RowKept DEF DisconnectOnSite, TypeOK, HandsTyped, Fits
<1>2. dashboard \in Rsos /\ instructions \in Seq(Rsos) /\ Len(instructions) <= events
      /\ events \in 0..scene.events /\ scene.events \in Nat
  BY BoundsAre DEF DisconnectOnSite, TypeOK, RestTyped
<1>3. /\ instructions' \in Seq(Rsos) /\ Len(instructions') <= events'
      /\ events' \in 0..scene.events
  BY <1>2, AppendProperties, LenProperties DEF DisconnectOnSite
<1>4. RestTyped'
  BY <1>3 DEF DisconnectOnSite, TypeOK, RestTyped, history
<1> QED BY <1>1, <1>4 DEF TypeOK

LEMMA TakeInstructionTyped ==
  ASSUME TypeOK, TakeInstruction
  PROVE  TypeOK'
<1>1. instructions \in Seq(Rsos) /\ instructions # <<>>
  BY DEF TakeInstruction, TypeOK, RestTyped
<1>2. Head(instructions) \in Rsos
  BY <1>1, HeadTailProperties
<1> DEFINE arg == {Head(instructions)}
<1>3. arg \in Choices("unbound") /\ "unbound" \in Operations(Handler)
  BY <1>2, WhoDoesWhat DEF Choices, Singles
<1>4. Takes(Handler, "unbound", arg) /\ UNCHANGED panel
  BY DEF TakeInstruction
<1>5. HandsTyped' /\ Fits(panel)'
  <2> HIDE DEF arg
  <2> QED BY <1>3, <1>4, TakesFits, WhoIsWho DEF TypeOK
<1>6. crossed' \subseteq {"kind", "binding", "timing", "channels", "features"}
  BY <1>4, CrossedTyped DEF TypeOK
<1>7. HeldTyped' /\ RestTyped'
  BY <1>6, RowKept DEF TakeInstruction, TypeOK, RestTyped, outside, budget
<1> QED BY <1>5, <1>7 DEF TypeOK

LEMMA ReadInstructionTyped ==
  ASSUME TypeOK, ReadInstruction
  PROVE  TypeOK'
<1>1. hand[Handler].op = "unbound" /\ Busy(Handler)
  BY StepIs, WhoIsWho, AtIsBusy DEF ReadInstruction, TypeOK
<1>2. <<"advance">> \in Ways(hand[Handler].op)
  BY <1>1, WaysOf
<1>3. HandsTyped' /\ Fits(panel)'
  BY <1>1, <1>2, GoesFits, SkipsFits, WhoIsWho DEF ReadInstruction, TypeOK
<1> QED BY <1>3, RestKept, RowKept DEF ReadInstruction, TypeOK

\* The handler keeps at the first instruction while it is at work.
LEMMA AdvanceTyped ==
  ASSUME TypeOK, ActorInv, Advance
  PROVE  TypeOK'
<1>1. HandsTyped' /\ Fits(panel)' /\ HeldTyped'
  BY GoesFits, WhoIsWho, AtIsBusy, RowKept DEF Advance, TypeOK
<1>2. instructions \in Seq(Rsos) /\ Len(instructions) <= events /\ instructions # <<>>
  BY AtIsBusy DEF Advance, TypeOK, RestTyped, ActorInv
<1>3. events \in Nat
  BY BoundsAre DEF TypeOK, RestTyped
<1>4. Tail(instructions) \in Seq(Rsos) /\ Len(Tail(instructions)) <= events
  BY <1>2, <1>3, HeadTailProperties, LenProperties
<1>5. RestTyped'
  BY <1>4 DEF Advance, TypeOK, RestTyped, budget, history
<1> QED BY <1>1, <1>5 DEF TypeOK

LEMMA GuildCreateTyped ==
  ASSUME TypeOK, GuildCreate
  PROVE  TypeOK'
BY RowCreated, RestKept DEF GuildCreate, TypeOK, HandsTyped, Fits

LEMMA JoinTyped ==
  ASSUME TypeOK, Join
  PROVE  TypeOK'
<1>1. HandsTyped' /\ Fits(panel)' /\ HeldTyped'
  BY RowCreated DEF Join, TypeOK, HandsTyped, Fits
<1>2. events' \in 0..scene.events /\ Len(instructions) <= events'
  BY BoundsAre, LenProperties DEF Join, TypeOK, RestTyped
<1>3. RestTyped'
  BY <1>2 DEF Join, TypeOK, RestTyped
<1> QED BY <1>1, <1>3 DEF TypeOK

LEMMA GuildDeleteTyped ==
  ASSUME TypeOK, GuildDelete
  PROVE  TypeOK'
<1>1. Takes(Gateway, "leave", {}) /\ UNCHANGED panel
  BY DEF GuildDelete
<1>2. {} \in Choices("leave") /\ "leave" \in Operations(Gateway)
  BY WhoDoesWhat DEF Choices
<1>3. HandsTyped' /\ Fits(panel)'
  BY <1>1, <1>2, TakesFits, WhoIsWho DEF TypeOK
<1>4. events' \in 0..scene.events /\ Len(instructions) <= events'
  BY BoundsAre, LenProperties DEF GuildDelete, TypeOK, RestTyped
<1>5. crossed' \subseteq {"kind", "binding", "timing", "channels", "features"}
  BY <1>1, CrossedTyped DEF TypeOK
<1>6. HeldTyped' /\ RestTyped'
  BY <1>4, <1>5, RowKept DEF GuildDelete, TypeOK, RestTyped
<1> QED BY <1>3, <1>6 DEF TypeOK

LEMMA TakePostTyped ==
  ASSUME TypeOK, NEW f \in Switchable, TakePost(f)
  PROVE  TypeOK'
<1> DEFINE arg == {f}
<1>1. Takes(Poster, "post", arg) /\ UNCHANGED panel
  BY DEF TakePost
<1>2. arg \in Choices("post") /\ "post" \in Operations(Poster)
  BY WhoDoesWhat DEF Choices, Singles
<1>3. HandsTyped' /\ Fits(panel)'
  <2> HIDE DEF arg
  <2> QED BY <1>1, <1>2, TakesFits, WhoIsWho DEF TypeOK
<1>4. events' \in 0..scene.events /\ Len(instructions) <= events'
  BY BoundsAre, LenProperties DEF TakePost, TypeOK, RestTyped
<1>5. crossed' \subseteq {"kind", "binding", "timing", "channels", "features"}
  BY <1>1, CrossedTyped DEF TypeOK
<1>6. HeldTyped' /\ RestTyped'
  BY <1>4, <1>5, RowKept DEF TakePost, TypeOK, RestTyped, outside
<1> QED BY <1>3, <1>6 DEF TypeOK

LEMMA ChannelForTyped ==
  ASSUME TypeOK, ChannelFor
  PROVE  TypeOK'
<1>1. Busy(Poster) /\ (Goes(Poster) \/ Stops(Poster))
  BY AtIsBusy DEF ChannelFor
<1>2. HandsTyped' /\ Fits(panel)'
  BY <1>1, GoesFits, StopsFits, WhoIsWho DEF TypeOK
<1> QED BY <1>2, RestKept, RowKept DEF ChannelFor, TypeOK

LEMMA IntendTyped ==
  ASSUME TypeOK, Intend
  PROVE  TypeOK'
<1>1. Busy(Poster) /\ (Goes(Poster) \/ Stops(Poster))
  BY AtIsBusy DEF Intend
<1>2. HandsTyped' /\ Fits(panel)' /\ HeldTyped'
  BY <1>1, GoesFits, StopsFits, WhoIsWho, RowKept DEF Intend, TypeOK
<1>3. notice' \in [Switchable -> {"absent", "owed", "posted"}]
  BY DEF Intend, TypeOK, RestTyped
<1>4. RestTyped'
  BY <1>3 DEF Intend, TypeOK, RestTyped, outside, budget, history
<1> QED BY <1>2, <1>4 DEF TypeOK

LEMMA SendNoticeTyped ==
  ASSUME TypeOK, SendNotice
  PROVE  TypeOK'
<1>1. HandsTyped' /\ Fits(panel)' /\ HeldTyped'
  BY AtIsBusy, GoesFits, WhoIsWho, RowKept DEF SendNotice, TypeOK
<1>2. told' \in [Switchable -> Nat]
  <2>1. Arg(Poster) \in Switchable /\ told \in [Switchable -> Nat]
    BY StepIs, ArgIs, WhoIsWho DEF SendNotice, TypeOK, RestTyped
  <2>2. told[Arg(Poster)] + 1 \in Nat
    BY <2>1
  <2> QED BY <2>1, <2>2 DEF SendNotice
<1>3. RestTyped'
  BY <1>2 DEF SendNotice, TypeOK, RestTyped, outside, budget
<1> QED BY <1>1, <1>3 DEF TypeOK

LEMMA RecordNoticeTyped ==
  ASSUME TypeOK, RecordNotice
  PROVE  TypeOK'
<1>1. HandsTyped' /\ Fits(panel)' /\ HeldTyped'
  BY AtIsBusy, GoesFits, WhoIsWho, RowKept DEF RecordNotice, TypeOK
<1>2. notice' \in [Switchable -> {"absent", "owed", "posted"}]
  BY DEF RecordNotice, TypeOK, RestTyped
<1>3. RestTyped'
  BY <1>2 DEF RecordNotice, TypeOK, RestTyped, outside, budget, history
<1> QED BY <1>1, <1>3 DEF TypeOK

LEMMA FaultsTyped ==
  ASSUME RestTyped, faults < MaxFaults, faults' = faults + 1,
         UNCHANGED <<notice, outside, scene, answers, events, history>>
  PROVE  RestTyped'
<1>1. faults' \in 0..MaxFaults
  BY BoundsAre DEF RestTyped
<1> QED BY <1>1 DEF RestTyped, outside, history

LEMMA CallFailsTyped ==
  ASSUME TypeOK, NEW a \in Actors, CallFails(a)
  PROVE  TypeOK'
<1>1. HandsTyped' /\ Fits(panel)'
  <2>1. CASE Goes(a)
    BY <2>1, GoesFits DEF CallFails, TypeOK
  <2>2. CASE At(a, "readBinding") /\ Skips(a, "read")
    <3>1. <<"read">> \in Ways(hand[a].op)
      BY <2>2, StepIs, WaysOf DEF TypeOK
    <3> QED BY <2>2, <3>1, SkipsFits DEF TypeOK
  <2>3. CASE Stops(a)
    BY <2>3, StopsFits DEF TypeOK
  <2> QED BY <2>1, <2>2, <2>3 DEF CallFails
<1>2. HeldTyped'
  BY RowKept DEF CallFails, TypeOK
<1>3. RestTyped'
  BY FaultsTyped DEF CallFails, TypeOK
<1> QED BY <1>1, <1>2, <1>3 DEF TypeOK

LEMMA CrashTyped ==
  ASSUME TypeOK, Crash
  PROVE  TypeOK'
<1>1. \A a \in Actors : Idle \in Hands(a, Idle.op)
  BY IdleIs
<1>2. HandsTyped'
  BY <1>1 DEF Crash, HandsTyped
<1>3. Fits(panel)'
  BY ClosedFits DEF Crash, Fits
<1>4. HeldTyped'
  BY RowKept DEF Crash, TypeOK
<1>5. RestTyped'
  BY FaultsTyped DEF Crash, TypeOK
<1> QED BY <1>2, <1>3, <1>4, <1>5 DEF TypeOK

LEMMA InitTyped == Init => TypeOK
<1> SUFFICES ASSUME Init PROVE TypeOK
  OBVIOUS
<1>1. FirstTiming \in Timings
  BY SetupAssumption DEF FirstTiming, Timings
<1>2. HeldTyped
  BY <1>1, NoRsoIsNone DEF Init, HeldTyped, BoundTo, Unanswered, Kinds
<1>3. HandsTyped
  BY IdleIs DEF Init, HandsTyped
<1>4. Fits(panel)
  BY ClosedFits DEF Init
<1>5. RestTyped
  <2>1. /\ 0 \in 0..scene.answers /\ 0 \in 0..scene.events /\ 0 \in 0..MaxFaults
    BY SetupAssumption DEF Init
  <2>2. instructions \in Seq(Rsos) /\ Len(instructions) <= events
    BY EmptySeq DEF Init
  <2> QED BY <1>1, <2>1, <2>2 DEF Init, RestTyped
<1> QED BY <1>2, <1>3, <1>4, <1>5 DEF TypeOK

-----------------------------------------------------------------------------
(* Who moves at a step, and what the actors hold between them.             *)

\* Only a moves, and its operation is the one it was or is over.
Works(a) ==
  /\ Others(a)
  /\ \/ hand'[a].op = hand[a].op /\ hand'[a].arg = hand[a].arg
     \/ hand'[a] = Idle

LEMMA KnowingWorks ==
  ASSUME HandsTyped, NEW a \in Actors, Busy(a), NEW saw \in Readings, Knowing(a, saw)
  PROVE  Works(a)
BY KnowingIs DEF Works

LEMMA GoesWorks ==
  ASSUME HandsTyped, NEW a \in Actors, Busy(a), Goes(a)
  PROVE  Works(a)
BY KnowingWorks, HandIs DEF Goes

LEMMA StopsWorks ==
  ASSUME HandsTyped, NEW a \in Actors, Stops(a)
  PROVE  Works(a)
BY StopsIs DEF Works

LEMMA SkipsWorks ==
  ASSUME HandsTyped, NEW a \in Actors, NEW step, <<step>> \in Ways(hand[a].op), Skips(a, step)
  PROVE  Works(a)
BY SkipsIs DEF Works

\* What no step of a manager's operations touches, whoever takes it.
Around == <<notice, inServer, instructions, scene, budget, crossed, leaving, told>>

LEMMA ManagerWorks ==
  ASSUME TypeOK, NEW a \in Actors, ManagerStep(a)
  PROVE  TypeOK' /\ Busy(a) /\ Works(a) /\ UNCHANGED Around
<1>1. CASE Read(a)
  <2> DEFINE s == hand[a].saw
             saw == IF Parts(hand[a].op) = {"timing"} THEN [s EXCEPT !.timing = timing]
                    ELSE IF hand[a].op = "toggle" THEN [s EXCEPT !.channels = channels]
                    ELSE s
  <2>1. s \in Readings /\ timing \in Timings /\ channels \in SUBSET BoundPurposes
    BY HandIs DEF TypeOK, HeldTyped
  <2>2. saw \in Readings
    BY <2>1 DEF Readings
  <2>3. Knowing(a, saw) /\ Busy(a)
    BY <1>1, AtIsBusy DEF Read
  <2>4. Works(a)
    <3> HIDE DEF saw
    <3> QED BY <2>2, <2>3, KnowingWorks DEF TypeOK
  <2> QED BY <1>1, <2>3, <2>4, ReadTyped DEF Read, Around, outside, history
<1>2. CASE SetKind(a)
  BY <1>2, AtIsBusy, GoesWorks, SetKindTyped DEF SetKind, TypeOK, Around, outside, history
<1>3. CASE Bind(a)
  BY <1>3, AtIsBusy, GoesWorks, BindTyped DEF Bind, TypeOK, Around, outside, history
<1>4. CASE Unfollow(a)
  BY <1>4, AtIsBusy, GoesWorks, UnfollowTyped DEF Unfollow, TypeOK, Around, outside, history
<1>5. CASE Follow(a)
  BY <1>5, AtIsBusy, GoesWorks, StopsWorks, FollowTyped
     DEF Follow, TypeOK, Around, outside, history
<1>6. CASE Confirm(a)
  BY <1>6, AtIsBusy, GoesWorks, StopsWorks, ConfirmTyped
     DEF Confirm, TypeOK, Around, outside, history
<1>7. CASE ReadBinding(a)
  <2> DEFINE rso == IF installed /\ binding.to = "rso" THEN binding.rso ELSE NoRso
             saw == [hand[a].saw EXCEPT !.rso = rso]
  <2>1. hand[a].saw \in Readings /\ rso \in Rsos \cup {NoRso}
    BY HandIs DEF TypeOK, HeldTyped
  <2>2. saw \in Readings
    <3> HIDE DEF rso
    <3> QED BY <2>1 DEF Readings
  <2>3. Knowing(a, saw) /\ Busy(a)
    BY <1>7, AtIsBusy DEF ReadBinding
  <2>4. Works(a)
    <3> HIDE DEF saw
    <3> QED BY <2>2, <2>3, KnowingWorks DEF TypeOK
  <2> QED BY <1>7, <2>3, <2>4, ReadBindingTyped DEF ReadBinding, Around, outside, history
<1>8. CASE Report(a)
  BY <1>8, AtIsBusy, GoesWorks, ReportTyped DEF Report, TypeOK, Around, outside, history
<1>9. CASE SetTiming(a)
  BY <1>9, AtIsBusy, GoesWorks, SetTimingTyped DEF SetTiming, TypeOK, Around, outside, history
<1>10. CASE SetChannel(a)
  BY <1>10, AtIsBusy, GoesWorks, StopsWorks, SetChannelTyped
     DEF SetChannel, TypeOK, Around, outside, history
<1>11. CASE ReadFeature(a)
  <2>1. CASE Skips(a, "read")
    <3>1. <<"read">> \in Ways(hand[a].op)
      BY <1>11, StepIs, WaysOf DEF ReadFeature, TypeOK
    <3> QED BY <2>1, <3>1, SkipsWorks, <1>11, AtIsBusy, ReadFeatureTyped
            DEF ReadFeature, TypeOK, Around, outside, history
  <2>2. CASE Knowing(a, [hand[a].saw EXCEPT !.on = Enabled(Arg(a))])
    <3> DEFINE saw == [hand[a].saw EXCEPT !.on = Enabled(Arg(a))]
    <3>1. hand[a].saw \in Readings /\ Enabled(Arg(a)) \in BOOLEAN
      BY HandIs DEF TypeOK, Enabled
    <3>2. saw \in Readings
      BY <3>1 DEF Readings
    <3>3. Knowing(a, saw) /\ Busy(a)
      BY <1>11, <2>2, AtIsBusy DEF ReadFeature
    <3>4. Works(a)
      <4> HIDE DEF saw
      <4> QED BY <3>2, <3>3, KnowingWorks DEF TypeOK
    <3> QED BY <1>11, <3>3, <3>4, ReadFeatureTyped DEF ReadFeature, Around, outside, history
  <2> QED BY <1>11, <2>1, <2>2 DEF ReadFeature
<1>12. CASE SetFeature(a)
  BY <1>12, AtIsBusy, GoesWorks, StopsWorks, SetFeatureTyped
     DEF SetFeature, TypeOK, Around, outside, history
<1>13. CASE RemoveGuild(a)
  BY <1>13, AtIsBusy, GoesWorks, RemoveGuildTyped DEF RemoveGuild, TypeOK, Around, outside
<1> QED BY <1>1, <1>2, <1>3, <1>4, <1>5, <1>6, <1>7, <1>8, <1>9, <1>10, <1>11, <1>12, <1>13
        DEF ManagerStep

\* An actor works at its operation, takes one up, is stopped with all others, or
\* nobody moves.
LEMMA WhoMoves ==
  ASSUME TypeOK, ActorInv, [Next]_vars
  PROVE  /\ TypeOK'
         /\ \/ UNCHANGED <<hand, crossed>>
            \/ \E a \in Actors : Busy(a) /\ Works(a) /\ UNCHANGED crossed
            \/ \E a \in Actors : \E op \in Operations(a) \ {"none"} : \E arg \in Choices(op) :
                 Takes(a, op, arg)
            \/ hand' = [a \in Actors |-> Idle] /\ UNCHANGED crossed
<1>1. CASE UNCHANGED vars
  BY <1>1, RowKept, RestKept DEF vars, history, outside, budget, row, TypeOK, HandsTyped, Fits
<1>2. CASE \E step \in Commands : OpenCommand(step)
  BY <1>2, OpenCommandTyped DEF OpenCommand, history
<1>3. CASE Navigate
  BY <1>3, NavigateTyped DEF Navigate, history
<1>4. CASE \E m \in Managers : Answer(m)
  <2>1. PICK m \in Managers : Answer(m)
    BY <1>4
  <2>2. PICK verb, what :
           /\ verb \in Operations(m) \ {"none"}
           /\ (IF verb = "followed" THEN what ELSE {what}) \in Choices(verb)
           /\ Chooses(m, verb, what)
    BY <2>1, AnswerIs
  <2> DEFINE arg == IF verb = "followed" THEN what ELSE {what}
  <2>3. Takes(m, verb, arg) /\ arg \in Choices(verb)
    BY <2>2 DEF Chooses
  <2> HIDE DEF arg
  <2> QED BY <2>1, <2>2, <2>3, AnswerTyped, WhoIsWho
<1>5. CASE DisconnectOnSite
  BY <1>5, DisconnectOnSiteTyped DEF DisconnectOnSite, history
<1>6. CASE GuildCreate
  BY <1>6, GuildCreateTyped DEF GuildCreate, history
<1>7. CASE Join
  BY <1>7, JoinTyped DEF Join
<1>8. CASE GuildDelete
  <2>1. {} \in Choices("leave") /\ "leave" \in Operations(Gateway) \ {"none"}
    BY WhoDoesWhat DEF Choices
  <2> QED BY <1>8, <2>1, GuildDeleteTyped, WhoIsWho DEF GuildDelete
<1>9. CASE \E f \in Switchable : TakePost(f)
  <2>1. PICK f \in Switchable : TakePost(f)
    BY <1>9
  <2>2. {f} \in Choices("post") /\ "post" \in Operations(Poster) \ {"none"}
    BY WhoDoesWhat DEF Choices, Singles
  <2> QED BY <2>1, <2>2, TakePostTyped, WhoIsWho DEF TakePost
<1>10. CASE \E a \in Actors : CallFails(a)
  <2>1. PICK a \in Actors : CallFails(a)
    BY <1>10
  <2>2. Works(a) /\ Busy(a)
    <3>1. CASE Goes(a)
      BY <2>1, <3>1, GoesWorks DEF CallFails, TypeOK
    <3>2. CASE At(a, "readBinding") /\ Skips(a, "read")
      <4>1. <<"read">> \in Ways(hand[a].op)
        BY <3>2, StepIs, WaysOf DEF TypeOK
      <4> QED BY <2>1, <3>2, <4>1, SkipsWorks DEF CallFails, TypeOK
    <3>3. CASE Stops(a)
      BY <2>1, <3>3, StopsWorks DEF CallFails, TypeOK
    <3> QED BY <2>1, <3>1, <3>2, <3>3 DEF CallFails
  <2> QED BY <2>1, <2>2, CallFailsTyped DEF CallFails, history
<1>11. CASE Crash
  BY <1>11, CrashTyped DEF Crash, history
<1>12. CASE \E a \in Actors : ManagerStep(a)
  BY <1>12, ManagerWorks DEF Around
<1>13. CASE TakeInstruction
  <2> DEFINE arg == {Head(instructions)}
  <2>1. instructions \in Seq(Rsos) /\ instructions # <<>>
    BY <1>13 DEF TakeInstruction, TypeOK, RestTyped
  <2>2. Head(instructions) \in Rsos
    BY <2>1, HeadTailProperties
  <2>3. arg \in Choices("unbound") /\ "unbound" \in Operations(Handler) \ {"none"}
    BY <2>2, WhoDoesWhat DEF Choices, Singles
  <2>4. Takes(Handler, "unbound", arg)
    BY <1>13 DEF TakeInstruction
  <2> HIDE DEF arg
  <2> QED BY <1>13, <2>3, <2>4, TakeInstructionTyped, WhoIsWho
<1>14. CASE ReadInstruction
  <2>1. <<"advance">> \in Ways(hand[Handler].op)
    BY <1>14, StepIs, WhoIsWho, WaysOf DEF ReadInstruction, TypeOK
  <2> QED BY <1>14, <2>1, ReadInstructionTyped, GoesWorks, SkipsWorks, AtIsBusy, WhoIsWho
          DEF ReadInstruction, TypeOK, history
<1>15. CASE Advance
  BY <1>15, AdvanceTyped, GoesWorks, AtIsBusy, WhoIsWho DEF Advance, TypeOK, history
<1>16. CASE ChannelFor
  BY <1>16, ChannelForTyped, GoesWorks, StopsWorks, AtIsBusy, WhoIsWho
     DEF ChannelFor, TypeOK, history
<1>17. CASE Intend
  BY <1>17, IntendTyped, GoesWorks, StopsWorks, AtIsBusy, WhoIsWho DEF Intend, TypeOK, history
<1>18. CASE SendNotice
  BY <1>18, SendNoticeTyped, GoesWorks, AtIsBusy, WhoIsWho DEF SendNotice, TypeOK
<1>19. CASE RecordNotice
  BY <1>19, RecordNoticeTyped, GoesWorks, AtIsBusy, WhoIsWho DEF RecordNotice, TypeOK, history
<1>20. /\ \A m \in Managers : ManagerStep(m) => \E a \in Actors : ManagerStep(a)
       /\ Bind(Handler) => \E a \in Actors : ManagerStep(a)
       /\ RemoveGuild(Gateway) \/ Report(Gateway) => \E a \in Actors : ManagerStep(a)
       /\ SetFeature(Poster) => \E a \in Actors : ManagerStep(a)
  BY WhoIsWho DEF ManagerStep
<1> QED BY <1>1, <1>2, <1>3, <1>4, <1>5, <1>6, <1>7, <1>8, <1>9, <1>10, <1>11, <1>12, <1>13,
           <1>14, <1>15, <1>16, <1>17, <1>18, <1>19, <1>20
        DEF Next, World, HandlerStep, GatewayStep, PosterStep

\* An operation that is over has no part of what is held.
LEMMA IdleHasNoPart == Parts(Idle.op) = {}
BY IdleIs DEF Parts

LEMMA WorksKeepsParts ==
  ASSUME NEW a \in Actors, Works(a), NEW b \in Actors
  PROVE  Parts(hand'[b].op) \subseteq Parts(hand[b].op)
BY IdleHasNoPart DEF Works, Others

LEMMA AloneKept ==
  ASSUME TypeOK, AloneInv, ActorInv, [Next]_vars
  PROVE  AloneInv'
<1>1. CASE UNCHANGED <<hand, crossed>>
  BY <1>1 DEF AloneInv
<1>2. CASE \E a \in Actors : Busy(a) /\ Works(a) /\ UNCHANGED crossed
  BY <1>2, WorksKeepsParts DEF AloneInv
<1>3. ASSUME NEW a \in Actors, NEW op \in Operations(a) \ {"none"}, NEW arg \in Choices(op),
             Takes(a, op, arg)
      PROVE  AloneInv'
  <2>1. /\ Others(a) /\ hand'[a].op = op /\ crossed \subseteq crossed'
        /\ \A b \in Actors : \A part \in Parts(op) :
             b # a /\ Busy(b) /\ part \in Parts(hand[b].op) => part \in crossed'
    BY <1>3, TakesIs DEF TypeOK, Takes
  <2>2. \A b \in Actors : Parts(hand[b].op) # {} => Busy(b)
    BY BusyIs DEF TypeOK, Parts
  <2>3. ASSUME NEW b \in Actors, b # a, NEW part \in Parts(op) \cap Parts(hand'[b].op)
        PROVE  part \in crossed'
    BY <2>1, <2>2, <2>3 DEF Others
  <2>4. ASSUME NEW b \in Actors, NEW c \in Actors, b # a, c # a, b # c,
               NEW part \in Parts(hand'[b].op) \cap Parts(hand'[c].op)
        PROVE  part \in crossed'
    BY <2>1, <2>4 DEF Others, AloneInv
  <2> QED BY <2>1, <2>3, <2>4 DEF AloneInv
<1>4. CASE hand' = [a \in Actors |-> Idle] /\ UNCHANGED crossed
  BY <1>4, IdleHasNoPart DEF AloneInv
<1> QED BY <1>1, <1>2, <1>3, <1>4, WhoMoves

\* Whoever has a part of what is held in hand, uncrossed, has it alone.
LEMMA AloneIs ==
  ASSUME AloneInv, NEW a \in Actors, NEW part \in Parts(hand[a].op), part \notin crossed,
         NEW b \in Actors, b # a
  PROVE  part \notin Parts(hand[b].op)
BY DEF AloneInv

\* The steps, one by one; those of an interaction whoever takes them.
LEMMA StepsOfNext ==
  ASSUME [Next]_vars
  PROVE  \/ UNCHANGED vars
         \/ (\E step \in Commands : OpenCommand(step)) \/ Navigate
         \/ \E m \in Managers : Answer(m)
         \/ DisconnectOnSite \/ GuildCreate \/ Join \/ GuildDelete
         \/ \E f \in Switchable : TakePost(f)
         \/ (\E a \in Actors : CallFails(a)) \/ Crash
         \/ \E a \in Actors : ManagerStep(a)
         \/ TakeInstruction \/ ReadInstruction \/ Advance
         \/ ChannelFor \/ Intend \/ SendNotice \/ RecordNotice
<1>1. /\ \A m \in Managers : ManagerStep(m) => \E a \in Actors : ManagerStep(a)
      /\ Bind(Handler) => \E a \in Actors : ManagerStep(a)
      /\ RemoveGuild(Gateway) \/ Report(Gateway) => \E a \in Actors : ManagerStep(a)
      /\ SetFeature(Poster) => \E a \in Actors : ManagerStep(a)
  BY WhoIsWho DEF ManagerStep
<1> QED BY <1>1 DEF Next, World, HandlerStep, GatewayStep, PosterStep

\* Who is at work after a step of nobody's taking up was so before, and at the same.
Kept == \A b \in Actors : Busy(b)' => Busy(b) /\ hand'[b].op = hand[b].op
                                             /\ hand'[b].arg = hand[b].arg

LEMMA WorksKept ==
  ASSUME NEW a \in Actors, Busy(a), Works(a)
  PROVE  Kept
BY IdleIs DEF Kept, Works, Others, Busy

LEMMA SameKept ==
  ASSUME UNCHANGED hand
  PROVE  Kept
BY DEF Kept, Busy

LEMMA CrashKept ==
  ASSUME Crash
  PROVE  Kept
BY IdleIs DEF Kept, Crash, Busy

\* The steps of the handler, the poster and a call that fails.
LEMMA HandlerWorks ==
  ASSUME TypeOK, ReadInstruction \/ Advance
  PROVE  Busy(Handler) /\ Works(Handler)
<1>1. CASE ReadInstruction
  <2>1. <<"advance">> \in Ways(hand[Handler].op)
    BY <1>1, StepIs, WhoIsWho, WaysOf DEF ReadInstruction, TypeOK
  <2> QED BY <1>1, <2>1, GoesWorks, SkipsWorks, AtIsBusy, WhoIsWho DEF ReadInstruction, TypeOK
<1>2. CASE Advance
  BY <1>2, GoesWorks, AtIsBusy, WhoIsWho DEF Advance, TypeOK
<1> QED BY <1>1, <1>2

LEMMA PosterWorks ==
  ASSUME TypeOK, ChannelFor \/ Intend \/ SendNotice \/ RecordNotice
  PROVE  Busy(Poster) /\ Works(Poster)
<1>1. Busy(Poster) /\ (Goes(Poster) \/ Stops(Poster))
  BY AtIsBusy DEF ChannelFor, Intend, SendNotice, RecordNotice
<1> QED BY <1>1, GoesWorks, StopsWorks, WhoIsWho DEF TypeOK

LEMMA FailureWorks ==
  ASSUME TypeOK, NEW a \in Actors, CallFails(a)
  PROVE  Busy(a) /\ Works(a)
<1>1. CASE Goes(a)
  BY <1>1, GoesWorks DEF CallFails, TypeOK
<1>2. CASE At(a, "readBinding") /\ Skips(a, "read")
  <2>1. <<"read">> \in Ways(hand[a].op)
    BY <1>2, StepIs, WaysOf DEF TypeOK
  <2> QED BY <1>2, <2>1, SkipsWorks DEF CallFails, TypeOK
<1>3. CASE Stops(a)
  BY <1>3, StopsWorks DEF CallFails, TypeOK
<1> QED BY <1>1, <1>2, <1>3 DEF CallFails

\* What is taken up: by whom, and what about.
LEMMA AnswerTakes ==
  ASSUME TypeOK, NEW m \in Managers, Answer(m)
  PROVE  \E verb \in Operations(m) \ {"none"} : \E what :
           LET arg == IF verb = "followed" THEN what ELSE {what} IN
           /\ Chooses(m, verb, what)
           /\ arg \in Choices(verb)
           /\ ~Busy(m) /\ Others(m)
           /\ hand'[m].op = verb /\ hand'[m].arg = arg
           /\ hand'[m].todo = Steps(verb) /\ hand'[m].saw = Nothing
<1>1. PICK verb, what :
           /\ verb \in Operations(m) \ {"none"}
           /\ (IF verb = "followed" THEN what ELSE {what}) \in Choices(verb)
           /\ Chooses(m, verb, what)
  BY AnswerIs
<1> DEFINE arg == IF verb = "followed" THEN what ELSE {what}
<1>2. Takes(m, verb, arg) /\ arg \in Choices(verb) /\ verb \in Operations(m)
  BY <1>1 DEF Chooses
<1>3. /\ ~Busy(m) /\ Others(m) /\ hand'[m].op = verb /\ hand'[m].arg = arg
      /\ hand'[m].todo = Steps(verb) /\ hand'[m].saw = Nothing
  <2> HIDE DEF arg
  <2> QED BY <1>2, TakesIs, WhoIsWho DEF TypeOK
<1> QED BY <1>1, <1>3

LEMMA InstructionTakes ==
  ASSUME TypeOK, TakeInstruction
  PROVE  /\ ~Busy(Handler) /\ Others(Handler)
         /\ hand'[Handler].op = "unbound" /\ hand'[Handler].arg = {Head(instructions)}
         /\ hand'[Handler].todo = Steps("unbound")
<1>1. instructions \in Seq(Rsos) /\ instructions # <<>>
  BY DEF TakeInstruction, TypeOK, RestTyped
<1>2. Head(instructions) \in Rsos
  BY <1>1, HeadTailProperties
<1> DEFINE arg == {Head(instructions)}
<1>3. arg \in Choices("unbound") /\ "unbound" \in Operations(Handler)
  BY <1>2, WhoDoesWhat DEF Choices, Singles
<1>4. Takes(Handler, "unbound", arg)
  BY DEF TakeInstruction
<1>5. /\ ~Busy(Handler) /\ Others(Handler)
      /\ hand'[Handler].op = "unbound" /\ hand'[Handler].arg = arg
      /\ hand'[Handler].todo = Steps("unbound")
  <2> HIDE DEF arg
  <2> QED BY <1>3, <1>4, TakesIs, WhoIsWho DEF TypeOK
<1> QED BY <1>5

LEMMA RemovalTakes ==
  ASSUME TypeOK, GuildDelete
  PROVE  /\ ~Busy(Gateway) /\ Others(Gateway) /\ hand'[Gateway].op = "leave"
         /\ hand'[Gateway].todo = Steps("leave")
<1>1. {} \in Choices("leave") /\ "leave" \in Operations(Gateway)
  BY WhoDoesWhat DEF Choices
<1> QED BY <1>1, TakesIs, WhoIsWho DEF GuildDelete, TypeOK

LEMMA PostTakes ==
  ASSUME TypeOK, NEW f \in Switchable, TakePost(f)
  PROVE  /\ ~Busy(Poster) /\ Others(Poster)
         /\ hand'[Poster].op = "post" /\ hand'[Poster].arg = {f}
         /\ hand'[Poster].todo = Steps("post")
<1> DEFINE arg == {f}
<1>1. arg \in Choices("post") /\ "post" \in Operations(Poster)
  BY WhoDoesWhat DEF Choices, Singles
<1>2. Takes(Poster, "post", arg)
  BY DEF TakePost
<1>3. /\ ~Busy(Poster) /\ Others(Poster)
      /\ hand'[Poster].op = "post" /\ hand'[Poster].arg = arg
      /\ hand'[Poster].todo = Steps("post")
  <2> HIDE DEF arg
  <2> QED BY <1>1, <1>2, TakesIs, WhoIsWho DEF TypeOK
<1> QED BY <1>3

LEMMA ActorStill ==
  ASSUME ActorInv, Kept, UNCHANGED <<instructions, inServer, leaving>>
  PROVE  ActorInv'
BY WhoIsWho DEF ActorInv, Kept

LEMMA ActorKept ==
  ASSUME TypeOK, ActorInv, [Next]_vars
  PROVE  ActorInv'
<1>1. CASE UNCHANGED vars
  BY <1>1, SameKept, ActorStill DEF vars, outside, history
<1>2. CASE \E step \in Commands : OpenCommand(step)
  BY <1>2, SameKept, ActorStill DEF OpenCommand, outside, history
<1>3. CASE Navigate
  BY <1>3, SameKept, ActorStill DEF Navigate, outside, history
<1>4. ASSUME NEW m \in Managers, Answer(m)
      PROVE  ActorInv'
  <2>1. PICK verb, what : Chooses(m, verb, what)
    BY <1>4, AnswerTakes
  <2>2. inServer /\ inServer' /\ UNCHANGED instructions
    BY <2>1 DEF Chooses, outside
  <2>3. Others(m)
    BY <1>4, AnswerTakes
  <2>4. hand'[Handler] = hand[Handler] /\ hand'[Gateway] = hand[Gateway]
    BY <2>3, WhoIsWho DEF Others
  <2> QED BY <2>2, <2>4 DEF ActorInv, Busy
<1>5. CASE DisconnectOnSite
  <2>1. instructions \in Seq(Rsos) /\ dashboard \in Rsos
    BY <1>5 DEF DisconnectOnSite, TypeOK, RestTyped
  <2>2. instructions # <<>> => instructions' # <<>> /\ Head(instructions') = Head(instructions)
    BY <1>5, <2>1, AppendProperties, HeadTailProperties, LenProperties DEF DisconnectOnSite
  <2>3. UNCHANGED <<hand, inServer, leaving>>
    BY <1>5 DEF DisconnectOnSite, history
  <2> QED BY <2>2, <2>3 DEF ActorInv, Busy
<1>6. CASE GuildCreate
  BY <1>6, SameKept, ActorStill DEF GuildCreate, outside, history
<1>7. CASE Join
  BY <1>7 DEF Join, ActorInv, Busy
<1>8. CASE GuildDelete
  <2>1. Others(Gateway) /\ UNCHANGED instructions /\ ~inServer'
        /\ leaving' = {m \in Managers : Busy(m)}
    BY <1>8, RemovalTakes DEF GuildDelete
  <2>2. hand'[Handler] = hand[Handler] /\ \A m \in Managers : hand'[m] = hand[m]
    BY <2>1, WhoIsWho DEF Others
  <2> QED BY <2>1, <2>2 DEF ActorInv, Busy
<1>9. ASSUME NEW f \in Switchable, TakePost(f)
      PROVE  ActorInv'
  <2>1. Others(Poster) /\ UNCHANGED <<instructions, inServer, leaving>>
    BY <1>9, PostTakes DEF TakePost, outside
  <2>2. /\ hand'[Handler] = hand[Handler] /\ hand'[Gateway] = hand[Gateway]
        /\ \A m \in Managers : hand'[m] = hand[m]
    BY <2>1, WhoIsWho DEF Others
  <2> QED BY <2>1, <2>2 DEF ActorInv, Busy
<1>10. CASE \E a \in Actors : CallFails(a)
  BY <1>10, FailureWorks, WorksKept, ActorStill DEF CallFails, outside, history
<1>11. CASE Crash
  BY <1>11, CrashKept, ActorStill DEF Crash, outside, history
<1>12. CASE \E a \in Actors : ManagerStep(a)
  BY <1>12, ManagerWorks, WorksKept, ActorStill DEF Around
<1>13. CASE TakeInstruction
  <2>1. /\ Others(Handler) /\ UNCHANGED <<instructions, inServer, leaving>>
        /\ hand'[Handler].arg = {Head(instructions)} /\ instructions # <<>>
    BY <1>13, InstructionTakes DEF TakeInstruction, outside
  <2>2. /\ hand'[Gateway] = hand[Gateway] /\ \A m \in Managers : hand'[m] = hand[m]
    BY <2>1, WhoIsWho DEF Others
  <2> QED BY <2>1, <2>2 DEF ActorInv, Busy
<1>14. CASE ReadInstruction
  BY <1>14, HandlerWorks, WorksKept, WhoIsWho, ActorStill DEF ReadInstruction, outside, history
<1>15. CASE Advance
  <2>1. hand'[Handler] = Idle /\ Others(Handler)
    <3>1. Place(hand[Handler].op, hand[Handler].todo) /\ At(Handler, "advance")
      BY <1>15, HandIs, WhereIs, WhoIsWho DEF Advance, TypeOK
    <3>2. Tail(hand[Handler].todo) = <<>>
      BY <3>1 DEF Place, At, Busy, Last
    <3> QED BY <1>15, <3>1, <3>2, GoesIs, AtIsBusy, WhoIsWho DEF Advance, TypeOK
  <2>2. UNCHANGED <<inServer, leaving>>
    BY <1>15 DEF Advance, history
  <2>3. hand'[Gateway] = hand[Gateway] /\ \A m \in Managers : hand'[m] = hand[m]
    BY <2>1, WhoIsWho DEF Others
  <2> QED BY <2>1, <2>2, <2>3, IdleIs DEF ActorInv, Busy
<1>16. CASE ChannelFor \/ Intend \/ SendNotice \/ RecordNotice
  BY <1>16, PosterWorks, WorksKept, WhoIsWho, ActorStill
     DEF ChannelFor, Intend, SendNotice, RecordNotice, outside, history
<1> QED BY <1>1, <1>2, <1>3, <1>4, <1>5, <1>6, <1>7, <1>8, <1>9, <1>10, <1>11, <1>12, <1>13,
           <1>14, <1>15, <1>16, StepsOfNext

-----------------------------------------------------------------------------
(* The binding: what is reported of it, and what an instruction undoes.    *)

\* Faults and crossings are for good.
LEMMA AloneWas ==
  ASSUME TypeOK, [Next]_vars, NEW part, Alone(part)'
  PROVE  /\ Alone(part) /\ ~Crash
         /\ \A a \in Actors : ~CallFails(a)
<1>1. faults \in Nat
  BY BoundsAre DEF TypeOK, RestTyped
<1>2. faults <= faults' /\ (Crash \/ (\E a \in Actors : CallFails(a)) => faults' = faults + 1)
  <2>1. CASE Crash \/ \E a \in Actors : CallFails(a)
    BY <1>1, <2>1 DEF Crash, CallFails
  <2>2. CASE \E a \in Actors : ManagerStep(a)
    <3>1. UNCHANGED faults
      BY <2>2, ManagerWorks DEF Around, budget
    <3> QED BY <1>1, <3>1 DEF Crash, CallFails
  <2>3. CASE ~Crash /\ (\A a \in Actors : ~CallFails(a)) /\ \A a \in Actors : ~ManagerStep(a)
    <3>1. UNCHANGED faults
      BY <2>3, StepsOfNext
         DEF vars, budget, OpenCommand, Navigate, Answer, Chooses, DisconnectOnSite, GuildCreate,
             Join, GuildDelete, TakePost, TakeInstruction, ReadInstruction, Advance, ChannelFor,
             Intend, SendNotice, RecordNotice
    <3> QED BY <1>1, <2>3, <3>1
  <2> QED BY <2>1, <2>2, <2>3
<1>3. crossed \subseteq crossed'
  <2>1. CASE \E a \in Actors : ManagerStep(a)
    BY <2>1, ManagerWorks DEF Around
  <2>2. CASE \A a \in Actors : ~ManagerStep(a)
    BY <2>2, StepsOfNext
       DEF vars, history, OpenCommand, Navigate, Answer, Chooses, Takes, DisconnectOnSite,
           GuildCreate, Join, GuildDelete, TakePost, TakeInstruction, ReadInstruction, Advance,
           ChannelFor, Intend, SendNotice, RecordNotice, CallFails, Crash
  <2> QED BY <2>1, <2>2
<1> QED BY <1>1, <1>2, <1>3 DEF Alone

\* Whoever has the part in hand, before or after the step, does not move.
Untouched(part) ==
  \A b \in Actors : part \in Parts(hand[b].op) \cup Parts(hand'[b].op) => hand'[b] = hand[b]

LEMMA WorksElsewhere ==
  ASSUME NEW a \in Actors, Works(a), NEW part, part \notin Parts(hand[a].op)
  PROVE  Untouched(part)
BY IdleHasNoPart DEF Works, Others, Untouched

LEMMA SameUntouched ==
  ASSUME UNCHANGED hand, NEW part
  PROVE  Untouched(part)
BY DEF Untouched

LEMMA BindsIs ==
  /\ \A op \in {"all", "followed", "bindrso", "unbound", "remove", "leave"} :
       "binding" \in Parts(op)
  /\ \A op \in {"none", "kind", "day", "hour", "pinned", "channel", "unbind", "toggle", "post"} :
       "binding" \notin Parts(op)
BY DEF Parts

\* Where nobody at the binding moves, whatever is under way of it is as it was.
LEMMA BindingSteps ==
  ASSUME TypeOK, HandsTyped', Untouched("binding")
  PROVE  /\ \A m \in Managers : /\ At(m, "report")' <=> At(m, "report")
                                /\ Reports(m)' <=> Reports(m)
                                /\ At(m, "report") => hand'[m] = hand[m]
                                /\ "binding" \in Parts(hand'[m].op) =>
                                     "binding" \in Parts(hand[m].op)
         /\ At(Handler, "advance")' <=> At(Handler, "advance")
         /\ At(Handler, "advance") => hand'[Handler] = hand[Handler]
         /\ At(Gateway, "forget")' <=> At(Gateway, "forget")
         /\ Busy(Gateway) => Busy(Gateway)'
<1>1. \A b \in Actors : "binding" \in Parts(hand[b].op) \cup Parts(hand'[b].op)
                          => hand'[b] = hand[b]
  BY DEF Untouched
<1>2. ASSUME NEW m \in Managers
      PROVE  /\ At(m, "report")' <=> At(m, "report")
             /\ Reports(m)' <=> Reports(m)
             /\ At(m, "report") => hand'[m] = hand[m]
             /\ "binding" \in Parts(hand'[m].op) => "binding" \in Parts(hand[m].op)
  <2>1. m \in Actors
    BY WhoIsWho
  <2>2. hand[m].op = "bindrso" \/ hand'[m].op = "bindrso" => hand'[m] = hand[m]
    BY <1>1, <2>1, BindsIs
  <2>3. /\ At(m, "report") => hand[m].op = "bindrso"
        /\ hand'[m].todo # <<>> /\ Head(hand'[m].todo) = "report" => hand'[m].op = "bindrso"
    BY <2>1, StepIs, NextStepIs DEF StepFits, Does, TypeOK
  <2>4. "binding" \in Parts(hand'[m].op) => "binding" \in Parts(hand[m].op)
    BY <1>1, <2>1
  <2> QED BY <2>2, <2>3, <2>4 DEF At, Busy, Reports
<1>3. /\ At(Handler, "advance")' <=> At(Handler, "advance")
      /\ At(Handler, "advance") => hand'[Handler] = hand[Handler]
  <2>1. hand[Handler].op = "unbound" \/ hand'[Handler].op = "unbound"
          => hand'[Handler] = hand[Handler]
    BY <1>1, WhoIsWho, BindsIs
  <2>2. /\ At(Handler, "advance") => hand[Handler].op = "unbound"
        /\ hand'[Handler].todo # <<>> /\ Head(hand'[Handler].todo) = "advance"
             => hand'[Handler].op = "unbound"
    BY WhoIsWho, StepIs, NextStepIs DEF StepFits, Does, TypeOK
  <2> QED BY <2>1, <2>2 DEF At, Busy
<1>4. /\ At(Gateway, "forget")' <=> At(Gateway, "forget")
      /\ Busy(Gateway) => Busy(Gateway)'
  <2>1. hand[Gateway].op = "leave" \/ hand'[Gateway].op = "leave"
          => hand'[Gateway] = hand[Gateway]
    BY <1>1, WhoIsWho, BindsIs
  <2>2. /\ At(Gateway, "forget") => hand[Gateway].op = "leave"
        /\ hand'[Gateway].todo # <<>> /\ Head(hand'[Gateway].todo) = "forget"
             => hand'[Gateway].op = "leave"
    BY WhoIsWho, StepIs, NextStepIs DEF StepFits, Does, TypeOK
  <2>3. Busy(Gateway) => hand[Gateway].op = "leave"
    BY WhoIsWho, WhoDoesWhat, BusyIs, HandIs DEF TypeOK
  <2> QED BY <2>1, <2>2, <2>3 DEF At, Busy
<1> QED BY <1>2, <1>3, <1>4

\* Nothing of the binding is at stake where nobody at it moves.
LEMMA BindingUntouched ==
  ASSUME TypeOK, HandsTyped', ShownOrOwed, ReportsBound, EndsUnbound, LeftUnbound,
         Untouched("binding"), UNCHANGED <<binding, dashboard, inServer, instructions>>
  PROVE  ShownOrOwed' /\ ReportsBound' /\ EndsUnbound' /\ LeftUnbound'
<1>1. ShownOrOwed'
  <2>1. At(Handler, "advance")' <=> At(Handler, "advance")
    BY BindingSteps
  <2>2. \A m \in Managers : Reports(m)' <=> Reports(m)
    BY BindingSteps
  <2>3. \A rso : Pending(rso) => Pending(rso)'
    BY <2>1 DEF Pending
  <2> QED BY <2>2, <2>3 DEF ShownOrOwed
<1>2. ReportsBound'
  BY BindingSteps DEF ReportsBound, BoundRso
<1>3. EndsUnbound'
  BY BindingSteps DEF EndsUnbound, Arg
<1>4. LeftUnbound'
  BY BindingSteps DEF LeftUnbound
<1> QED BY <1>1, <1>2, <1>3, <1>4

\* Where one actor has the binding in hand, nobody else is at a step of it.
LEMMA BindsAlone ==
  ASSUME TypeOK, HandsTyped', AloneInv, "binding" \notin crossed,
         NEW a \in Actors, "binding" \in Parts(hand[a].op), Works(a)
  PROVE  \A b \in Actors : b # a =>
           /\ hand'[b] = hand[b]
           /\ "binding" \notin Parts(hand[b].op) /\ "binding" \notin Parts(hand'[b].op)
           /\ ~At(b, "report") /\ ~At(b, "report")' /\ ~Reports(b) /\ ~Reports(b)'
           /\ ~At(b, "advance") /\ ~At(b, "advance")'
           /\ ~At(b, "forget") /\ ~At(b, "forget")'
<1> SUFFICES ASSUME NEW b \in Actors, b # a
             PROVE  /\ hand'[b] = hand[b]
                    /\ "binding" \notin Parts(hand[b].op) /\ "binding" \notin Parts(hand'[b].op)
                    /\ ~At(b, "report") /\ ~At(b, "report")' /\ ~Reports(b) /\ ~Reports(b)'
                    /\ ~At(b, "advance") /\ ~At(b, "advance")'
                    /\ ~At(b, "forget") /\ ~At(b, "forget")'
  OBVIOUS
<1>1. hand'[b] = hand[b] /\ "binding" \notin Parts(hand[b].op)
  BY AloneIs DEF Works, Others
<1>2. hand[b].op \notin {"bindrso", "unbound", "leave"}
  BY <1>1, BindsIs
<1>3. ~At(b, "report") /\ ~At(b, "advance") /\ ~At(b, "forget")
  BY <1>2, StepIs DEF TypeOK
<1> QED BY <1>1, <1>2, <1>3 DEF At, Busy, Reports

\* What one who has the binding alone must see to.
LEMMA BindingByOne ==
  ASSUME TypeOK, HandsTyped', AloneInv, "binding" \notin crossed,
         NEW a \in Actors, "binding" \in Parts(hand[a].op), Works(a),
         EndsUnbound, LeftUnbound, UNCHANGED inServer,
         binding'.to = "rso" => \/ dashboard' = binding'.rso \/ Pending(binding.rso)'
                                \/ a \in Managers /\ Reports(a)',
         At(a, "report")' => hand'[a].saw.rso = BoundRso',
         a = Handler /\ At(Handler, "advance")' => binding'.rso # Arg(Handler)',
         a = Gateway /\ At(Gateway, "forget")' => binding'.to = Unanswered,
         ~inServer => Busy(Gateway)' \/ dashboard' = NoRso
  PROVE  ShownOrOwed' /\ ReportsBound' /\ EndsUnbound' /\ LeftUnbound'
<1>1. ShownOrOwed'
  BY DEF ShownOrOwed
<1>2. ReportsBound'
  <2>1. \A m \in Managers : m # a => ~At(m, "report")'
    BY BindsAlone, WhoIsWho
  <2> QED BY <2>1 DEF ReportsBound
<1>3. EndsUnbound'
  <2>1. a # Handler => ~At(Handler, "advance")'
    BY BindsAlone, WhoIsWho
  <2>2. a # Gateway => ~At(Gateway, "forget")'
    BY BindsAlone, WhoIsWho
  <2> QED BY <2>1, <2>2 DEF EndsUnbound
<1>4. LeftUnbound'
  <2>1. \A m \in Managers : Parts(hand'[m].op) \subseteq Parts(hand[m].op)
    BY WorksKeepsParts, WhoIsWho
  <2> QED BY <2>1 DEF LeftUnbound
<1> QED BY <1>1, <1>2, <1>3, <1>4

\* A manager who binds is in a server the bot is in.
LEMMA BindersAreIn ==
  ASSUME LeftUnbound, NEW m \in Managers, "binding" \in Parts(hand[m].op)
  PROVE  inServer
BY DEF LeftUnbound

\* The operation goes on, with what the actor now knows.
Stays(a, saw) ==
  /\ hand'[a].op = hand[a].op /\ hand'[a].arg = hand[a].arg /\ hand'[a].saw = saw
  /\ hand'[a].todo # Steps(hand[a].op)

\* Where an actor is after a step that is over.
LEMMA MovesOn ==
  ASSUME HandsTyped, NEW a \in Actors, Busy(a), NEW saw \in Readings, Knowing(a, saw)
  PROVE  /\ \A step : Then(hand[a].todo, step) =>
              At(a, step)' /\ (\A other : other # step => ~At(a, other)') /\ Stays(a, saw)
                           /\ (step # "read" => hand'[a].todo # <<"read">>)
         /\ ToRedraw(hand[a].todo) =>
              At(a, "read")' /\ hand'[a].todo = <<"read">> /\ Stays(a, saw)
                             /\ \A other : other # "read" => ~At(a, other)'
         /\ Last(hand[a].todo) => hand'[a] = Idle /\ \A step : ~At(a, step)'
<1>1. Tail(hand[a].todo) # <<>> =>
        /\ hand'[a].op = hand[a].op /\ hand'[a].arg = hand[a].arg
        /\ hand'[a].todo = Tail(hand[a].todo) /\ hand'[a].saw = saw
        /\ hand'[a].todo # Steps(hand[a].op)
  BY KnowingIs
<1>2. Tail(hand[a].todo) = <<>> => hand'[a] = Idle
  BY KnowingIs
<1>3. ASSUME NEW step, Then(hand[a].todo, step)
      PROVE  At(a, step)' /\ (\A other : other # step => ~At(a, other)') /\ Stays(a, saw)
                          /\ (step # "read" => hand'[a].todo # <<"read">>)
  <2>1. Head(<<"read">>) = "read"
    OBVIOUS
  <2> QED BY <1>1, <1>3, <2>1, Zenon DEF Then, At, Busy, Stays
<1>4. ASSUME ToRedraw(hand[a].todo)
      PROVE  At(a, "read")' /\ hand'[a].todo = <<"read">> /\ Stays(a, saw)
                            /\ \A other : other # "read" => ~At(a, other)'
  <2>1. Head(<<"read">>) = "read" /\ <<"read">> # <<>>
    OBVIOUS
  <2> QED BY <1>1, <1>4, <2>1, Zenon DEF ToRedraw, At, Busy, Stays
<1>5. ASSUME Last(hand[a].todo)
      PROVE  hand'[a] = Idle /\ \A step : ~At(a, step)'
  BY <1>2, <1>5, IdleIs DEF Last, At, Busy
<1> QED BY <1>3, <1>4, <1>5

LEMMA GoesOn ==
  ASSUME HandsTyped, NEW a \in Actors, Busy(a), Goes(a)
  PROVE  /\ \A step : Then(hand[a].todo, step) =>
              At(a, step)' /\ (\A other : other # step => ~At(a, other)')
                           /\ Stays(a, hand[a].saw)
                           /\ (step # "read" => hand'[a].todo # <<"read">>)
         /\ ToRedraw(hand[a].todo) =>
              At(a, "read")' /\ hand'[a].todo = <<"read">> /\ Stays(a, hand[a].saw)
                             /\ \A other : other # "read" => ~At(a, other)'
         /\ Last(hand[a].todo) => hand'[a] = Idle /\ \A step : ~At(a, step)'
BY MovesOn, HandIs DEF Goes

LEMMA StopsAt ==
  ASSUME HandsTyped, NEW a \in Actors, Stops(a)
  PROVE  hand'[a] = Idle /\ \A step : ~At(a, step)'
BY StopsIs, IdleIs DEF At, Busy

LEMMA SkipsTo ==
  ASSUME HandsTyped, NEW a \in Actors, NEW step, <<step>> \in Ways(hand[a].op), Skips(a, step)
  PROVE  At(a, step)' /\ \A other : other # step => ~At(a, other)'
<1>1. hand'[a].todo = <<step>>
  BY SkipsIs
<1>2. <<step>> # <<>> /\ Head(<<step>>) = step
  OBVIOUS
<1> QED BY <1>1, <1>2, Zenon DEF At, Busy

\* Where the step an actor is at leads.
LEMMA PlaceIs ==
  ASSUME HandsTyped, NEW a \in Actors
  PROVE  Place(hand[a].op, hand[a].todo)
BY HandIs, WhereIs

\* The steps of the binding, one by one.

LEMMA BindingRead ==
  ASSUME TypeOK, TypeOK', AloneInv, "binding" \notin crossed,
         ShownOrOwed, ReportsBound, EndsUnbound, LeftUnbound,
         NEW a \in Actors, "binding" \in Parts(hand[a].op), Read(a)
  PROVE  ShownOrOwed' /\ ReportsBound' /\ EndsUnbound' /\ LeftUnbound'
<1>1. a \in Managers /\ Works(a) /\ Busy(a) /\ At(a, "read")
  BY StepIs, ManagerWorks DEF Read, ManagerStep, TypeOK
<1>2. UNCHANGED <<binding, dashboard, instructions, inServer>>
  BY DEF Read, Creates, outside
<1>3. inServer
  BY <1>1, BindersAreIn
<1>4. ~At(a, "report")'
  <2>1. PICK saw \in Readings : Knowing(a, saw)
    <3> DEFINE s == hand[a].saw
               saw == IF Parts(hand[a].op) = {"timing"} THEN [s EXCEPT !.timing = timing]
                      ELSE IF hand[a].op = "toggle" THEN [s EXCEPT !.channels = channels]
                      ELSE s
    <3>1. s \in Readings /\ timing \in Timings /\ channels \in SUBSET BoundPurposes
      BY HandIs DEF TypeOK, HeldTyped
    <3>2. saw \in Readings
      BY <3>1 DEF Readings
    <3>3. Knowing(a, saw)
      BY DEF Read
    <3> HIDE DEF saw
    <3> QED BY <3>2, <3>3
  <2>2. \/ Last(hand[a].todo)
        \/ \E step : step # "report" /\ Then(hand[a].todo, step)
    BY <1>1, PlaceIs DEF Place, At, Busy, TypeOK
  <2> QED BY <1>1, <2>1, <2>2, MovesOn DEF TypeOK
<1>5. ~Reports(a)
  BY <1>1 DEF Reports, At
<1>6. \A m \in Managers : ~Reports(m)
  BY <1>1, <1>5, BindsAlone, WhoIsWho DEF TypeOK
<1>7. At(Handler, "advance")' => At(Handler, "advance")
  BY <1>1, WhoIsWho DEF Works, Others, At, Busy
<1>8. binding.to = "rso" => dashboard = binding.rso \/ Pending(binding.rso)'
  BY <1>2, <1>6, <1>7 DEF ShownOrOwed, Pending
<1> QED BY <1>1, <1>2, <1>3, <1>4, <1>8, WhoIsWho, BindingByOne DEF TypeOK

LEMMA BindingBound ==
  ASSUME TypeOK, TypeOK', AloneInv, "binding" \notin crossed,
         ShownOrOwed, ReportsBound, EndsUnbound, LeftUnbound,
         NEW a \in Actors, "binding" \in Parts(hand[a].op), Bind(a)
  PROVE  ShownOrOwed' /\ ReportsBound' /\ EndsUnbound' /\ LeftUnbound'
<1>1. Works(a) /\ Busy(a) /\ Goes(a) /\ UNCHANGED <<installed, dashboard, instructions, inServer>>
  BY ManagerWorks DEF Bind, ManagerStep, outside
<1>2. a \in Managers => inServer
  BY BindersAreIn
<1>3. ~installed => binding.to = Unanswered /\ binding.rso \notin Rsos
  BY DEF TypeOK, HeldTyped, Unanswered
<1>4. CASE a \in Managers /\ At(a, "bindRso")
  <2>1. At(a, "readBinding")' /\ (\A other : other # "readBinding" => ~At(a, other)')
        /\ hand'[a].op = "bindrso"
    BY <1>1, <1>4, PlaceIs, StepIs, GoesOn DEF Place, At, Busy, Stays, TypeOK
  <2>2. Reports(a)' /\ ~At(a, "report")'
    BY <2>1 DEF Reports
  <2> QED BY <1>1, <1>2, <1>4, <2>2, WhoIsWho, BindingByOne DEF TypeOK
<1>5. CASE a \in Managers /\ (At(a, "bindAll") \/ At(a, "bindSet"))
  <2>1. At(a, "unfollow")' /\ (\A other : other # "unfollow" => ~At(a, other)')
    BY <1>1, <1>5, PlaceIs, GoesOn DEF Place, At, Busy, TypeOK
  <2>2. binding'.to # "rso"
    <3>1. ~At(a, "bindRso") /\ ~At(a, "disconnect")
      BY <1>5, StepIs DEF TypeOK
    <3> QED BY <1>3, <3>1 DEF Bind, SetBinding, BoundTo, Unanswered
  <2> QED BY <1>1, <1>2, <1>5, <2>1, <2>2, WhoIsWho, BindingByOne DEF TypeOK
<1>6. CASE a = Handler /\ At(a, "disconnect")
  <2>1. At(a, "advance")' /\ (\A other : other # "advance" => ~At(a, other)')
        /\ hand'[a].arg = hand[a].arg
    BY <1>1, <1>6, PlaceIs, GoesOn DEF Place, At, Busy, Stays, TypeOK
  <2>2. SetBinding(Unanswered, NoRso)
    <3>1. ~At(a, "bindRso") /\ ~At(a, "bindAll") /\ ~At(a, "bindSet")
      BY <1>6, StepIs, WhoIsWho DEF TypeOK
    <3> QED BY <3>1 DEF Bind
  <2>3. binding'.to = Unanswered
    BY <1>3, <2>2 DEF SetBinding, BoundTo
  <2>4. Arg(Handler) \in Rsos /\ Arg(Handler)' = Arg(Handler)
    BY <1>6, <2>1, StepIs, ArgIs, WhoIsWho DEF Arg, TypeOK
  <2>5. binding'.rso # Arg(Handler)'
    BY <1>3, <2>2, <2>4, NoRsoIsNone DEF SetBinding, BoundTo
  <2>6. binding'.to # "rso"
    BY <2>3 DEF Unanswered
  <2>7. a # Gateway /\ ~At(a, "report")'
    BY <1>6, <2>1, WhoIsWho
  <2>8. ~inServer => Busy(Gateway)' \/ dashboard' = NoRso
    BY <1>1, <2>7, WhoIsWho DEF LeftUnbound, Works, Others, Busy
  <2> QED BY <1>1, <2>5, <2>6, <2>7, <2>8, BindingByOne DEF TypeOK
<1> QED BY <1>4, <1>5, <1>6, StepIs DEF Bind, TypeOK

\* A step of a manager's that neither binds nor reports.
LEMMA BindingAside ==
  ASSUME TypeOK, TypeOK', AloneInv, "binding" \notin crossed,
         ShownOrOwed, ReportsBound, EndsUnbound, LeftUnbound,
         NEW a \in Actors, "binding" \in Parts(hand[a].op), Works(a),
         UNCHANGED <<binding, dashboard, instructions, inServer>>,
         a \in Managers, ~Reports(a), ~At(a, "report")'
  PROVE  ShownOrOwed' /\ ReportsBound' /\ EndsUnbound' /\ LeftUnbound'
<1>1. inServer
  BY BindersAreIn
<1>2. \A m \in Managers : ~Reports(m)
  BY BindsAlone, WhoIsWho DEF TypeOK
<1>3. At(Handler, "advance")' => At(Handler, "advance")
  BY WhoIsWho DEF Works, Others, At, Busy
<1>4. binding.to = "rso" => dashboard = binding.rso \/ Pending(binding.rso)'
  BY <1>2, <1>3 DEF ShownOrOwed, Pending
<1> QED BY <1>1, <1>4, WhoIsWho, BindingByOne DEF TypeOK

LEMMA BindingFollowed ==
  ASSUME TypeOK, TypeOK', AloneInv, "binding" \notin crossed,
         ShownOrOwed, ReportsBound, EndsUnbound, LeftUnbound,
         NEW a \in Actors, "binding" \in Parts(hand[a].op),
         Unfollow(a) \/ Follow(a) \/ Confirm(a)
  PROVE  ShownOrOwed' /\ ReportsBound' /\ EndsUnbound' /\ LeftUnbound'
<1>1. /\ Works(a) /\ Busy(a) /\ (Goes(a) \/ Stops(a))
      /\ UNCHANGED <<binding, dashboard, instructions, inServer>>
  BY ManagerWorks DEF Unfollow, Follow, Confirm, ManagerStep, outside, row
<1>2. At(a, "unfollow") \/ At(a, "follow") \/ At(a, "confirm")
  BY DEF Unfollow, Follow, Confirm
<1>3. a \in Managers /\ ~Reports(a)
  BY <1>2, StepIs DEF Reports, At, TypeOK
<1>4. \/ ToRedraw(hand[a].todo)
      \/ \E step : step # "report" /\ Then(hand[a].todo, step)
  BY <1>2, PlaceIs DEF Place, At, Busy, TypeOK
<1>5. ~At(a, "report")'
  BY <1>1, <1>4, GoesOn, StopsAt DEF TypeOK
<1> QED BY <1>1, <1>3, <1>5, BindingAside

LEMMA BindingReread ==
  ASSUME TypeOK, TypeOK', AloneInv, "binding" \notin crossed,
         ShownOrOwed, ReportsBound, EndsUnbound, LeftUnbound,
         NEW a \in Actors, "binding" \in Parts(hand[a].op), ReadBinding(a)
  PROVE  ShownOrOwed' /\ ReportsBound' /\ EndsUnbound' /\ LeftUnbound'
<1> DEFINE rso == IF installed /\ binding.to = "rso" THEN binding.rso ELSE NoRso
           saw == [hand[a].saw EXCEPT !.rso = rso]
<1>1. /\ Works(a) /\ Busy(a) /\ At(a, "readBinding")
      /\ UNCHANGED <<binding, dashboard, instructions, inServer>>
  BY ManagerWorks DEF ReadBinding, ManagerStep, outside, row
<1>2. a \in Managers /\ inServer /\ hand[a].op = "bindrso"
  BY <1>1, StepIs, BindersAreIn DEF TypeOK
<1>3. hand[a].saw \in Readings /\ rso \in Rsos \cup {NoRso}
  BY HandIs DEF TypeOK, HeldTyped
<1>4. saw \in Readings /\ saw.rso = rso
  <2> HIDE DEF rso
  <2> QED BY <1>3 DEF Readings
<1>5. Knowing(a, saw)
  BY DEF ReadBinding
<1>6. At(a, "report")' /\ hand'[a].op = "bindrso" /\ hand'[a].saw = saw
  <2>1. Then(hand[a].todo, "report")
    BY <1>1, PlaceIs DEF Place, At, Busy, TypeOK
  <2> HIDE DEF saw
  <2> QED BY <1>1, <1>2, <1>4, <1>5, <2>1, MovesOn DEF Stays, TypeOK
<1>7. rso = BoundRso'
  BY <1>1 DEF BoundRso, TypeOK, HeldTyped, Unanswered
<1>8. Reports(a)' /\ hand'[a].saw.rso = BoundRso'
  BY <1>4, <1>6, <1>7 DEF Reports
<1> QED BY <1>1, <1>2, <1>8, WhoIsWho, BindingByOne DEF TypeOK

LEMMA BindingReported ==
  ASSUME TypeOK, TypeOK', AloneInv, "binding" \notin crossed,
         ShownOrOwed, ReportsBound, EndsUnbound, LeftUnbound,
         NEW a \in Actors, "binding" \in Parts(hand[a].op), Report(a)
  PROVE  ShownOrOwed' /\ ReportsBound' /\ EndsUnbound' /\ LeftUnbound'
<1>1. /\ Works(a) /\ Busy(a) /\ Goes(a) /\ UNCHANGED <<binding, instructions, inServer>>
  BY ManagerWorks DEF Report, ManagerStep, outside, row
<1>2. CASE At(a, "report")
  <2>1. a \in Managers /\ inServer
    BY <1>2, StepIs, BindersAreIn DEF TypeOK
  <2>2. dashboard' = BoundRso
    BY <1>2, <2>1 DEF Report, ReportsBound
  <2>3. ~At(a, "report")'
    <3>1. ToRedraw(hand[a].todo)
      BY <1>2, PlaceIs DEF Place, At, Busy, TypeOK
    <3> QED BY <1>1, <3>1, GoesOn DEF TypeOK
  <2> QED BY <1>1, <2>1, <2>2, <2>3, WhoIsWho, BindingByOne DEF BoundRso, TypeOK
<1>3. CASE At(a, "forget")
  <2>1. a = Gateway /\ binding.to = Unanswered
    BY <1>3, StepIs DEF EndsUnbound, TypeOK
  <2>2. dashboard' = NoRso
    BY <1>3, StepIs DEF Report, TypeOK
  <2>3. \A step : ~At(a, step)'
    <3>1. Last(hand[a].todo)
      BY <1>3, PlaceIs DEF Place, At, Busy, TypeOK
    <3> QED BY <1>1, <3>1, GoesOn DEF TypeOK
  <2>4. binding.to # "rso"
    BY <2>1 DEF Unanswered
  <2> QED BY <1>1, <2>1, <2>2, <2>3, <2>4, WhoIsWho, BindingByOne DEF TypeOK
<1> QED BY <1>2, <1>3 DEF Report

LEMMA BindingRemoved ==
  ASSUME TypeOK, TypeOK', AloneInv, "binding" \notin crossed,
         ShownOrOwed, ReportsBound, EndsUnbound, LeftUnbound,
         NEW a \in Actors, "binding" \in Parts(hand[a].op), RemoveGuild(a)
  PROVE  ShownOrOwed' /\ ReportsBound' /\ EndsUnbound' /\ LeftUnbound'
<1>1. /\ Works(a) /\ Busy(a) /\ Goes(a) /\ UNCHANGED <<dashboard, instructions, inServer>>
      /\ At(a, "removeGuild") /\ binding'.to = Unanswered
  BY ManagerWorks DEF RemoveGuild, ManagerStep, outside, BoundTo
<1>2. binding'.to # "rso"
  BY <1>1 DEF Unanswered
<1>3. CASE a \in Managers
  <2>1. inServer
    BY <1>3, BindersAreIn
  <2>2. Last(hand[a].todo)
    <3>1. hand[a].op = "remove"
      BY <1>1, <1>3, StepIs, WhoIsWho DEF TypeOK
    <3> QED BY <1>1, <3>1, PlaceIs DEF Place, At, Busy, TypeOK
  <2>3. \A step : ~At(a, step)'
    BY <1>1, <2>2, GoesOn DEF TypeOK
  <2> QED BY <1>1, <1>2, <1>3, <2>1, <2>3, WhoIsWho, BindingByOne DEF TypeOK
<1>4. CASE a = Gateway
  <2>1. Then(hand[a].todo, "forget")
    BY <1>1, <1>4, StepIs, WhoIsWho, PlaceIs DEF Place, At, Busy, TypeOK
  <2>2. At(a, "forget")' /\ \A other : other # "forget" => ~At(a, other)'
    BY <1>1, <2>1, GoesOn DEF TypeOK
  <2>3. Busy(Gateway)' /\ ~At(a, "report")'
    BY <1>4, <2>2 DEF At, Busy
  <2> QED BY <1>1, <1>2, <1>4, <2>3, WhoIsWho, BindingByOne DEF TypeOK
<1> QED BY <1>1, <1>3, <1>4, StepIs DEF TypeOK

\* The handler reads whose the binding is, and passes on to the next instruction.
LEMMA BindingInstructed ==
  ASSUME TypeOK, TypeOK', AloneInv, ActorInv, "binding" \notin crossed,
         ShownOrOwed, ReportsBound, EndsUnbound, LeftUnbound, ReadInstruction
  PROVE  ShownOrOwed' /\ ReportsBound' /\ EndsUnbound' /\ LeftUnbound'
<1>1. /\ Works(Handler) /\ Busy(Handler) /\ At(Handler, "readInstruction")
      /\ UNCHANGED <<installed, binding, dashboard, instructions, inServer>>
  BY HandlerWorks DEF ReadInstruction, outside, row
<1>2. hand[Handler].op = "unbound" /\ "binding" \in Parts(hand[Handler].op)
  BY <1>1, StepIs, BindsIs, WhoIsWho DEF TypeOK
<1>3. /\ instructions # <<>> /\ instructions \in Seq(Rsos)
      /\ hand[Handler].arg = {Head(instructions)}
  BY <1>1 DEF ActorInv, TypeOK, RestTyped
<1>4. 1 \in DOMAIN instructions /\ Arg(Handler) = instructions[1] /\ Arg(Handler) \in Rsos
  <2>1. Len(instructions) \in Nat /\ Len(instructions) # 0 /\ DOMAIN instructions = 1..Len(instructions)
        /\ Head(instructions) = instructions[1] /\ Head(instructions) \in Rsos
    BY <1>3, EmptySeq, LenProperties, HeadTailProperties
  <2>2. Arg(Handler) = Head(instructions)
    BY <1>3, SingleChoice DEF Arg
  <2> QED BY <2>1, <2>2
<1>5. ~At(Handler, "report")' /\ hand'[Handler].arg = hand[Handler].arg
      /\ (At(Handler, "advance")' => ~IsTheirs(Arg(Handler)))
  <2>1. CASE IsTheirs(Arg(Handler))
    <3>1. Then(hand[Handler].todo, "disconnect")
      BY <1>1, WhoIsWho, PlaceIs DEF Place, At, Busy, TypeOK
    <3>2. Goes(Handler)
      BY <2>1 DEF ReadInstruction
    <3> QED BY <1>1, <3>1, <3>2, WhoIsWho, GoesOn DEF Stays, TypeOK
  <2>2. CASE ~IsTheirs(Arg(Handler))
    <3>1. Skips(Handler, "advance") /\ <<"advance">> \in Ways(hand[Handler].op)
      BY <1>2, <2>2, WaysOf DEF ReadInstruction
    <3>2. ~At(Handler, "report")'
      BY <3>1, WhoIsWho, SkipsTo DEF TypeOK
    <3>3. hand'[Handler].arg = hand[Handler].arg
      BY <3>1, WhoIsWho, SkipsIs DEF TypeOK
    <3> QED BY <2>2, <3>2, <3>3
  <2> QED BY <2>1, <2>2
<1>6. \A m \in Managers : ~Reports(m)
  BY <1>1, <1>2, WhoIsWho, BindsAlone DEF TypeOK
<1>7. binding.rso \in Rsos => installed
  BY DEF TypeOK, HeldTyped, Unanswered
<1>8. At(Handler, "advance")' => binding'.rso # Arg(Handler)' /\ binding.rso # Arg(Handler)
  <2>1. Arg(Handler)' = Arg(Handler)
    BY <1>5 DEF Arg
  <2> QED BY <1>1, <1>4, <1>5, <1>7, <2>1 DEF IsTheirs
<1>9. binding'.to = "rso" => dashboard' = binding'.rso \/ Pending(binding.rso)'
  <2>1. ASSUME binding.to = "rso", dashboard # binding.rso
        PROVE  Pending(binding.rso)'
    <3>1. PICK n \in DOMAIN instructions : instructions[n] = binding.rso
      BY <1>6, <2>1 DEF ShownOrOwed, Pending
    <3>2. CASE n > 1
      BY <1>1, <3>1, <3>2 DEF Pending
    <3>3. CASE ~(n > 1)
      <4>1. n = 1
        BY <1>3, <3>1, <3>3, LenProperties
      <4>2. ~At(Handler, "advance")'
        BY <1>4, <1>8, <3>1, <4>1
      <4> QED BY <1>1, <3>1, <4>1, <4>2 DEF Pending
    <3> QED BY <3>2, <3>3
  <2> QED BY <1>1, <2>1
<1>10. ~inServer => Busy(Gateway)' \/ dashboard' = NoRso
  BY <1>1, WhoIsWho DEF LeftUnbound, Works, Others, Busy
<1> QED BY <1>1, <1>2, <1>5, <1>8, <1>9, <1>10, WhoIsWho, BindingByOne DEF TypeOK

LEMMA BindingPassed ==
  ASSUME TypeOK, TypeOK', AloneInv, ActorInv, "binding" \notin crossed,
         ShownOrOwed, ReportsBound, EndsUnbound, LeftUnbound, Advance
  PROVE  ShownOrOwed' /\ ReportsBound' /\ EndsUnbound' /\ LeftUnbound'
<1>1. /\ Works(Handler) /\ Busy(Handler) /\ At(Handler, "advance") /\ Goes(Handler)
      /\ UNCHANGED <<binding, dashboard, inServer>> /\ instructions' = Tail(instructions)
  BY HandlerWorks DEF Advance, row
<1>2. hand[Handler].op = "unbound" /\ "binding" \in Parts(hand[Handler].op)
  BY <1>1, StepIs, BindsIs, WhoIsWho DEF TypeOK
<1>3. /\ instructions # <<>> /\ instructions \in Seq(Rsos)
      /\ hand[Handler].arg = {Head(instructions)}
  BY <1>1 DEF ActorInv, TypeOK, RestTyped
<1>4. \A step : ~At(Handler, step)'
  <2>1. Last(hand[Handler].todo)
    BY <1>1, WhoIsWho, PlaceIs DEF Place, At, Busy, TypeOK
  <2> QED BY <1>1, <2>1, WhoIsWho, GoesOn DEF TypeOK
<1>5. \A m \in Managers : ~Reports(m)
  BY <1>1, <1>2, WhoIsWho, BindsAlone DEF TypeOK
<1>6. binding'.to = "rso" => dashboard' = binding'.rso \/ Pending(binding.rso)'
  <2>1. ASSUME binding.to = "rso", dashboard # binding.rso
        PROVE  Pending(binding.rso)'
    <3>1. PICK n \in DOMAIN instructions : instructions[n] = binding.rso /\ n > 1
      BY <1>1, <1>5, <2>1 DEF ShownOrOwed, Pending
    <3>2. n - 1 \in DOMAIN Tail(instructions) /\ Tail(instructions)[n - 1] = instructions[n]
      BY <1>3, <3>1
    <3> QED BY <1>1, <1>4, <3>1, <3>2 DEF Pending
  <2> QED BY <1>1, <2>1
<1>7. ~inServer => Busy(Gateway)' \/ dashboard' = NoRso
  BY <1>1, WhoIsWho DEF LeftUnbound, Works, Others, Busy
<1> QED BY <1>1, <1>2, <1>4, <1>6, <1>7, WhoIsWho, BindingByOne DEF TypeOK

\* Nobody at the binding moves, and what is held of it stays.
LEMMA BindingFramed ==
  ASSUME TypeOK, TypeOK', ShownOrOwed, ReportsBound, EndsUnbound, LeftUnbound,
         Untouched("binding"), UNCHANGED <<binding, dashboard, inServer, instructions>>
  PROVE  ShownOrOwed' /\ ReportsBound' /\ EndsUnbound' /\ LeftUnbound'
BY BindingUntouched DEF TypeOK

\* A manager's step of another part leaves the binding as it is.
LEMMA BindingElsewhere ==
  ASSUME TypeOK, NEW a \in Actors, "binding" \notin Parts(hand[a].op), ManagerStep(a)
  PROVE  Untouched("binding") /\ UNCHANGED <<binding, dashboard, inServer, instructions>>
<1>1. hand[a].op \notin {"all", "followed", "bindrso", "unbound", "remove", "leave"}
  BY BindsIs
<1>2. /\ ~At(a, "bindAll") /\ ~At(a, "bindSet") /\ ~At(a, "bindRso") /\ ~At(a, "disconnect")
      /\ ~At(a, "unfollow") /\ ~At(a, "follow") /\ ~At(a, "confirm") /\ ~At(a, "readBinding")
      /\ ~At(a, "report") /\ ~At(a, "forget") /\ ~At(a, "removeGuild")
  BY <1>1, StepIs DEF TypeOK
<1>3. \/ Read(a) \/ SetKind(a) \/ SetTiming(a) \/ SetChannel(a) \/ ReadFeature(a) \/ SetFeature(a)
  BY <1>2 DEF ManagerStep, Bind, Unfollow, Follow, Confirm, ReadBinding, Report, RemoveGuild
<1>4. UNCHANGED <<binding, dashboard, inServer, instructions>>
  BY <1>3 DEF Read, Creates, SetKind, SetTiming, SetChannel, ReadFeature, SetFeature, outside, row
<1> QED BY <1>4, ManagerWorks, WorksElsewhere

\* An operation taken up by one who had none, where nobody is to have the binding twice.
LEMMA BindingTaken ==
  ASSUME TypeOK, TypeOK', ShownOrOwed, ReportsBound, EndsUnbound, LeftUnbound,
         NEW a \in Actors, ~Busy(a), Others(a), hand'[a].op # "none",
         hand'[a].todo = Steps(hand'[a].op),
         UNCHANGED <<binding, dashboard, instructions>>,
         ~inServer' => /\ Busy(Gateway)' \/ dashboard' = NoRso
                       /\ \A m \in Managers : "binding" \notin Parts(hand'[m].op)
  PROVE  ShownOrOwed' /\ ReportsBound' /\ EndsUnbound' /\ LeftUnbound'
<1>1. /\ ~At(a, "report") /\ ~At(a, "advance") /\ ~At(a, "forget") /\ ~Reports(a)
  BY DEF At, Reports
<1>2. /\ ~At(a, "report")' /\ ~At(a, "advance")' /\ ~At(a, "forget")'
  <2>1. /\ hand'[a].todo # <<>> => Head(hand'[a].todo) \notin {"report", "advance", "forget"}
    <3>1. hand'[a].op \in Ops
      BY HandIs, WhoDoesWhat DEF TypeOK, HandsTyped, Hands
    <3>2. \A op \in Ops : Steps(op) # <<>> => Head(Steps(op)) \notin {"report", "advance", "forget"}
      BY DEF Ops, Steps, BindToRso, OnGuildDelete
    <3> QED BY <3>1, <3>2
  <2> QED BY <2>1 DEF At, Busy
<1>3. \A b \in Actors : b # a => hand'[b] = hand[b]
  BY DEF Others
<1>4. /\ At(Handler, "advance")' <=> At(Handler, "advance")
      /\ \A m \in Managers : Reports(m) => Reports(m)'
      /\ \A m \in Managers : At(m, "report")' => At(m, "report") /\ hand'[m] = hand[m]
      /\ At(Handler, "advance") => hand'[Handler] = hand[Handler]
      /\ At(Gateway, "forget")' => At(Gateway, "forget")
  BY <1>1, <1>2, <1>3, WhoIsWho DEF At, Busy, Reports
<1>5. ShownOrOwed'
  <2>1. \A rso : Pending(rso) => Pending(rso)'
    BY <1>4 DEF Pending
  <2> QED BY <1>4, <2>1 DEF ShownOrOwed
<1>6. ReportsBound'
  BY <1>4 DEF ReportsBound, BoundRso
<1>7. EndsUnbound'
  BY <1>4 DEF EndsUnbound, Arg
<1>8. LeftUnbound'
  BY DEF LeftUnbound
<1> QED BY <1>5, <1>6, <1>7, <1>8

\* A board disconnects the server: what is no longer shown is to be undone.
LEMMA BindingDisconnected ==
  ASSUME TypeOK, ActorInv, ShownOrOwed, ReportsBound, EndsUnbound, LeftUnbound, DisconnectOnSite
  PROVE  ShownOrOwed' /\ ReportsBound' /\ EndsUnbound' /\ LeftUnbound'
<1>1. /\ UNCHANGED <<binding, hand, inServer>> /\ dashboard \in Rsos /\ dashboard' = NoRso
      /\ instructions' = Append(instructions, dashboard) /\ instructions \in Seq(Rsos)
  BY DEF DisconnectOnSite, row, TypeOK, RestTyped
<1>2. /\ \A n \in DOMAIN instructions :
           n \in DOMAIN instructions' /\ instructions'[n] = instructions[n]
      /\ Len(instructions') \in DOMAIN instructions' /\ instructions'[Len(instructions')] = dashboard
      /\ Len(instructions') = Len(instructions) + 1 /\ Len(instructions) \in Nat
  BY <1>1, AppendProperties, LenProperties
<1>3. At(Handler, "advance") => Len(instructions') > 1
  <2>1. At(Handler, "advance") => instructions # <<>>
    BY AtIsBusy DEF ActorInv
  <2> QED BY <1>1, <1>2, <2>1, EmptySeq
<1>4. /\ At(Handler, "advance")' <=> At(Handler, "advance")
      /\ \A m \in Managers : Reports(m)' <=> Reports(m)
      /\ \A m \in Managers : At(m, "report")' <=> At(m, "report")
      /\ At(Gateway, "forget")' <=> At(Gateway, "forget")
  BY <1>1 DEF At, Busy, Reports
<1>5. ShownOrOwed'
  <2>1. \A rso : Pending(rso) => Pending(rso)'
    BY <1>2, <1>4 DEF Pending
  <2>2. \A rso : rso = dashboard => Pending(rso)'
    BY <1>2, <1>3, <1>4 DEF Pending
  <2> QED BY <1>1, <1>4, <2>1, <2>2 DEF ShownOrOwed
<1>6. ReportsBound' /\ EndsUnbound'
  BY <1>1, <1>4 DEF ReportsBound, BoundRso, EndsUnbound, Arg
<1>7. LeftUnbound'
  BY <1>1 DEF LeftUnbound
<1> QED BY <1>5, <1>6, <1>7

\* The bot is removed while nobody is at the binding, or that is a crossing.
LEMMA BindingLeft ==
  ASSUME TypeOK, TypeOK', ShownOrOwed, ReportsBound, EndsUnbound, LeftUnbound,
         "binding" \notin crossed', GuildDelete
  PROVE  ShownOrOwed' /\ ReportsBound' /\ EndsUnbound' /\ LeftUnbound'
<1>1. /\ ~Busy(Gateway) /\ Others(Gateway) /\ hand'[Gateway].op = "leave"
      /\ hand'[Gateway].todo = Steps("leave")
      /\ UNCHANGED <<binding, dashboard, instructions>>
  BY RemovalTakes DEF GuildDelete, row
<1>2. \A m \in Managers : "binding" \notin Parts(hand[m].op)
  <2>1. ASSUME NEW m \in Managers, "binding" \in Parts(hand[m].op)
        PROVE  FALSE
    <3>1. Busy(m)
      BY <2>1, BusyIs, BindsIs, WhoIsWho DEF TypeOK
    <3>2. m \in Actors \ {Gateway} /\ "binding" \in Parts("leave")
      BY BindsIs, WhoIsWho
    <3>3. crossed' = crossed \cup
            {part \in Parts("leave") :
               \E b \in Actors \ {Gateway} : Busy(b) /\ part \in Parts(hand[b].op)}
      BY DEF GuildDelete, Takes
    <3> QED BY <2>1, <3>1, <3>2, <3>3
  <2> QED BY <2>1
<1>3. \A m \in Managers : hand'[m] = hand[m]
  BY <1>1, WhoIsWho DEF Others
<1>4. Busy(Gateway)'
  BY <1>1 DEF Busy, Steps, OnGuildDelete
<1> QED BY <1>1, <1>2, <1>3, <1>4, WhoIsWho, BindingTaken

LEMMA BindingKept ==
  ASSUME TypeOK, ActorInv, AloneInv, BindingInv, [Next]_vars
  PROVE  BindingInv'
<1> SUFFICES ASSUME Alone("binding")'
             PROVE  ShownOrOwed' /\ ReportsBound' /\ EndsUnbound' /\ LeftUnbound'
  BY DEF BindingInv
<1>1. /\ TypeOK' /\ Alone("binding") /\ ~Crash /\ \A a \in Actors : ~CallFails(a)
      /\ "binding" \notin crossed /\ "binding" \notin crossed'
      /\ ShownOrOwed /\ ReportsBound /\ EndsUnbound /\ LeftUnbound
  BY WhoMoves, AloneWas DEF BindingInv, Alone
<1>2. CASE UNCHANGED <<hand, binding, dashboard, inServer, instructions>>
  BY <1>1, <1>2, SameUntouched, BindingFramed
<1>3. ASSUME NEW m \in Managers, Answer(m)
      PROVE  ShownOrOwed' /\ ReportsBound' /\ EndsUnbound' /\ LeftUnbound'
  <2>1. PICK verb, what :
          /\ verb \in Operations(m) \ {"none"}
          /\ Chooses(m, verb, what) /\ ~Busy(m) /\ Others(m)
          /\ hand'[m].op = verb /\ hand'[m].todo = Steps(verb)
    BY <1>3, AnswerTakes
  <2>2. inServer' /\ UNCHANGED <<binding, dashboard, instructions>>
    BY <2>1 DEF Chooses, outside, row
  <2> QED BY <1>1, <2>1, <2>2, WhoIsWho, BindingTaken
<1>4. CASE Join
  <2>1. UNCHANGED <<hand, binding, dashboard, instructions>> /\ inServer'
    BY <1>4 DEF Join, Creates
  <2>2. LeftUnbound'
    BY <2>1 DEF LeftUnbound
  <2>3. /\ \A a, step : At(a, step)' <=> At(a, step)
        /\ \A m \in Managers : Reports(m)' <=> Reports(m)
    BY <2>1 DEF At, Busy, Reports
  <2>4. ShownOrOwed'
    BY <1>1, <2>1, <2>3 DEF ShownOrOwed, Pending
  <2> QED BY <1>1, <2>1, <2>2, <2>3, <2>4 DEF ReportsBound, BoundRso, EndsUnbound, Arg
<1>5. ASSUME NEW f \in Switchable, TakePost(f)
      PROVE  ShownOrOwed' /\ ReportsBound' /\ EndsUnbound' /\ LeftUnbound'
  <2>1. /\ ~Busy(Poster) /\ Others(Poster) /\ hand'[Poster].op = "post"
        /\ hand'[Poster].todo = Steps("post")
        /\ UNCHANGED <<binding, dashboard, inServer, instructions>>
    BY <1>5, PostTakes DEF TakePost, outside, row
  <2>2. hand'[Gateway] = hand[Gateway] /\ \A m \in Managers : hand'[m] = hand[m]
    BY <2>1, WhoIsWho DEF Others
  <2>3. ~inServer' => /\ Busy(Gateway)' \/ dashboard' = NoRso
                      /\ \A m \in Managers : "binding" \notin Parts(hand'[m].op)
    BY <1>1, <2>1, <2>2 DEF LeftUnbound, Busy
  <2> QED BY <1>1, <2>1, <2>3, WhoIsWho, BindingTaken
<1>6. CASE TakeInstruction
  <2>1. /\ ~Busy(Handler) /\ Others(Handler) /\ hand'[Handler].op = "unbound"
        /\ hand'[Handler].todo = Steps("unbound")
        /\ UNCHANGED <<binding, dashboard, inServer, instructions>>
    BY <1>6, InstructionTakes DEF TakeInstruction, outside, row
  <2>2. hand'[Gateway] = hand[Gateway] /\ \A m \in Managers : hand'[m] = hand[m]
    BY <2>1, WhoIsWho DEF Others
  <2>3. ~inServer' => /\ Busy(Gateway)' \/ dashboard' = NoRso
                      /\ \A m \in Managers : "binding" \notin Parts(hand'[m].op)
    BY <1>1, <2>1, <2>2 DEF LeftUnbound, Busy
  <2> QED BY <1>1, <2>1, <2>3, WhoIsWho, BindingTaken
<1>7. ASSUME NEW a \in Actors, ManagerStep(a)
      PROVE  ShownOrOwed' /\ ReportsBound' /\ EndsUnbound' /\ LeftUnbound'
  <2>1. CASE "binding" \notin Parts(hand[a].op)
    BY <1>1, <1>7, <2>1, BindingElsewhere, BindingFramed
  <2>2. CASE "binding" \in Parts(hand[a].op)
    <3>1. /\ ~At(a, "setKind") /\ ~At(a, "setSchedule") /\ ~At(a, "setPinned")
          /\ ~At(a, "bindChannel") /\ ~At(a, "unbindChannel") /\ ~At(a, "readFeature")
          /\ ~At(a, "setFeature") /\ ~At(a, "switchOff")
      BY <2>2, StepIs, BindsIs DEF TypeOK
    <3>2. \/ Read(a) \/ Bind(a) \/ Unfollow(a) \/ Follow(a) \/ Confirm(a) \/ ReadBinding(a)
          \/ Report(a) \/ RemoveGuild(a)
      BY <1>7, <3>1 DEF ManagerStep, SetKind, SetTiming, SetChannel, ReadFeature, SetFeature
    <3> QED BY <1>1, <2>2, <3>2, BindingRead, BindingBound, BindingFollowed, BindingReread,
               BindingReported, BindingRemoved
  <2> QED BY <2>1, <2>2
<1>8. CASE ChannelFor \/ Intend \/ SendNotice \/ RecordNotice
  <2>1. Works(Poster) /\ UNCHANGED <<binding, dashboard, inServer, instructions>>
    BY <1>8, PosterWorks DEF ChannelFor, Intend, SendNotice, RecordNotice, outside, row
  <2>2. "binding" \notin Parts(hand[Poster].op)
    BY HandIs, WhoIsWho, WhoDoesWhat, BindsIs DEF TypeOK
  <2> QED BY <1>1, <2>1, <2>2, WhoIsWho, WorksElsewhere, BindingFramed
<1>9. UNCHANGED vars \/ (\E step \in Commands : OpenCommand(step)) \/ Navigate \/ GuildCreate
        => UNCHANGED <<hand, binding, dashboard, inServer, instructions>>
  BY DEF vars, OpenCommand, Navigate, GuildCreate, Creates, outside, row
<1> QED BY <1>1, <1>2, <1>3, <1>4, <1>5, <1>6, <1>7, <1>8, <1>9, StepsOfNext,
           BindingDisconnected, BindingLeft, BindingInstructed, BindingPassed

\* A crossing is for good.
LEMMA CrossedStays ==
  ASSUME TypeOK, ActorInv, [Next]_vars
  PROVE  crossed \subseteq crossed'
BY WhoMoves DEF Takes

\* What is held of the server changes by the steps of an interaction, but that
\* whatever draws a panel or finds the server creates its row.
LEMMA WorldKeeps ==
  ASSUME [Next]_vars, \A a \in Actors : ~ManagerStep(a)
  PROVE  /\ UNCHANGED <<kind, binding, timing, followed, channels, changes>>
         /\ installed => installed'
         /\ (\A m \in Managers : ~Answer(m)) => UNCHANGED <<answered, chosen>>
<1>1. (\E step \in Commands : OpenCommand(step)) \/ Navigate \/ GuildCreate \/ Join
        => UNCHANGED row \/ Creates
  BY DEF OpenCommand, Navigate, GuildCreate, Join
<1>2. UNCHANGED vars \/ (\E m \in Managers : Answer(m)) => UNCHANGED row
  BY DEF vars, Answer, Chooses
<1>3. DisconnectOnSite \/ GuildDelete \/ (\E f \in Switchable : TakePost(f)) => UNCHANGED row
  BY DEF DisconnectOnSite, GuildDelete, TakePost
<1>4. (\E a \in Actors : CallFails(a)) \/ Crash => UNCHANGED row
  BY DEF CallFails, Crash
<1>5. TakeInstruction \/ ReadInstruction \/ Advance => UNCHANGED row
  BY DEF TakeInstruction, ReadInstruction, Advance
<1>6. ChannelFor \/ Intend \/ SendNotice \/ RecordNotice => UNCHANGED row
  BY DEF ChannelFor, Intend, SendNotice, RecordNotice
<1>7. UNCHANGED row \/ Creates
  BY <1>1, <1>2, <1>3, <1>4, <1>5, <1>6, StepsOfNext
<1>8. (\A m \in Managers : ~Answer(m)) => UNCHANGED <<answered, chosen>>
  <2>1. UNCHANGED vars \/ (\E step \in Commands : OpenCommand(step)) \/ Navigate \/ GuildCreate
          => UNCHANGED <<answered, chosen>>
    BY DEF vars, OpenCommand, Navigate, GuildCreate, history
  <2>2. Join \/ DisconnectOnSite \/ GuildDelete \/ (\E f \in Switchable : TakePost(f))
          => UNCHANGED <<answered, chosen>>
    BY DEF Join, DisconnectOnSite, GuildDelete, TakePost, history
  <2>3. (\E a \in Actors : CallFails(a)) \/ Crash => UNCHANGED <<answered, chosen>>
    BY DEF CallFails, Crash, history
  <2>4. TakeInstruction \/ ReadInstruction \/ Advance => UNCHANGED <<answered, chosen>>
    BY DEF TakeInstruction, ReadInstruction, Advance, history
  <2>5. ChannelFor \/ Intend \/ SendNotice \/ RecordNotice => UNCHANGED <<answered, chosen>>
    BY DEF ChannelFor, Intend, SendNotice, RecordNotice, history
  <2> QED BY <2>1, <2>2, <2>3, <2>4, <2>5, StepsOfNext
<1> QED BY <1>7, <1>8 DEF row, Creates

\* What a step of an interaction changes of what is held, but a removal.
LEMMA WhatChanges ==
  ASSUME NEW a \in Actors, ManagerStep(a), ~RemoveGuild(a)
  PROVE  /\ installed => installed'
         /\ UNCHANGED <<answered, chosen>>
         /\ ~SetKind(a) => UNCHANGED kind
         /\ ~Bind(a) => UNCHANGED binding
         /\ ~SetTiming(a) => UNCHANGED timing
         /\ ~Unfollow(a) /\ ~Follow(a) => UNCHANGED followed
<1>1. Read(a) => /\ installed'
                 /\ UNCHANGED <<answered, chosen, kind, binding, timing, followed>>
  BY DEF Read, Creates, history
<1>2. SetKind(a) => UNCHANGED <<installed, answered, chosen, binding, timing, followed>>
  BY DEF SetKind, history
<1>3. Bind(a) => UNCHANGED <<installed, answered, chosen, kind, timing, followed>>
  BY DEF Bind, history
<1>4. Unfollow(a) \/ Follow(a) => UNCHANGED <<installed, answered, chosen, kind, binding, timing>>
  BY DEF Unfollow, Follow, history
<1>5. Confirm(a) \/ ReadBinding(a) \/ Report(a) \/ ReadFeature(a)
        => UNCHANGED <<installed, answered, chosen, kind, binding, timing, followed>>
  BY DEF Confirm, ReadBinding, Report, ReadFeature, row, history
<1>6. SetTiming(a) => UNCHANGED <<installed, answered, chosen, kind, binding, followed>>
  BY DEF SetTiming, history
<1>7. SetChannel(a) \/ SetFeature(a)
        => UNCHANGED <<installed, answered, chosen, kind, binding, timing, followed>>
  BY DEF SetChannel, SetFeature, history
<1> QED BY <1>1, <1>2, <1>3, <1>4, <1>5, <1>6, <1>7 DEF ManagerStep

\* The row is deleted, and the binding changed, only by who has the binding in hand.
LEMMA BoundBy ==
  ASSUME TypeOK, [Next]_vars,
         \A a \in Actors : ManagerStep(a) => "binding" \notin Parts(hand[a].op)
  PROVE  UNCHANGED binding /\ (installed => installed')
<1>1. ASSUME NEW a \in Actors, ManagerStep(a)
      PROVE  UNCHANGED binding /\ (installed => installed')
  <2>1. "binding" \notin Parts(hand[a].op)
    BY <1>1
  <2>2. UNCHANGED binding
    BY <1>1, <2>1, BindingElsewhere
  <2>3. ~At(a, "removeGuild")
    BY <2>1, StepIs, BindsIs DEF TypeOK
  <2> QED BY <1>1, <2>2, <2>3, WhatChanges DEF RemoveGuild
<1>2. CASE \A a \in Actors : ~ManagerStep(a)
  BY <1>2, WorldKeeps
<1> QED BY <1>1, <1>2

\* Whose hand changes has moved, been stopped, or taken something up.
LEMMA WhoActs ==
  ASSUME TypeOK, [Next]_vars, NEW a \in Actors
  PROVE  \/ hand'[a] = hand[a]
         \/ ManagerStep(a) \/ CallFails(a) \/ Crash
         \/ a \in Managers /\ Answer(a)
         \/ a = Handler /\ (TakeInstruction \/ ReadInstruction \/ Advance)
         \/ a = Gateway /\ GuildDelete
         \/ a = Poster /\ \/ \E f \in Switchable : TakePost(f)
                          \/ ChannelFor \/ Intend \/ SendNotice \/ RecordNotice
<1>1. ASSUME NEW b \in Actors, b # a, Others(b)
      PROVE  hand'[a] = hand[a]
  BY <1>1 DEF Others
<1>2. ASSUME NEW b \in Actors, b # a, ManagerStep(b) \/ CallFails(b)
      PROVE  hand'[a] = hand[a]
  <2>1. Others(b)
    BY <1>2, ManagerWorks, FailureWorks DEF Works
  <2> QED BY <1>1, <1>2, <2>1
<1>3. ASSUME NEW m \in Managers, m # a, Answer(m)
      PROVE  hand'[a] = hand[a]
  <2>1. Others(m)
    BY <1>3, AnswerTakes
  <2> QED BY <1>1, <1>3, <2>1, WhoIsWho
<1>4. ASSUME a # Handler, TakeInstruction \/ ReadInstruction \/ Advance
      PROVE  hand'[a] = hand[a]
  <2>1. Others(Handler)
    BY <1>4, InstructionTakes, HandlerWorks DEF Works
  <2> QED BY <1>1, <1>4, <2>1, WhoIsWho
<1>5. ASSUME a # Gateway, GuildDelete
      PROVE  hand'[a] = hand[a]
  BY <1>1, <1>5, RemovalTakes, WhoIsWho
<1>6. ASSUME a # Poster,
             \/ \E f \in Switchable : TakePost(f)
             \/ ChannelFor \/ Intend \/ SendNotice \/ RecordNotice
      PROVE  hand'[a] = hand[a]
  <2>1. Others(Poster)
    BY <1>6, PostTakes, PosterWorks DEF Works
  <2> QED BY <1>1, <1>6, <2>1, WhoIsWho
<1>7. UNCHANGED vars \/ (\E step \in Commands : OpenCommand(step)) \/ Navigate \/ GuildCreate
         \/ DisconnectOnSite \/ Join => UNCHANGED hand
  BY DEF vars, OpenCommand, Navigate, GuildCreate, DisconnectOnSite, Join
<1> QED BY <1>2, <1>3, <1>4, <1>5, <1>6, <1>7, StepsOfNext

\* The steps the handler, the gateway and the poster share with the managers.
LEMMA SharedSteps ==
  ASSUME TypeOK
  PROVE  /\ ManagerStep(Handler) => Bind(Handler) /\ At(Handler, "disconnect")
         /\ ManagerStep(Gateway) => RemoveGuild(Gateway) \/ Report(Gateway)
         /\ ManagerStep(Poster) => SetFeature(Poster) /\ At(Poster, "switchOff")
<1>1. ManagerStep(Handler) => Bind(Handler) /\ At(Handler, "disconnect")
  BY WhoIsWho, StepIs
     DEF TypeOK, ManagerStep, Read, SetKind, Bind, Unfollow, Follow, Confirm, ReadBinding,
         Report, SetTiming, SetChannel, ReadFeature, SetFeature, RemoveGuild
<1>2. ManagerStep(Gateway) => RemoveGuild(Gateway) \/ Report(Gateway)
  BY WhoIsWho, StepIs
     DEF TypeOK, ManagerStep, Read, SetKind, Bind, Unfollow, Follow, Confirm, ReadBinding,
         SetTiming, SetChannel, ReadFeature, SetFeature
<1>3. ManagerStep(Poster) => SetFeature(Poster) /\ At(Poster, "switchOff")
  BY WhoIsWho, StepIs
     DEF TypeOK, ManagerStep, Read, SetKind, Bind, Unfollow, Follow, Confirm, ReadBinding,
         Report, SetTiming, SetChannel, ReadFeature, SetFeature, RemoveGuild
<1> QED BY <1>1, <1>2, <1>3

\* A call of the handler's or the poster's that fails ends what it is at.
LEMMA FailureEnds ==
  ASSUME TypeOK, NEW a \in {Handler, Poster}, CallFails(a) \/ Crash
  PROVE  hand'[a] = Idle /\ \A step : ~At(a, step)'
<1>1. a \in Actors
  BY WhoIsWho
<1>2. CASE CallFails(a)
  <2>1. ~Logged(a) /\ ~At(a, "readBinding")
    BY <1>1, WhoIsWho, StepIs DEF Logged, TypeOK
  <2>2. Stops(a)
    BY <1>2, <2>1 DEF CallFails
  <2> QED BY <1>1, <2>2, StopsAt DEF TypeOK
<1>3. CASE Crash
  BY <1>1, <1>3, IdleIs DEF Crash, At, Busy
<1> QED BY <1>2, <1>3

\* The handler comes to undo a binding only from having read whose it is.
LEMMA DisconnectsAfterReading ==
  ASSUME TypeOK, [Next]_vars, At(Handler, "disconnect")'
  PROVE  \/ hand'[Handler] = hand[Handler] /\ ~ManagerStep(Handler)
         \/ ReadInstruction
<1>1. ASSUME ManagerStep(Handler)
      PROVE  FALSE
  <2>1. Bind(Handler) /\ At(Handler, "disconnect")
    BY <1>1, SharedSteps
  <2>2. Then(hand[Handler].todo, "advance") /\ Goes(Handler)
    BY <2>1, WhoIsWho, PlaceIs DEF Place, At, Busy, TypeOK, Bind
  <2> QED BY <2>1, <2>2, WhoIsWho, AtIsBusy, GoesOn DEF TypeOK
<1>2. ~TakeInstruction
  <2>1. TakeInstruction => hand'[Handler].todo = <<"readInstruction", "disconnect", "advance">>
    BY InstructionTakes DEF Steps
  <2> QED BY <2>1 DEF At, Busy
<1>3. ASSUME Advance
      PROVE  FALSE
  <2>1. Goes(Handler) /\ At(Handler, "advance")
    BY <1>3 DEF Advance
  <2>2. Last(hand[Handler].todo)
    BY <2>1, WhoIsWho, PlaceIs DEF Place, At, Busy, TypeOK
  <2> QED BY <2>1, <2>2, WhoIsWho, AtIsBusy, GoesOn DEF TypeOK
<1> QED BY <1>1, <1>2, <1>3, FailureEnds, WhoActs, WhoIsWho

LEMMA TheirsKept ==
  ASSUME TypeOK, ActorInv, AloneInv, TheirsInv, [Next]_vars
  PROVE  TheirsInv'
<1> SUFFICES ASSUME At(Handler, "disconnect")', "binding" \notin crossed'
             PROVE  IsTheirs(Arg(Handler))'
  BY DEF TheirsInv
<1>1. TypeOK' /\ "binding" \notin crossed
  BY WhoMoves, CrossedStays
<1>2. CASE hand'[Handler] = hand[Handler] /\ ~ManagerStep(Handler)
  <2>1. At(Handler, "disconnect") /\ Arg(Handler)' = Arg(Handler)
    BY <1>2 DEF At, Busy, Arg
  <2>2. "binding" \in Parts(hand[Handler].op) /\ IsTheirs(Arg(Handler))
    BY <1>1, <2>1, WhoIsWho, StepIs, BindsIs DEF TheirsInv, TypeOK
  <2>3. \A a \in Actors : ManagerStep(a) => "binding" \notin Parts(hand[a].op)
    BY <1>1, <1>2, <2>2, WhoIsWho, AloneIs
  <2> QED BY <2>1, <2>2, <2>3, BoundBy DEF IsTheirs
<1>3. CASE ReadInstruction
  <2>1. IsTheirs(Arg(Handler)) /\ Goes(Handler) /\ UNCHANGED <<installed, binding>>
    <3>1. CASE ~IsTheirs(Arg(Handler))
      <4>1. Skips(Handler, "advance") /\ hand[Handler].op = "unbound"
        BY <1>3, <3>1, WhoIsWho, StepIs DEF ReadInstruction, TypeOK
      <4>2. ~At(Handler, "disconnect")'
        BY <4>1, WaysOf, WhoIsWho, SkipsTo DEF TypeOK
      <4> QED BY <4>2
    <3> QED BY <1>3, <3>1 DEF ReadInstruction, row
  <2>2. Then(hand[Handler].todo, "disconnect") /\ Busy(Handler)
    BY <1>3, WhoIsWho, PlaceIs DEF ReadInstruction, Place, At, Busy, TypeOK
  <2>3. hand'[Handler].arg = hand[Handler].arg
    BY <2>1, <2>2, WhoIsWho, GoesOn DEF Stays, TypeOK
  <2> QED BY <2>1, <2>3 DEF IsTheirs, Arg
<1> QED BY <1>1, <1>2, <1>3, DisconnectsAfterReading

-----------------------------------------------------------------------------
(* What a post switches off, and how often that is told.                   *)

LEMMA SwitchesIs ==
  /\ \A op \in {"channel", "unbind", "toggle", "post", "remove", "leave"} : "channels" \in Parts(op)
  /\ \A op \in {"toggle", "post", "remove", "leave"} : "features" \in Parts(op)
BY DEF Parts

\* Channels and features are changed only by who has the channels in hand.
LEMMA SwitchedBy ==
  ASSUME TypeOK, [Next]_vars,
         \A a \in Actors : ManagerStep(a) => "channels" \notin Parts(hand[a].op)
  PROVE  UNCHANGED <<channels, changes>>
<1>1. ASSUME NEW a \in Actors, ManagerStep(a)
      PROVE  UNCHANGED <<channels, changes>>
  <2>1. "channels" \notin Parts(hand[a].op)
    BY <1>1
  <2>2. /\ ~At(a, "removeGuild") /\ ~At(a, "bindChannel") /\ ~At(a, "unbindChannel")
        /\ ~At(a, "setFeature") /\ ~At(a, "switchOff")
    BY <2>1, StepIs, SwitchesIs DEF TypeOK
  <2>3. ~RemoveGuild(a) /\ ~SetChannel(a) /\ ~SetFeature(a)
    BY <2>2 DEF RemoveGuild, SetChannel, SetFeature
  <2>4. Read(a) => UNCHANGED <<channels, changes>>
    BY DEF Read, Creates
  <2>5. SetKind(a) \/ Bind(a) \/ Unfollow(a) \/ Follow(a) => UNCHANGED <<channels, changes>>
    BY DEF SetKind, Bind, Unfollow, Follow
  <2>6. Confirm(a) \/ ReadBinding(a) \/ Report(a) \/ ReadFeature(a) => UNCHANGED <<channels, changes>>
    BY DEF Confirm, ReadBinding, Report, ReadFeature, row
  <2>7. SetTiming(a) => UNCHANGED <<channels, changes>>
    BY DEF SetTiming
  <2> QED BY <1>1, <2>3, <2>4, <2>5, <2>6, <2>7 DEF ManagerStep
<1>2. CASE \A a \in Actors : ~ManagerStep(a)
  BY <1>2, WorldKeeps
<1> QED BY <1>1, <1>2

\* The poster comes to a step of its own by the step before it.
LEMMA PostsInOrder ==
  ASSUME TypeOK, [Next]_vars, NEW step \in {"listChannels", "switchOff", "sendNotice", "recordNotice"},
         At(Poster, step)'
  PROVE  \/ hand'[Poster] = hand[Poster] /\ ~ManagerStep(Poster) /\ At(Poster, step)
         \/ ChannelFor /\ At(Poster, "isEnabled") /\ step = "listChannels" /\ Goes(Poster)
         \/ ChannelFor /\ At(Poster, "listChannels") /\ step = "switchOff" /\ Goes(Poster)
         \/ Intend /\ step = "sendNotice" /\ Goes(Poster)
         \/ SendNotice /\ step = "recordNotice"
<1>1. ASSUME ManagerStep(Poster)
      PROVE  FALSE
  <2>1. SetFeature(Poster) /\ At(Poster, "switchOff")
    BY <1>1, SharedSteps
  <2>2. Then(hand[Poster].todo, "getInstallation") /\ (Goes(Poster) \/ Stops(Poster))
    BY <2>1, WhoIsWho, PlaceIs DEF Place, At, Busy, TypeOK, SetFeature
  <2> QED BY <2>1, <2>2, WhoIsWho, AtIsBusy, GoesOn, StopsAt DEF TypeOK
<1>2. ASSUME NEW f \in Switchable, TakePost(f)
      PROVE  FALSE
  <2>1. hand'[Poster].todo = Steps("post")
    BY <1>2, PostTakes
  <2>2. Head(Steps("post")) = "isEnabled"
    BY DEF Steps
  <2> QED BY <2>1, <2>2 DEF At, Busy
<1>3. ASSUME hand'[Poster] = hand[Poster]
      PROVE  At(Poster, step)
  BY <1>3 DEF At, Busy
<1>4. CASE ChannelFor
  <2>1. ~Stops(Poster)
    BY WhoIsWho, StopsAt DEF TypeOK
  <2>2. Goes(Poster) /\ (At(Poster, "isEnabled") \/ At(Poster, "listChannels") \/ At(Poster, "getInstallation"))
    BY <1>4, <2>1 DEF ChannelFor
  <2>3. /\ At(Poster, "isEnabled") => Then(hand[Poster].todo, "listChannels")
        /\ At(Poster, "listChannels") => Then(hand[Poster].todo, "switchOff")
        /\ At(Poster, "getInstallation") => Then(hand[Poster].todo, "intend")
    BY WhoIsWho, PlaceIs DEF Place, At, Busy, TypeOK
  <2> QED BY <1>4, <2>2, <2>3, WhoIsWho, AtIsBusy, GoesOn DEF TypeOK
<1>5. CASE Intend
  <2>1. Goes(Poster) /\ Busy(Poster)
    BY <1>5, WhoIsWho, StopsAt, AtIsBusy DEF TypeOK, Intend
  <2>2. Then(hand[Poster].todo, "sendNotice")
    BY <1>5, WhoIsWho, PlaceIs DEF Place, At, Busy, TypeOK, Intend
  <2> QED BY <1>5, <2>1, <2>2, WhoIsWho, GoesOn DEF TypeOK
<1>6. CASE SendNotice
  <2>1. Goes(Poster) /\ Busy(Poster)
    BY <1>6, AtIsBusy DEF SendNotice
  <2>2. Then(hand[Poster].todo, "recordNotice")
    BY <1>6, WhoIsWho, PlaceIs DEF Place, At, Busy, TypeOK, SendNotice
  <2> QED BY <1>6, <2>1, <2>2, WhoIsWho, GoesOn DEF TypeOK
<1>7. ASSUME RecordNotice
      PROVE  FALSE
  <2>1. Goes(Poster) /\ Busy(Poster)
    BY <1>7, AtIsBusy DEF RecordNotice
  <2>2. Last(hand[Poster].todo)
    BY <1>7, WhoIsWho, PlaceIs DEF Place, At, Busy, TypeOK, RecordNotice
  <2> QED BY <2>1, <2>2, WhoIsWho, GoesOn DEF TypeOK
<1> QED BY <1>1, <1>2, <1>3, <1>4, <1>5, <1>6, <1>7, FailureEnds, WhoActs, WhoIsWho

LEMMA BrokenKept ==
  ASSUME TypeOK, ActorInv, AloneInv, BrokenInv, [Next]_vars
  PROVE  BrokenInv'
<1> SUFFICES ASSUME (crossed \cap {"channels", "features"} = {})'
             PROVE  /\ At(Poster, "listChannels")' => Enabled(Arg(Poster))'
                    /\ At(Poster, "switchOff")' =>
                         Enabled(Arg(Poster))' /\ ~Bound(Arg(Poster), channels)'
  BY DEF BrokenInv
<1>1. crossed \cap {"channels", "features"} = {}
  BY CrossedStays
<1>2. ASSUME At(Poster, "listChannels") \/ At(Poster, "switchOff") \/ At(Poster, "isEnabled"),
             ~ManagerStep(Poster)
      PROVE  UNCHANGED <<channels, changes>>
  <2>1. "channels" \in Parts(hand[Poster].op)
    BY <1>2, WhoIsWho, StepIs, SwitchesIs DEF TypeOK
  <2>2. \A a \in Actors : ManagerStep(a) => "channels" \notin Parts(hand[a].op)
    BY <1>1, <1>2, <2>1, WhoIsWho, AloneIs
  <2> QED BY <2>2, SwitchedBy
<1>3. ASSUME NEW step \in {"listChannels", "switchOff"}, At(Poster, step)',
             hand'[Poster] = hand[Poster], ~ManagerStep(Poster), At(Poster, step)
      PROVE  /\ step = "listChannels" => Enabled(Arg(Poster))'
             /\ step = "switchOff" => Enabled(Arg(Poster))' /\ ~Bound(Arg(Poster), channels)'
  <2>1. UNCHANGED <<channels, changes>> /\ Arg(Poster)' = Arg(Poster)
    BY <1>2, <1>3 DEF Arg
  <2>2. /\ step = "listChannels" => Enabled(Arg(Poster))
        /\ step = "switchOff" => Enabled(Arg(Poster)) /\ ~Bound(Arg(Poster), channels)
    BY <1>1, <1>3 DEF BrokenInv
  <2> QED BY <2>1, <2>2 DEF Enabled, Bound
<1>4. ASSUME ChannelFor, Goes(Poster), At(Poster, "isEnabled"), At(Poster, "listChannels")'
      PROVE  Enabled(Arg(Poster))'
  <2>1. UNCHANGED <<channels, changes>>
    BY <1>4 DEF ChannelFor, row
  <2>2. Then(hand[Poster].todo, "listChannels") /\ Busy(Poster)
    BY <1>4, WhoIsWho, PlaceIs DEF Place, At, Busy, TypeOK
  <2>3. Arg(Poster)' = Arg(Poster)
    BY <1>4, <2>2, WhoIsWho, GoesOn DEF Stays, Arg, TypeOK
  <2>4. Enabled(Arg(Poster))
    <3>1. ~Stops(Poster)
      BY <1>4, WhoIsWho, StopsAt DEF TypeOK
    <3>2. ~At(Poster, "listChannels") /\ ~At(Poster, "getInstallation")
      BY <1>4 DEF At
    <3> QED BY <1>4, <3>1, <3>2 DEF ChannelFor
  <2> QED BY <2>1, <2>3, <2>4 DEF Enabled
<1>5. ASSUME ChannelFor, Goes(Poster), At(Poster, "listChannels"), At(Poster, "switchOff")'
      PROVE  Enabled(Arg(Poster))' /\ ~Bound(Arg(Poster), channels)'
  <2>1. UNCHANGED <<channels, changes>>
    BY <1>5 DEF ChannelFor, row
  <2>2. Then(hand[Poster].todo, "switchOff") /\ Busy(Poster)
    BY <1>5, WhoIsWho, PlaceIs DEF Place, At, Busy, TypeOK
  <2>3. Arg(Poster)' = Arg(Poster)
    BY <1>5, <2>2, WhoIsWho, GoesOn DEF Stays, Arg, TypeOK
  <2>4. ~Bound(Arg(Poster), channels)
    <3>1. ~Stops(Poster)
      BY <1>5, WhoIsWho, StopsAt DEF TypeOK
    <3>2. ~At(Poster, "isEnabled") /\ ~At(Poster, "getInstallation")
      BY <1>5 DEF At
    <3> QED BY <1>5, <3>1, <3>2 DEF ChannelFor, HasChannel
  <2>5. Enabled(Arg(Poster))
    BY <1>1, <1>5 DEF BrokenInv
  <2> QED BY <2>1, <2>3, <2>4, <2>5 DEF Enabled, Bound
<1> QED BY <1>3, <1>4, <1>5, PostsInOrder

\* What is told of the notices changes only by the poster's own steps.
LEMMA NoticeBy ==
  ASSUME TypeOK, [Next]_vars
  PROVE  /\ ~Intend /\ ~RecordNotice => UNCHANGED notice
         /\ ~SendNotice => UNCHANGED told
         /\ faults \in Nat /\ faults' \in Nat /\ faults <= faults'
         /\ Crash \/ (\E a \in Actors : CallFails(a)) => faults' = faults + 1
<1>1. faults \in Nat
  BY BoundsAre DEF TypeOK, RestTyped
<1>2. (\E a \in Actors : ManagerStep(a)) => UNCHANGED <<notice, told, faults>>
  BY ManagerWorks DEF Around, budget
<1>3. (\E step \in Commands : OpenCommand(step)) \/ Navigate \/ GuildCreate
        => UNCHANGED <<notice, told, faults>>
  BY DEF OpenCommand, Navigate, GuildCreate, budget, history
<1>4. UNCHANGED vars \/ (\E m \in Managers : Answer(m)) => UNCHANGED <<notice, told, faults>>
  BY DEF vars, Answer, Chooses, budget, history
<1>5. DisconnectOnSite \/ GuildDelete \/ (\E f \in Switchable : TakePost(f)) \/ Join
        => UNCHANGED <<notice, told, faults>>
  BY DEF DisconnectOnSite, GuildDelete, TakePost, Join, history
<1>6. (\E a \in Actors : CallFails(a)) \/ Crash => UNCHANGED <<notice, told>> /\ faults' = faults + 1
  BY DEF CallFails, Crash, history
<1>7. TakeInstruction \/ ReadInstruction \/ Advance => UNCHANGED <<notice, told, faults>>
  BY DEF TakeInstruction, ReadInstruction, Advance, budget, history
<1>8. ChannelFor => UNCHANGED <<notice, told, faults>>
  BY DEF ChannelFor, budget, history
<1>9. Intend \/ RecordNotice => UNCHANGED <<told, faults>>
  BY DEF Intend, RecordNotice, budget, history
<1>10. SendNotice => UNCHANGED <<notice, faults>>
  BY DEF SendNotice, budget
<1> QED BY <1>1, <1>2, <1>3, <1>4, <1>5, <1>6, <1>7, <1>8, <1>9, <1>10, StepsOfNext

\* A notice sent is recorded, unless a call fails.
LEMMA SentIsRecorded ==
  ASSUME TypeOK, [Next]_vars, At(Poster, "recordNotice")
  PROVE  \/ RecordNotice \/ Crash \/ \E a \in Actors : CallFails(a)
         \/ hand'[Poster] = hand[Poster]
<1>1. ~ManagerStep(Poster)
  BY SharedSteps DEF At
<1>2. \A f \in Switchable : ~TakePost(f)
  BY AtIsBusy, PostTakes
<1>3. ~ChannelFor /\ ~Intend /\ ~SendNotice
  BY DEF ChannelFor, Intend, SendNotice, At
<1> QED BY <1>1, <1>2, <1>3, WhoActs, WhoIsWho

\* What the poster is at is about one feature.
LEMMA PostIs ==
  ASSUME TypeOK, Busy(Poster)
  PROVE  \E f \in Switchable : hand[Poster].arg = {f} /\ Arg(Poster) = f
<1>1. hand[Poster].op = "post"
  BY BusyIs, HandIs, WhoIsWho, WhoDoesWhat DEF TypeOK
<1>2. PICK f \in Switchable : hand[Poster].arg = {f}
  BY <1>1, HandIs, WhoIsWho DEF TypeOK, Choices, Singles
<1>3. Arg(Poster) = f
  BY <1>2, SingleChoice DEF Arg
<1> QED BY <1>2, <1>3

LEMMA NoticeKept ==
  ASSUME TypeOK, NoticeInv, [Next]_vars
  PROVE  NoticeInv'
<1> SUFFICES ASSUME NEW f \in Switchable
             PROVE  /\ told'[f] <= 1 + faults'
                    /\ At(Poster, "sendNotice")' /\ hand'[Poster].arg = {f} => notice'[f] = "owed"
                    /\ \/ notice'[f] = "posted"
                       \/ At(Poster, "recordNotice")' /\ hand'[Poster].arg = {f}
                       \/ told'[f] <= faults'
  BY DEF NoticeInv
<1>1. /\ told[f] \in Nat /\ told[f] <= 1 + faults
      /\ At(Poster, "sendNotice") /\ hand[Poster].arg = {f} => notice[f] = "owed"
      /\ \/ notice[f] = "posted"
         \/ At(Poster, "recordNotice") /\ hand[Poster].arg = {f}
         \/ told[f] <= faults
      /\ told \in [Switchable -> Nat] /\ notice \in [Switchable -> {"absent", "owed", "posted"}]
  BY DEF NoticeInv, TypeOK, RestTyped
<1>2. faults \in Nat /\ faults' \in Nat /\ faults <= faults'
  BY NoticeBy
<1>3. CASE Intend
  <2>1. /\ UNCHANGED told /\ At(Poster, "intend") /\ Busy(Poster)
    BY <1>3, AtIsBusy DEF Intend, history
  <2>2. ~At(Poster, "recordNotice")
    BY <2>1 DEF At
  <2>3. CASE SentBefore(Arg(Poster))
    <3>1. UNCHANGED notice /\ Stops(Poster)
      BY <1>3, <2>3 DEF Intend
    <3>2. \A step : ~At(Poster, step)'
      BY <3>1, WhoIsWho, StopsAt DEF TypeOK
    <3> QED BY <1>1, <1>2, <2>1, <2>2, <3>1, <3>2
  <2>4. CASE ~SentBefore(Arg(Poster))
    <3>1. notice' = [notice EXCEPT ![Arg(Poster)] = "owed"] /\ Goes(Poster)
      BY <1>3, <2>4 DEF Intend
    <3>2. Then(hand[Poster].todo, "sendNotice")
      BY <2>1, WhoIsWho, PlaceIs DEF Place, At, Busy, TypeOK
    <3>3. hand'[Poster].arg = hand[Poster].arg
      BY <2>1, <3>1, <3>2, WhoIsWho, GoesOn DEF Stays, TypeOK
    <3>4. PICK g \in Switchable : hand[Poster].arg = {g} /\ Arg(Poster) = g
      BY <2>1, PostIs
    <3>5. CASE f = g
      <4>1. notice'[f] = "owed" /\ notice[f] # "posted"
        BY <1>1, <2>4, <3>1, <3>4, <3>5 DEF SentBefore
      <4> QED BY <1>1, <1>2, <2>1, <2>2, <4>1
    <3>6. CASE f # g
      <4>1. notice'[f] = notice[f] /\ hand'[Poster].arg # {f}
        BY <1>1, <3>1, <3>3, <3>4, <3>6
      <4> QED BY <1>1, <1>2, <2>1, <2>2, <4>1
    <3> QED BY <3>5, <3>6
  <2> QED BY <2>3, <2>4
<1>4. CASE SendNotice
  <2>1. /\ UNCHANGED <<notice, faults>> /\ At(Poster, "sendNotice") /\ Busy(Poster) /\ Goes(Poster)
        /\ told' = [told EXCEPT ![Arg(Poster)] = @ + 1]
    BY <1>4, AtIsBusy DEF SendNotice, budget
  <2>2. ~At(Poster, "recordNotice")
    BY <2>1 DEF At
  <2>3. Then(hand[Poster].todo, "recordNotice")
    BY <2>1, WhoIsWho, PlaceIs DEF Place, At, Busy, TypeOK
  <2>4. At(Poster, "recordNotice")' /\ ~At(Poster, "sendNotice")'
        /\ hand'[Poster].arg = hand[Poster].arg
    BY <2>1, <2>3, WhoIsWho, GoesOn DEF Stays, TypeOK
  <2>5. PICK g \in Switchable : hand[Poster].arg = {g} /\ Arg(Poster) = g
    BY <2>1, PostIs
  <2>6. CASE f = g
    <3>1. told'[f] = told[f] + 1 /\ told[f] <= faults
      BY <1>1, <2>1, <2>2, <2>5, <2>6
    <3> QED BY <1>1, <1>2, <2>1, <2>4, <2>5, <2>6, <3>1
  <2>7. CASE f # g
    <3>1. told'[f] = told[f]
      BY <1>1, <2>1, <2>5, <2>7
    <3> QED BY <1>1, <1>2, <2>1, <2>2, <2>4, <3>1
  <2> QED BY <2>6, <2>7
<1>5. CASE RecordNotice
  <2>1. /\ UNCHANGED told /\ At(Poster, "recordNotice") /\ Busy(Poster) /\ Goes(Poster)
        /\ notice' = [notice EXCEPT ![Arg(Poster)] = "posted"]
    BY <1>5, AtIsBusy DEF RecordNotice, history
  <2>2. Last(hand[Poster].todo)
    BY <2>1, WhoIsWho, PlaceIs DEF Place, At, Busy, TypeOK
  <2>3. \A step : ~At(Poster, step)'
    BY <2>1, <2>2, WhoIsWho, GoesOn DEF TypeOK
  <2>4. PICK g \in Switchable : hand[Poster].arg = {g} /\ Arg(Poster) = g
    BY <2>1, PostIs
  <2>5. f = g => notice'[f] = "posted"
    BY <1>1, <2>1, <2>4
  <2>6. f # g => notice'[f] = notice[f] /\ hand[Poster].arg # {f}
    BY <1>1, <2>1, <2>4
  <2> QED BY <1>1, <1>2, <2>1, <2>3, <2>5, <2>6
<1>6. CASE Crash \/ \E a \in Actors : CallFails(a)
  <2>1. faults' = faults + 1 /\ UNCHANGED <<notice, told>>
    BY <1>6, NoticeBy DEF CallFails, Crash, history
  <2>2. At(Poster, "sendNotice")' => At(Poster, "sendNotice") /\ hand'[Poster] = hand[Poster]
    <3>1. ~Intend
      BY <1>2, <2>1 DEF Intend, budget
    <3> QED BY <3>1, PostsInOrder
  <2> QED BY <1>1, <1>2, <2>1, <2>2
<1>7. CASE ~Intend /\ ~SendNotice /\ ~RecordNotice /\ ~Crash /\ ~\E a \in Actors : CallFails(a)
  <2>1. UNCHANGED <<notice, told>>
    BY <1>7, NoticeBy
  <2>2. At(Poster, "sendNotice")' => At(Poster, "sendNotice") /\ hand'[Poster] = hand[Poster]
    BY <1>7, PostsInOrder
  <2>3. At(Poster, "recordNotice") => At(Poster, "recordNotice")' /\ hand'[Poster] = hand[Poster]
    BY <1>7, SentIsRecorded DEF At, Busy
  <2> QED BY <1>1, <1>2, <2>1, <2>2, <2>3
<1> QED BY <1>3, <1>4, <1>5, <1>6, <1>7

-----------------------------------------------------------------------------
(* The digest's timing, answer by answer.                                  *)

LEMMA TimesIs ==
  /\ \A op \in {"day", "hour", "pinned", "remove", "leave"} : "timing" \in Parts(op)
  /\ \A op \in {"none", "kind", "all", "followed", "bindrso", "unbound", "channel", "unbind",
                "toggle", "post"} : "timing" \notin Parts(op)
  /\ \A op \in {"day", "hour", "pinned"} : Parts(op) = {"timing"}
BY DEF Parts

\* What is under way of the timing, in an actor's hand.
Answering(m) ==
  IF hand[m].todo = <<"read">> THEN timing = answered
  ELSE /\ answered = Moved(m, timing)
       /\ ~At(m, "read") => installed /\ hand[m].saw.timing = timing

\* Nobody answering moves, and what is held of the timing stays.
LEMMA TimingFramed ==
  ASSUME Alone("timing") => TimingInv, Alone("timing"),
         \A m \in Managers : Timed(m) \/ Timed(m)' => hand'[m] = hand[m],
         UNCHANGED <<timing, answered>>, installed => installed'
  PROVE  TimingInv'
<1>1. /\ \/ timing = answered
         \/ \E m \in Managers : Timed(m) /\ hand[m].todo # <<"read">>
      /\ \A m \in Managers : Timed(m) => Answering(m)
  BY DEF TimingInv, Answering
<1>2. /\ \/ timing' = answered'
         \/ \E m \in Managers : Timed(m)' /\ hand'[m].todo # <<"read">>
  BY <1>1 DEF Timed
<1>3. ASSUME NEW m \in Managers, Timed(m)'
      PROVE  Answering(m)'
  <2>1. hand'[m] = hand[m] /\ Timed(m)
    BY <1>3 DEF Timed
  <2>2. Answering(m)
    BY <1>1, <2>1
  <2> QED BY <2>1, <2>2 DEF Answering, Moved, Arg, At, Busy
<1> QED BY <1>2, <1>3 DEF TimingInv, Answering

\* One answer is under way: what it comes to is all there is to see to.
LEMMA TimingByOne ==
  ASSUME NEW m \in Managers,
         \A b \in Managers : b # m => ~Timed(b)',
         timing' = answered' \/ (Timed(m)' /\ hand'[m].todo # <<"read">>),
         Timed(m)' => Answering(m)'
  PROVE  TimingInv'
BY DEF TimingInv, Answering

\* Who answers about the timing, uncrossed, does it alone.
LEMMA AnswersAlone ==
  ASSUME AloneInv, "timing" \notin crossed, NEW m \in Managers, Timed(m)
  PROVE  \A b \in Actors : b # m => "timing" \notin Parts(hand[b].op)
BY AloneIs, TimesIs, WhoIsWho DEF Timed

LEMMA TimingRead ==
  ASSUME TypeOK, TypeOK', AloneInv, Alone("timing"), TimingInv,
         NEW m \in Managers, Timed(m), Read(m)
  PROVE  TimingInv'
<1> DEFINE saw == [hand[m].saw EXCEPT !.timing = timing]
<1>1. m \in Actors /\ Busy(m) /\ Works(m) /\ At(m, "read")
  BY WhoIsWho, ManagerWorks DEF Read, ManagerStep
<1>2. hand[m].saw \in Readings /\ timing \in Timings
  BY <1>1, HandIs DEF TypeOK, HeldTyped
<1>3. saw \in Readings /\ saw.timing = timing
  BY <1>2 DEF Readings
<1>4. Knowing(m, saw) /\ installed' /\ UNCHANGED <<timing, answered>>
  BY TimesIs DEF Read, Timed, Creates, history
<1>5. \A b \in Managers : b # m => ~Timed(b)'
  BY <1>1, WhoIsWho, AnswersAlone, TimesIs DEF Alone, Works, Others, Timed
<1>6. Answering(m)
  BY DEF TimingInv, Answering
<1>7. \/ hand[m].todo = <<"read">> /\ Last(hand[m].todo)
      \/ \E step : step # "read" /\ Then(hand[m].todo, step) /\ hand[m].todo = Steps(hand[m].op)
  BY <1>1, PlaceIs DEF Place, At, Busy, Timed, TypeOK
<1>8. CASE hand[m].todo = <<"read">> /\ Last(hand[m].todo)
  <2>1. hand'[m] = Idle
    <3> HIDE DEF saw
    <3> QED BY <1>1, <1>3, <1>4, <1>8, MovesOn DEF TypeOK
  <2>2. ~Timed(m)' /\ timing' = answered'
    BY <1>4, <1>6, <1>8, <2>1, IdleIs DEF Timed, Answering
  <2> QED BY <1>5, <2>2, TimingByOne
<1>9. ASSUME NEW step, step # "read", Then(hand[m].todo, step), hand[m].todo = Steps(hand[m].op)
      PROVE  TimingInv'
  <2>1. Stays(m, saw) /\ hand'[m].todo # <<"read">> /\ ~At(m, "read")'
    <3> HIDE DEF saw
    <3> QED BY <1>1, <1>3, <1>4, <1>9, MovesOn DEF TypeOK
  <2>2. hand[m].todo # <<"read">>
    <3>1. Tail(<<"read">>) = <<>>
      OBVIOUS
    <3> QED BY <1>9, <3>1, Zenon DEF Then
  <2>3. answered = Moved(m, timing)
    BY <1>6, <2>2 DEF Answering
  <2>4. Answering(m)' /\ Timed(m)'
    <3> HIDE DEF saw
    <3> QED BY <1>3, <1>4, <2>1, <2>3 DEF Answering, Stays, Moved, Arg, Timed
  <2> QED BY <1>5, <2>1, <2>4, TimingByOne
<1> QED BY <1>7, <1>8, <1>9

LEMMA TimingSet ==
  ASSUME TypeOK, AloneInv, Alone("timing"), TimingInv,
         NEW m \in Managers, Timed(m), SetTiming(m)
  PROVE  TimingInv'
<1>1. m \in Actors /\ Busy(m) /\ Works(m) /\ Goes(m) /\ UNCHANGED answered
  BY WhoIsWho, ManagerWorks DEF SetTiming, ManagerStep, history
<1>2. \A b \in Managers : b # m => ~Timed(b)'
  BY <1>1, WhoIsWho, AnswersAlone, TimesIs DEF Alone, Works, Others, Timed
<1>3. /\ ToRedraw(hand[m].todo)
      /\ \/ At(m, "setSchedule") /\ hand[m].op \in {"day", "hour"}
         \/ At(m, "setPinned") /\ hand[m].op = "pinned" /\ ~At(m, "setSchedule")
  BY <1>1, PlaceIs DEF SetTiming, Place, At, Busy, TypeOK
<1>4. Stays(m, hand[m].saw) /\ hand'[m].todo = <<"read">>
  BY <1>1, <1>3, GoesOn DEF TypeOK
<1>5. installed /\ hand[m].saw.timing = timing /\ answered = Moved(m, timing)
  <2>1. ~At(m, "read") /\ hand[m].todo # <<"read">>
    <3>1. Head(<<"read">>) = "read"
      OBVIOUS
    <3> QED BY <1>3, <3>1, Zenon DEF At
  <2> QED BY <2>1 DEF TimingInv
<1>6. timing \in Timings
  BY DEF TypeOK, HeldTyped
<1>7. timing' = Moved(m, timing)
  <2>1. CASE At(m, "setSchedule") /\ hand[m].op = "day"
    <3>1. ~At(m, "setPinned")
      BY <2>1 DEF At
    <3>2. timing' = [[timing EXCEPT !.day = Arg(m)] EXCEPT !.pinned = timing.pinned]
      BY <1>5, <2>1, <3>1 DEF SetTiming, Scheduled
    <3> QED BY <1>6, <2>1, <3>2 DEF Moved, Timings
  <2>2. CASE At(m, "setSchedule") /\ hand[m].op = "hour"
    <3>1. ~At(m, "setPinned")
      BY <2>2 DEF At
    <3>2. timing' = [[timing EXCEPT !.hour = Arg(m)] EXCEPT !.pinned = timing.pinned]
      BY <1>5, <2>2, <3>1 DEF SetTiming, Scheduled
    <3> QED BY <1>6, <2>2, <3>2 DEF Moved, Timings
  <2>3. CASE At(m, "setPinned") /\ hand[m].op = "pinned" /\ ~At(m, "setSchedule")
    BY <1>5, <1>6, <2>3 DEF SetTiming, Moved
  <2> QED BY <1>3, <2>1, <2>2, <2>3
<1>8. timing' = answered' /\ Answering(m)'
  BY <1>1, <1>4, <1>5, <1>7 DEF Answering
<1> QED BY <1>2, <1>8, TimingByOne

\* An answer about the timing, where no other is under way, is what will be held.
LEMMA TimingAnswered ==
  ASSUME TypeOK, AloneInv, Alone("timing"), Alone("timing")', TimingInv,
         NEW m \in Managers, Answer(m)
  PROVE  TimingInv'
<1>1. PICK verb, what :
        /\ verb \in Operations(m) \ {"none"}
        /\ Chooses(m, verb, what)
        /\ ~Busy(m) /\ Others(m)
        /\ hand'[m].op = verb /\ hand'[m].arg = (IF verb = "followed" THEN what ELSE {what})
        /\ hand'[m].todo = Steps(verb)
  BY AnswerTakes
<1>2. UNCHANGED <<timing, installed>>
  BY <1>1 DEF Chooses, row
<1>3. ~Timed(m)
  BY <1>1, BusyIs, WhoIsWho DEF Timed, TypeOK
<1>4. \A b \in Managers : b # m => hand'[b] = hand[b]
  BY <1>1, WhoIsWho DEF Others
<1>5. CASE verb \notin {"day", "hour", "pinned"}
  <2>1. UNCHANGED answered
    BY <1>1, <1>5 DEF Chooses
  <2>2. ~Timed(m)'
    BY <1>1, <1>5 DEF Timed
  <2> QED BY <1>2, <1>3, <1>4, <2>1, <2>2, TimingFramed DEF Timed
<1>6. CASE verb \in {"day", "hour", "pinned"}
  <2>1. \A b \in Managers : ~Timed(b)
    <3>1. ASSUME NEW b \in Managers, Timed(b)
          PROVE  FALSE
      <4>1. b \in Actors \ {m} /\ Busy(b) /\ "timing" \in Parts(hand[b].op)
        BY <1>3, <3>1, BusyIs, TimesIs, WhoIsWho DEF Timed, TypeOK
      <4>2. "timing" \in Parts(verb)
        BY <1>6, TimesIs
      <4>3. "timing" \in crossed'
        BY <1>1, <4>1, <4>2 DEF Chooses, Takes
      <4> QED BY <4>3 DEF Alone
    <3> QED BY <3>1
  <2>2. timing = answered
    BY <2>1 DEF TimingInv
  <2>3. Arg(m)' = what
    <3>1. hand'[m].arg = {what}
      BY <1>1, <1>6
    <3> QED BY <3>1, SingleChoice DEF Arg
  <2>4. answered' = Moved(m, timing)'
    <3>1. answered' = CASE verb = "day" -> [answered EXCEPT !.day = what]
                        [] verb = "hour" -> [answered EXCEPT !.hour = what]
                        [] verb = "pinned" -> [answered EXCEPT !.pinned = ~@]
                        [] OTHER -> answered
      BY <1>1 DEF Chooses
    <3> QED BY <1>1, <1>2, <1>6, <2>2, <2>3, <3>1 DEF Moved
  <2>5. At(m, "read")' /\ hand'[m].todo # <<"read">>
    <3>1. /\ Steps(verb) # <<"read">> /\ Steps(verb) # <<>> /\ Head(Steps(verb)) = "read"
      <4>1. /\ Steps("day") = <<"read", "setSchedule", "read">>
            /\ Steps("hour") = <<"read", "setSchedule", "read">>
            /\ Steps("pinned") = <<"read", "setPinned", "read">>
        BY DEF Steps
      <4> QED BY <1>6, <4>1
    <3> QED BY <1>1, <3>1 DEF At, Busy
  <2>6. Answering(m)' /\ Timed(m)'
    BY <1>1, <1>6, <2>4, <2>5 DEF Answering, Timed
  <2>7. \A b \in Managers : b # m => ~Timed(b)'
    BY <1>4, <2>1 DEF Timed
  <2> QED BY <2>5, <2>6, <2>7, TimingByOne
<1> QED BY <1>5, <1>6

LEMMA TimingKept ==
  ASSUME TypeOK, ActorInv, AloneInv, TimingInv, [Next]_vars
  PROVE  TimingInv'
<1> SUFFICES ASSUME Alone("timing")'
             PROVE  TimingInv'
  BY DEF TimingInv
<1>1. /\ TypeOK' /\ Alone("timing") /\ ~Crash /\ \A a \in Actors : ~CallFails(a)
      /\ "timing" \notin crossed
  BY WhoMoves, AloneWas DEF Alone
<1>2. CASE \E m \in Managers : Answer(m)
  BY <1>1, <1>2, TimingAnswered
<1>3. ASSUME NEW a \in Actors, ManagerStep(a)
      PROVE  TimingInv'
  <2>1. CASE RemoveGuild(a)
    <3>1. Works(a) /\ timing' = FirstTiming /\ answered' = FirstTiming
      BY <1>3, <2>1, ManagerWorks DEF RemoveGuild
    <3>2. "timing" \in Parts(hand[a].op) /\ hand[a].op \in {"remove", "leave"}
      BY <2>1, StepIs, TimesIs DEF RemoveGuild, TypeOK
    <3>3. \A b \in Managers : ~Timed(b)
      BY <1>1, <3>2, AloneIs, TimesIs, WhoIsWho DEF Timed
    <3>4. \A b \in Managers : ~Timed(b)'
      BY <3>1, <3>3, IdleIs, WhoIsWho DEF Timed, Works, Others
    <3> QED BY <3>1, <3>4 DEF TimingInv
  <2>2. CASE ~RemoveGuild(a) /\ (a \notin Managers \/ ~Timed(a))
    <3>1. Works(a) /\ (installed => installed') /\ UNCHANGED answered
      BY <1>3, <2>2, ManagerWorks, WhatChanges
    <3>2. ~SetTiming(a)
      BY <2>2, StepIs DEF SetTiming, Timed, TypeOK
    <3>3. UNCHANGED timing
      BY <1>3, <2>2, <3>2, WhatChanges
    <3>4. \A m \in Managers : Timed(m) \/ Timed(m)' => hand'[m] = hand[m]
      BY <2>2, <3>1, IdleIs, WhoIsWho DEF Timed, Works, Others
    <3> QED BY <1>1, <3>1, <3>3, <3>4, TimingFramed
  <2>3. CASE ~RemoveGuild(a) /\ a \in Managers /\ Timed(a)
    <3>1. Read(a) \/ SetTiming(a)
      BY <1>3, <2>3, StepIs
         DEF ManagerStep, SetKind, Bind, Unfollow, Follow, Confirm, ReadBinding, Report,
             SetChannel, ReadFeature, SetFeature, Timed, TypeOK
    <3> QED BY <1>1, <2>3, <3>1, TimingRead, TimingSet
  <2> QED BY <2>1, <2>2, <2>3
<1>4. CASE (\A m \in Managers : ~Answer(m)) /\ \A a \in Actors : ~ManagerStep(a)
  <2>1. UNCHANGED <<timing, answered>> /\ (installed => installed')
    BY <1>4, WorldKeeps
  <2>2. ASSUME NEW m \in Managers
        PROVE  hand'[m] = hand[m]
    BY <1>1, <1>4, WhoActs, WhoIsWho
  <2> QED BY <1>1, <2>1, <2>2, TimingFramed
<1> QED BY <1>2, <1>3, <1>4

-----------------------------------------------------------------------------
(* The set that is followed, choice by choice.                             *)

\* What is under way of a choice, in an actor's hand.
Choosing(m) ==
  /\ hand[m].op = "followed" =>
       /\ chosen = hand[m].arg
       /\ At(m, "follow") => followed = {}
       /\ hand[m].todo # Steps("followed") => installed
       /\ hand[m].todo = <<"read">> => followed = chosen
  /\ hand[m].op = "all" /\ At(m, "unfollow") => binding.to # "set"

LEMMA ChosenIs ==
  ASSUME Alone("binding"), ChosenInv
  PROVE  /\ \/ binding.to = "set" => followed = chosen
            \/ \E m \in Managers : hand[m].op = "followed" /\ hand[m].todo # <<"read">>
         /\ \A m \in Managers : Choosing(m)
BY DEF ChosenInv, Choosing

\* Nobody at the binding moves, and what is held of the choice stays.
LEMMA ChosenFramed ==
  ASSUME Alone("binding"), ChosenInv,
         \A m \in Managers : \/ hand'[m] = hand[m]
                             \/ hand[m].op \notin {"followed", "all"} /\ hand'[m].op # "followed"
                                  /\ ~(hand'[m].op = "all" /\ At(m, "unfollow")'),
         UNCHANGED <<binding, followed, chosen>>, installed => installed'
  PROVE  ChosenInv'
<1>1. \/ binding'.to = "set" => followed' = chosen'
      \/ \E m \in Managers : hand'[m].op = "followed" /\ hand'[m].todo # <<"read">>
  BY ChosenIs
<1>2. ASSUME NEW m \in Managers
      PROVE  Choosing(m)'
  <2>1. Choosing(m)
    BY ChosenIs
  <2>2. CASE hand'[m] = hand[m]
    BY <2>1, <2>2 DEF Choosing, At, Busy
  <2>3. CASE hand'[m].op # "followed" /\ ~(hand'[m].op = "all" /\ At(m, "unfollow")')
    BY <2>3 DEF Choosing
  <2> QED BY <2>2, <2>3
<1> QED BY <1>1, <1>2 DEF ChosenInv, Choosing

\* One choice is under way: what it comes to is all there is to see to.
LEMMA ChosenByOne ==
  ASSUME NEW m \in Managers,
         \A b \in Managers : b # m => hand'[b].op \notin {"followed", "all"},
         \/ binding'.to = "set" => followed' = chosen'
         \/ hand'[m].op = "followed" /\ hand'[m].todo # <<"read">>,
         Choosing(m)'
  PROVE  ChosenInv'
<1>1. \A b \in Managers : Choosing(b)'
  BY DEF Choosing
<1> QED BY <1>1 DEF ChosenInv, Choosing

\* Who is at the binding, uncrossed, is so alone.
LEMMA ChoosesAlone ==
  ASSUME AloneInv, "binding" \notin crossed, NEW a \in Actors, "binding" \in Parts(hand[a].op)
  PROVE  \A b \in Actors : b # a => hand[b].op \notin {"all", "followed", "bindrso", "unbound",
                                                        "remove", "leave"}
BY AloneIs, BindsIs

\* The choice of a set goes on, step by step.
LEMMA ChosenFollowed ==
  ASSUME TypeOK, TypeOK', AloneInv, Alone("binding"), ChosenInv,
         NEW m \in Managers, hand[m].op = "followed",
         Read(m) \/ Bind(m) \/ Unfollow(m) \/ Follow(m)
  PROVE  ChosenInv'
<1>1. m \in Actors /\ Busy(m) /\ Works(m) /\ UNCHANGED chosen
  BY WhoIsWho, ManagerWorks DEF Read, Bind, Unfollow, Follow, ManagerStep, history
<1>2. \A b \in Managers : b # m => hand'[b].op \notin {"followed", "all"}
  <2>1. "binding" \in Parts(hand[m].op)
    BY BindsIs
  <2> QED BY <1>1, <2>1, WhoIsWho, ChoosesAlone DEF Alone, Works, Others
<1>3. Choosing(m) /\ chosen = hand[m].arg
  BY ChosenIs DEF Choosing
<1>4. Place("followed", hand[m].todo)
  BY <1>1, PlaceIs DEF TypeOK
<1>5. CASE Read(m)
  <2> DEFINE saw == hand[m].saw
  <2>1. Knowing(m, saw) /\ saw \in Readings
    <3>1. Parts("followed") # {"timing"}
      BY BindsIs
    <3> QED BY <1>1, <1>5, <3>1, HandIs DEF Read, TypeOK
  <2>2. installed' /\ UNCHANGED <<binding, followed>> /\ At(m, "read")
    BY <1>5 DEF Read, Creates
  <2>3. \/ hand[m].todo = <<"read">> /\ Last(hand[m].todo)
        \/ hand[m].todo = Steps("followed") /\ Then(hand[m].todo, "bindSet")
    BY <1>4, <2>2 DEF Place, At, Busy
  <2>4. CASE hand[m].todo = <<"read">> /\ Last(hand[m].todo)
    <3>1. hand'[m] = Idle
      <4> HIDE DEF saw
      <4> QED BY <1>1, <2>1, <2>4, MovesOn DEF TypeOK
    <3>2. followed' = chosen'
      BY <1>1, <1>3, <2>2, <2>4 DEF Choosing
    <3> QED BY <1>2, <3>1, <3>2, IdleIs, ChosenByOne DEF Choosing
  <2>5. CASE Then(hand[m].todo, "bindSet")
    <3>1. Stays(m, saw) /\ hand'[m].todo # <<"read">> /\ ~At(m, "follow")'
      <4> HIDE DEF saw
      <4> QED BY <1>1, <2>1, <2>5, MovesOn DEF TypeOK
    <3>2. Choosing(m)' /\ hand'[m].op = "followed"
      BY <1>1, <1>3, <2>2, <3>1 DEF Choosing, Stays
    <3> QED BY <1>2, <3>1, <3>2, ChosenByOne
  <2> QED BY <2>3, <2>4, <2>5
<1>6. CASE Bind(m)
  <2>1. /\ Goes(m) /\ UNCHANGED <<installed, followed>>
        /\ At(m, "bindSet")
    BY <1>1, <1>6, StepIs DEF Bind, TypeOK, WhoIsWho
  <2>2. Then(hand[m].todo, "unfollow")
    BY <1>4, <2>1 DEF Place, At, Busy
  <2>3. Stays(m, hand[m].saw) /\ hand'[m].todo # <<"read">> /\ ~At(m, "follow")'
    BY <1>1, <2>1, <2>2, GoesOn DEF TypeOK
  <2>4. hand[m].todo # Steps("followed")
    <3>1. Head(Steps("followed")) = "read"
      BY DEF Steps
    <3> QED BY <2>1, <3>1 DEF At
  <2>5. Choosing(m)' /\ hand'[m].op = "followed"
    BY <1>1, <1>3, <2>1, <2>3, <2>4 DEF Choosing, Stays
  <2> QED BY <1>2, <2>3, <2>5, ChosenByOne
<1>7. CASE Unfollow(m)
  <2>1. /\ Goes(m) /\ UNCHANGED installed /\ followed' = {} /\ At(m, "unfollow")
    BY <1>7 DEF Unfollow, Remaining
  <2>2. Then(hand[m].todo, "follow")
    BY <1>4, <2>1 DEF Place, At, Busy
  <2>3. Stays(m, hand[m].saw) /\ hand'[m].todo # <<"read">>
    BY <1>1, <2>1, <2>2, GoesOn DEF TypeOK
  <2>4. hand[m].todo # Steps("followed")
    <3>1. Head(Steps("followed")) = "read"
      BY DEF Steps
    <3> QED BY <2>1, <3>1 DEF At
  <2>5. Choosing(m)' /\ hand'[m].op = "followed"
    BY <1>1, <1>3, <2>1, <2>3, <2>4 DEF Choosing, Stays
  <2> QED BY <1>2, <2>3, <2>5, ChosenByOne
<1>8. CASE Follow(m)
  <2>1. At(m, "follow") /\ UNCHANGED installed
    BY <1>8 DEF Follow
  <2>2. hand[m].todo # Steps("followed")
    <3>1. Head(Steps("followed")) = "read"
      BY DEF Steps
    <3> QED BY <2>1, <3>1 DEF At
  <2>3. installed /\ followed = {}
    BY <1>3, <2>1, <2>2 DEF Choosing
  <2>4. Goes(m) /\ followed' = hand[m].arg
    BY <1>8, <2>3 DEF Follow
  <2>5. ToRedraw(hand[m].todo)
    BY <1>4, <2>1 DEF Place, At, Busy
  <2>6. Stays(m, hand[m].saw) /\ ~At(m, "follow")'
    BY <1>1, <2>4, <2>5, GoesOn DEF TypeOK
  <2>7. Choosing(m)' /\ followed' = chosen'
    BY <1>1, <1>3, <2>1, <2>3, <2>4, <2>6 DEF Choosing, Stays
  <2> QED BY <1>2, <2>7, ChosenByOne
<1> QED BY <1>5, <1>6, <1>7, <1>8

\* A binding to all goes on, and the set is dropped once it is no longer bound.
LEMMA ChosenAll ==
  ASSUME TypeOK, TypeOK', AloneInv, Alone("binding"), ChosenInv,
         NEW m \in Managers, hand[m].op = "all",
         Read(m) \/ Bind(m) \/ Unfollow(m)
  PROVE  ChosenInv'
<1>1. m \in Actors /\ Busy(m) /\ Works(m) /\ UNCHANGED chosen
  BY WhoIsWho, ManagerWorks DEF Read, Bind, Unfollow, ManagerStep, history
<1>2. \A b \in Managers : b # m =>
        hand[b].op \notin {"followed", "all"} /\ hand'[b].op \notin {"followed", "all"}
  <2>1. "binding" \in Parts(hand[m].op)
    BY BindsIs
  <2> QED BY <1>1, <2>1, WhoIsWho, ChoosesAlone DEF Alone, Works, Others
<1>3. hand'[m].op # "followed"
  BY <1>1, IdleIs DEF Works
<1>4. Place("all", hand[m].todo) /\ (binding.to = "set" => followed = chosen)
  BY <1>1, <1>2, PlaceIs, ChosenIs DEF TypeOK
<1>5. CASE Read(m)
  <2> DEFINE saw == hand[m].saw
  <2>1. Knowing(m, saw) /\ saw \in Readings
    <3>1. Parts("all") # {"timing"}
      BY BindsIs
    <3> QED BY <1>1, <1>5, <3>1, HandIs DEF Read, TypeOK
  <2>2. UNCHANGED <<binding, followed>> /\ At(m, "read")
    BY <1>5 DEF Read, Creates
  <2>3. Last(hand[m].todo) \/ Then(hand[m].todo, "bindAll")
    BY <1>4, <2>2 DEF Place, At, Busy
  <2>4. ~At(m, "unfollow")'
    <3> HIDE DEF saw
    <3> QED BY <1>1, <2>1, <2>3, MovesOn DEF TypeOK
  <2> QED BY <1>1, <1>2, <1>3, <1>4, <2>2, <2>4, ChosenByOne DEF Choosing
<1>6. CASE Bind(m)
  <2>1. UNCHANGED <<installed, followed>> /\ At(m, "bindAll") /\ SetBinding("all", NoRso)
    BY <1>1, <1>6, StepIs, WhoIsWho DEF Bind, TypeOK
  <2>2. binding'.to # "set"
    BY <2>1 DEF SetBinding, BoundTo, TypeOK, HeldTyped, Unanswered
  <2> QED BY <1>2, <1>3, <2>2, ChosenByOne DEF Choosing
<1>7. CASE Unfollow(m)
  <2>1. UNCHANGED <<installed, binding>> /\ At(m, "unfollow")
    BY <1>7 DEF Unfollow
  <2>2. binding.to # "set"
    BY <2>1, ChosenIs DEF Choosing
  <2> QED BY <1>2, <1>3, <2>1, <2>2, ChosenByOne DEF Choosing
<1> QED BY <1>5, <1>6, <1>7

\* A set chosen, where nothing of the binding is under way, is what will be followed.
LEMMA ChosenAnswered ==
  ASSUME TypeOK, Alone("binding"), Alone("binding")', ChosenInv,
         NEW m \in Managers, Answer(m)
  PROVE  ChosenInv'
<1>1. PICK verb, what :
        /\ verb \in Operations(m) \ {"none"}
        /\ Chooses(m, verb, what)
        /\ ~Busy(m) /\ Others(m)
        /\ hand'[m].op = verb /\ hand'[m].arg = (IF verb = "followed" THEN what ELSE {what})
        /\ hand'[m].todo = Steps(verb)
  BY AnswerTakes
<1>2. UNCHANGED <<binding, followed, installed>>
  BY <1>1 DEF Chooses, row
<1>3. hand[m].op = "none"
  BY <1>1, BusyIs, WhoIsWho DEF TypeOK
<1>4. \A b \in Managers : b # m => hand'[b] = hand[b]
  BY <1>1, WhoIsWho DEF Others
<1>5. CASE verb # "followed"
  <2>1. UNCHANGED chosen
    BY <1>1, <1>5 DEF Chooses
  <2>2. ~(hand'[m].op = "all" /\ At(m, "unfollow")')
    <3>1. Steps("all") = <<"read", "bindAll", "unfollow", "read">>
      BY DEF Steps
    <3> QED BY <1>1, <3>1 DEF At
  <2> QED BY <1>1, <1>2, <1>3, <1>4, <1>5, <2>1, <2>2, ChosenFramed
<1>6. CASE verb = "followed"
  <2>1. \A b \in Managers : b # m => hand'[b].op \notin {"followed", "all"}
    <3>1. ASSUME NEW b \in Managers, b # m, hand'[b].op \in {"followed", "all"}
          PROVE  FALSE
      <4>1. b \in Actors \ {m} /\ Busy(b) /\ "binding" \in Parts(hand[b].op)
        BY <1>4, <3>1, BusyIs, BindsIs, WhoIsWho DEF TypeOK
      <4>2. "binding" \in Parts(verb)
        BY <1>6, BindsIs
      <4>3. "binding" \in crossed'
        BY <1>1, <4>1, <4>2 DEF Chooses, Takes
      <4> QED BY <4>3 DEF Alone
    <3> QED BY <3>1
  <2>2. chosen' = what /\ hand'[m].arg = what
    BY <1>1, <1>6 DEF Chooses
  <2>3. hand'[m].todo = Steps("followed") /\ hand'[m].todo # <<"read">> /\ ~At(m, "follow")'
    <3>1. /\ Steps("followed") = <<"read", "bindSet", "unfollow", "follow", "read">>
      BY DEF Steps
    <3>2. Steps("followed") # <<"read">> /\ Head(Steps("followed")) = "read"
      BY <3>1
    <3> QED BY <1>1, <1>6, <3>2 DEF At
  <2> QED BY <1>1, <1>6, <2>1, <2>2, <2>3, ChosenByOne DEF Choosing
<1> QED BY <1>5, <1>6

LEMMA ChosenKept ==
  ASSUME TypeOK, ActorInv, AloneInv, ChosenInv, [Next]_vars
  PROVE  ChosenInv'
<1> SUFFICES ASSUME Alone("binding")'
             PROVE  ChosenInv'
  BY DEF ChosenInv
<1>1. /\ TypeOK' /\ Alone("binding") /\ ~Crash /\ \A a \in Actors : ~CallFails(a)
      /\ "binding" \notin crossed
  BY WhoMoves, AloneWas DEF Alone
<1>2. CASE \E m \in Managers : Answer(m)
  BY <1>1, <1>2, ChosenAnswered
<1>3. ASSUME NEW a \in Actors, ManagerStep(a)
      PROVE  ChosenInv'
  <2>1. Works(a)
    BY <1>3, ManagerWorks
  <2>2. CASE a \in Managers /\ hand[a].op \in {"followed", "all"} /\ ~Confirm(a)
    <3>1. \/ Read(a) \/ Bind(a) \/ Unfollow(a)
          \/ Follow(a) /\ hand[a].op = "followed"
      BY <1>3, <2>2, StepIs, WhoIsWho
         DEF ManagerStep, SetKind, Follow, ReadBinding, Report,
             SetTiming, SetChannel, ReadFeature, SetFeature, RemoveGuild, TypeOK
    <3> QED BY <1>1, <2>2, <3>1, ChosenFollowed, ChosenAll
  <2>3. ASSUME a \notin Managers \/ hand[a].op \notin {"followed", "all"}
        PROVE  /\ hand[a].op \notin {"followed", "all"} /\ hand'[a].op \notin {"followed", "all"}
    <3>1. hand[a].op \notin {"followed", "all"}
      BY <2>3, HandIs, WhoIsWho, WhoDoesWhat DEF TypeOK
    <3> QED BY <2>1, <3>1, IdleIs DEF Works
  <2>4. CASE RemoveGuild(a) /\ (a \notin Managers \/ hand[a].op \notin {"followed", "all"})
    <3>1. followed' = {} /\ chosen' = {}
      BY <2>4 DEF RemoveGuild
    <3>2. "binding" \in Parts(hand[a].op)
      BY <2>4, StepIs, BindsIs DEF RemoveGuild, TypeOK
    <3>3. \A b \in Managers : hand'[b].op \notin {"followed", "all"}
      BY <1>1, <2>1, <2>3, <2>4, <3>2, ChoosesAlone, WhoIsWho DEF Works, Others
    <3> QED BY <3>1, <3>3 DEF ChosenInv
  <2>5. CASE Bind(a) /\ (a \notin Managers \/ hand[a].op \notin {"followed", "all"})
    <3>1. ~At(a, "bindAll") /\ ~At(a, "bindSet")
      BY <2>3, <2>5, StepIs DEF TypeOK
    <3>2. /\ SetBinding("rso", Arg(a)) \/ SetBinding(Unanswered, NoRso)
          /\ At(a, "bindRso") \/ At(a, "disconnect")
      BY <2>5, <3>1 DEF Bind
    <3>3. "binding" \in Parts(hand[a].op)
      BY <3>2, StepIs, BindsIs DEF TypeOK
    <3>4. binding'.to # "set"
      BY <3>2 DEF SetBinding, BoundTo, TypeOK, HeldTyped, Unanswered
    <3>5. \A b \in Managers : hand'[b].op \notin {"followed", "all"}
      BY <1>1, <2>1, <2>3, <2>5, <3>3, ChoosesAlone, WhoIsWho DEF Works, Others
    <3> QED BY <3>4, <3>5 DEF ChosenInv
  <2>6. CASE ~RemoveGuild(a) /\ ~Bind(a) /\ (a \notin Managers \/ hand[a].op \notin {"followed", "all"})
    <3>1. ~Unfollow(a) /\ ~Follow(a)
      BY <2>3, <2>6, StepIs DEF Unfollow, Follow, TypeOK
    <3>2. UNCHANGED <<binding, followed, chosen>> /\ (installed => installed')
      BY <1>3, <2>6, <3>1, WhatChanges
    <3>3. \A m \in Managers : \/ hand'[m] = hand[m]
                              \/ hand[m].op \notin {"followed", "all"} /\ hand'[m].op # "followed"
                                   /\ ~(hand'[m].op = "all" /\ At(m, "unfollow")')
      BY <2>1, <2>3, <2>6, WhoIsWho DEF Works, Others
    <3> QED BY <1>1, <3>2, <3>3, ChosenFramed
  <2>7. Confirm(a) => hand[a].op = "bindrso"
    BY StepIs DEF Confirm, TypeOK
  <2> QED BY <2>2, <2>4, <2>5, <2>6, <2>7
<1>4. CASE (\A m \in Managers : ~Answer(m)) /\ \A a \in Actors : ~ManagerStep(a)
  <2>1. UNCHANGED <<binding, followed, chosen>> /\ (installed => installed')
    BY <1>4, WorldKeeps
  <2>2. ASSUME NEW m \in Managers
        PROVE  hand'[m] = hand[m]
    BY <1>1, <1>4, WhoActs, WhoIsWho
  <2> QED BY <1>1, <2>1, <2>2, ChosenFramed
<1> QED BY <1>2, <1>3, <1>4

-----------------------------------------------------------------------------
(* A server that is left: nobody but one manager at work can set it up.    *)

\* At most one manager was at work when the bot was removed, so any two at work are one.
LEMMA OneLeft ==
  ASSUME TypeOK, ActorInv, ~inServer, Cardinality(leaving) <= 1
  PROVE  \A m, n \in Managers : Busy(m) /\ Busy(n) => m = n
<1>1. leaving \subseteq Managers /\ IsFiniteSet(Managers)
  BY SetupAssumption DEF TypeOK, RestTyped
<1>2. IsFiniteSet(leaving)
  BY <1>1, FS_Subset
<1>3. ASSUME NEW m \in Managers, NEW n \in Managers, Busy(m), Busy(n), m # n
      PROVE  FALSE
  <2>1. {m, n} \subseteq leaving
    BY <1>3 DEF ActorInv
  <2>2. Cardinality({m, n}) = 2
    <3>1. IsFiniteSet({n}) /\ Cardinality({n}) = 1
      BY FS_Singleton
    <3>2. Cardinality({n} \cup {m}) = Cardinality({n}) + 1
      BY <1>3, <3>1, FS_AddElement
    <3>3. {n} \cup {m} = {m, n}
      OBVIOUS
    <3> QED BY <3>1, <3>2, <3>3
  <2>3. Cardinality({m, n}) <= Cardinality(leaving)
    BY <1>2, <2>1, FS_Subset
  <2>4. Cardinality(leaving) \in Nat
    BY <1>2, FS_CardinalityType
  <2> QED BY <2>2, <2>3, <2>4
<1> QED BY <1>3

\* The part of it that is about the managers.
Barely ==
  /\ kind = Unanswered \/ binding.to = Unanswered
  /\ \A m \in Managers : /\ hand[m].op = "kind" => binding.to = Unanswered
                         /\ "binding" \in Parts(hand[m].op) => kind = Unanswered

\* The bot was removed, and the removal has been acted on.
Gone == faults = 0 /\ ~inServer /\ ~At(Gateway, "removeGuild") /\ Cardinality(leaving) <= 1

LEMMA LeftIs == LeftInv <=> (Gone => Barely)
BY DEF LeftInv, Gone, Barely

\* Whoever is at work on a server that is left writes the kind or the binding, not both.
LEMMA LeftWorked ==
  ASSUME TypeOK, ActorInv, Barely, ~inServer, Cardinality(leaving) <= 1,
         NEW a \in Actors, ManagerStep(a), ~RemoveGuild(a)
  PROVE  Barely'
<1>1. Busy(a) /\ Works(a)
  BY ManagerWorks
<1>2. \A m \in Managers : /\ hand'[m].op = "kind" => hand[m].op = "kind"
                          /\ Parts(hand'[m].op) \subseteq Parts(hand[m].op)
  BY <1>1, IdleIs, WhoIsWho, WorksKeepsParts DEF Works, Others
<1>3. \A m, n \in Managers : Busy(m) /\ Busy(n) => m = n
  BY OneLeft
<1>4. \A m \in Managers : hand[m].op # "none" => Busy(m)
  BY BusyIs, WhoIsWho DEF TypeOK
<1>5. CASE SetKind(a)
  <2>1. a \in Managers /\ hand[a].op = "kind" /\ UNCHANGED binding
    BY <1>5, StepIs DEF SetKind, TypeOK
  <2>2. binding.to = Unanswered
    BY <2>1 DEF Barely
  <2>3. \A m \in Managers : "binding" \notin Parts(hand[m].op)
    BY <1>1, <1>3, <1>4, <2>1, BindsIs
  <2> QED BY <1>2, <2>1, <2>2, <2>3 DEF Barely
<1>6. CASE Bind(a)
  <2>1. UNCHANGED kind /\ (At(a, "disconnect") \/ (a \in Managers /\ "binding" \in Parts(hand[a].op)))
    BY <1>6, StepIs, BindsIs DEF Bind, TypeOK
  <2>2. CASE At(a, "disconnect")
    <3>1. ~At(a, "bindAll") /\ ~At(a, "bindSet") /\ ~At(a, "bindRso")
      BY <2>2 DEF At
    <3>2. binding'.to = Unanswered \/ binding' = binding
      BY <1>6, <3>1 DEF Bind, SetBinding, BoundTo
    <3> QED BY <1>2, <2>1, <3>2 DEF Barely
  <2>3. CASE a \in Managers /\ "binding" \in Parts(hand[a].op)
    <3>1. kind = Unanswered
      BY <2>3 DEF Barely
    <3>2. \A m \in Managers : hand[m].op # "kind"
      BY <1>1, <1>3, <1>4, <2>3, BindsIs
    <3> QED BY <1>2, <2>1, <3>1, <3>2 DEF Barely
  <2> QED BY <2>1, <2>2, <2>3
<1>7. CASE ~SetKind(a) /\ ~Bind(a)
  <2>1. UNCHANGED <<kind, binding>>
    BY <1>7, WhatChanges
  <2> QED BY <1>2, <2>1 DEF Barely
<1> QED BY <1>5, <1>6, <1>7

LEMMA LeftKept ==
  ASSUME TypeOK, ActorInv, LeftInv, [Next]_vars
  PROVE  LeftInv'
<1> SUFFICES ASSUME Gone'
             PROVE  Barely'
  BY LeftIs DEF LeftInv, Gone, Barely
<1>1. faults = 0 /\ ~Crash /\ \A a \in Actors : ~CallFails(a)
  BY NoticeBy DEF Gone
<1>2. CASE \E a \in Actors : RemoveGuild(a)
  <2>1. PICK a \in Actors : RemoveGuild(a)
    BY <1>2
  <2>2. kind' = Unanswered /\ binding'.to = Unanswered
    BY <2>1 DEF RemoveGuild, BoundTo
  <2> QED BY <2>2 DEF Barely
<1>3. ASSUME NEW a \in Actors, ManagerStep(a), ~RemoveGuild(a)
      PROVE  Barely'
  <2>1. UNCHANGED <<inServer, leaving>> /\ Works(a)
    BY <1>3, ManagerWorks DEF Around
  <2>2. ~At(Gateway, "removeGuild")
    <3>1. a = Gateway => Report(Gateway)
      BY <1>3, SharedSteps
    <3>2. a = Gateway => ~At(Gateway, "removeGuild")
      BY <3>1 DEF Report, At
    <3>3. a # Gateway => hand'[Gateway] = hand[Gateway]
      BY <2>1, WhoIsWho DEF Works, Others
    <3> QED BY <3>2, <3>3 DEF Gone, At, Busy
  <2>3. Gone /\ Barely
    BY <1>1, <2>1, <2>2, LeftIs DEF Gone
  <2> QED BY <1>3, <2>3, LeftWorked DEF Gone
<1>4. CASE \A a \in Actors : ~ManagerStep(a)
  <2>1. UNCHANGED <<kind, binding>>
    BY <1>4, WorldKeeps
  <2>2. ~GuildDelete
    <3>1. GuildDelete => hand'[Gateway].todo = <<"removeGuild", "forget">>
      BY RemovalTakes DEF Steps, OnGuildDelete
    <3> QED BY <3>1 DEF Gone, At, Busy
  <2>3. ~Join /\ \A m \in Managers : ~Answer(m)
    <3>1. ~inServer'
      BY DEF Gone
    <3>2. ~Join
      BY <3>1 DEF Join
    <3>3. ASSUME NEW m \in Managers, Answer(m)
          PROVE  inServer'
      <4>1. PICK verb, what : Chooses(m, verb, what)
        BY <3>3 DEF Answer
      <4> QED BY <4>1 DEF Chooses, outside
    <3> QED BY <3>1, <3>2, <3>3
  <2>4. hand'[Gateway] = hand[Gateway] /\ \A m \in Managers : hand'[m] = hand[m]
    BY <1>1, <1>4, <2>2, <2>3, WhoActs, WhoIsWho
  <2>5. UNCHANGED <<inServer, leaving>>
    <3>1. UNCHANGED vars \/ (\E step \in Commands : OpenCommand(step)) \/ Navigate \/ GuildCreate
            => UNCHANGED <<inServer, leaving>>
      BY DEF vars, OpenCommand, Navigate, GuildCreate, outside, history
    <3>2. DisconnectOnSite \/ (\E f \in Switchable : TakePost(f)) => UNCHANGED <<inServer, leaving>>
      BY DEF DisconnectOnSite, TakePost, outside, history
    <3>3. TakeInstruction \/ ReadInstruction \/ Advance => UNCHANGED <<inServer, leaving>>
      BY DEF TakeInstruction, ReadInstruction, Advance, outside, history
    <3>4. ChannelFor \/ Intend \/ SendNotice \/ RecordNotice => UNCHANGED <<inServer, leaving>>
      BY DEF ChannelFor, Intend, SendNotice, RecordNotice, outside, history
    <3> QED BY <1>1, <1>4, <2>2, <2>3, <3>1, <3>2, <3>3, <3>4, StepsOfNext
  <2>6. Gone
    BY <1>1, <2>4, <2>5 DEF Gone, At, Busy
  <2>7. Barely
    BY <2>6, LeftIs
  <2> QED BY <2>1, <2>4, <2>7 DEF Barely
<1> QED BY <1>2, <1>3, <1>4

-----------------------------------------------------------------------------
(* The theorems.                                                           *)

\* All of it together is inductive.
Inv ==
  /\ TypeOK /\ ActorInv /\ AloneInv
  /\ BindingInv /\ TheirsInv /\ BrokenInv /\ NoticeInv /\ TimingInv /\ ChosenInv /\ LeftInv

LEMMA InitInv == Init => Inv
<1> SUFFICES ASSUME Init
             PROVE  Inv
  OBVIOUS
<1>1. TypeOK
  BY InitTyped
<1>2. hand = [a \in Actors |-> Idle] /\ instructions = <<>> /\ inServer
  BY DEF Init
<1>3. /\ \A a \in Actors : hand[a] = Idle /\ ~Busy(a) /\ hand[a].op = "none" /\ hand[a].todo = <<>>
      /\ \A a \in Actors : \A step : ~At(a, step)
  BY <1>2, IdleIs DEF At, Busy
<1>4. ActorInv /\ AloneInv
  BY <1>2, <1>3, WhoIsWho, BindsIs DEF ActorInv, AloneInv, Parts
<1>5. BindingInv
  <2>1. binding.to # "rso"
    BY DEF Init, BoundTo, Unanswered
  <2> QED BY <1>2, <1>3, <2>1, WhoIsWho
          DEF BindingInv, ShownOrOwed, ReportsBound, EndsUnbound, LeftUnbound
<1>6. TheirsInv /\ BrokenInv
  BY <1>3, WhoIsWho DEF TheirsInv, BrokenInv
<1>7. NoticeInv
  BY <1>3, WhoIsWho DEF NoticeInv, Init
<1>8. TimingInv /\ ChosenInv
  <2>1. timing = answered /\ binding.to # "set"
    BY DEF Init, BoundTo, Unanswered
  <2> QED BY <1>3, <2>1, WhoIsWho DEF TimingInv, Timed, ChosenInv
<1>9. LeftInv
  BY <1>2 DEF LeftInv
<1> QED BY <1>1, <1>4, <1>5, <1>6, <1>7, <1>8, <1>9 DEF Inv

LEMMA NextInv == Inv /\ [Next]_vars => Inv'
BY WhoMoves, ActorKept, AloneKept, BindingKept, TheirsKept, BrokenKept, NoticeKept, TimingKept,
   ChosenKept, LeftKept DEF Inv

LEMMA InvAlways == Spec => []Inv
BY InitInv, NextInv, PTL DEF Spec

\* What the server holds, what each actor is at and what the panel shows stay of
\* their types: a server without a row holds nothing, and one that is not bound to
\* an organization names none (guilds/store.ts, commands/setup.ts).
THEOREM TypeCorrect == Spec => []TypeOK
<1>1. Inv => TypeOK
  BY DEF Inv
<1> QED BY <1>1, InvAlways, PTL

\* Once nobody is at work, a server bound to an organization is on its dashboard,
\* unless a call failed or two changed the binding at once (guilds/binding.ts, report).
THEOREM DashboardAlwaysKnows == Spec => []DashboardKnowsBound
<1>1. Inv => DashboardKnowsBound
  <2> SUFFICES ASSUME Inv, Quiet, faults = 0, "binding" \notin crossed, binding.to = "rso"
               PROVE  dashboard = binding.rso
    BY DEF DashboardKnowsBound
  <2>1. ShownOrOwed
    BY DEF Inv, BindingInv, Alone
  <2>2. ~Pending(binding.rso)
    BY DEF Quiet, Pending
  <2>3. \A m \in Managers : ~Reports(m)
    BY WhoIsWho, AtIsBusy DEF Quiet, Reports
  <2> QED BY <2>1, <2>2, <2>3 DEF ShownOrOwed
<1> QED BY <1>1, InvAlways, PTL

\* An instruction undoes the binding to the organization it names, and another's only
\* when a manager was binding at that moment (guilds/binding.ts, guild.unbound).
THEOREM OthersAreLeft == Spec => OthersLeftAlone
<1> DEFINE Undoes == At(Handler, "disconnect") /\ ~At(Handler, "disconnect")' /\ binding' # binding
                       => Arg(Handler) = binding.rso \/ "binding" \in crossed
<1>1. Inv => [Undoes]_vars
  BY DEF Inv, TheirsInv, IsTheirs
<1>2. OthersLeftAlone <=> [][Undoes]_vars
  BY PTL DEF OthersLeftAlone
<1> QED BY <1>1, <1>2, InvAlways, PTL

\* What the server holds is what was answered last: the set it follows is the set
\* chosen last, and its timing as it was answered, but for answers under way at the
\* same moment (guilds/store.ts, commands/setup.ts).
THEOREM HeldAsAnswered == Spec => []HeldIsAnswered
<1>1. Inv => HeldIsAnswered
  <2> SUFFICES ASSUME Inv, Quiet, faults = 0
               PROVE  /\ "binding" \notin crossed /\ binding.to = "set" => followed = chosen
                      /\ "timing" \notin crossed => timing = answered
    BY DEF HeldIsAnswered, FollowedIsChosen, TimingIsAnswered
  <2>1. \A m \in Managers : hand[m].op = "none"
    BY BusyIs, WhoIsWho DEF Inv, TypeOK, Quiet
  <2>2. "binding" \notin crossed /\ binding.to = "set" => followed = chosen
    BY <2>1 DEF Inv, ChosenInv, Alone
  <2>3. "timing" \notin crossed => timing = answered
    BY <2>1 DEF Inv, TimingInv, Alone, Timed
  <2> QED BY <2>2, <2>3
<1> QED BY <1>1, InvAlways, PTL

\* A server the bot has left is not set up, which would take two interactions under
\* way, and is on no dashboard (guilds/lifecycle.ts, commands/setup.ts).
THEOREM LeftStaysQuiet == Spec => []LeftIsQuiet
<1>1. Inv => LeftIsQuiet
  <2> SUFFICES ASSUME Inv, Quiet, faults = 0, ~inServer
               PROVE  /\ Cardinality(leaving) <= 1 => kind = Unanswered \/ binding.to = Unanswered
                      /\ "binding" \notin crossed => dashboard = NoRso
    BY DEF LeftIsQuiet
  <2>1. ~Busy(Gateway) /\ ~At(Gateway, "removeGuild")
    BY WhoIsWho, AtIsBusy DEF Quiet
  <2>2. Cardinality(leaving) <= 1 => kind = Unanswered \/ binding.to = Unanswered
    BY <2>1 DEF Inv, LeftInv
  <2>3. "binding" \notin crossed => dashboard = NoRso
    BY <2>1 DEF Inv, BindingInv, Alone, LeftUnbound
  <2> QED BY <2>2, <2>3
<1> QED BY <1>1, InvAlways, PTL

\* A post switches off only a feature that is on and has no channel, unless channels
\* or features were being changed at that moment, and that is told once, and again
\* only for a fault (guilds/channels.ts, guilds/disable.ts).
THEOREM DisabledWithCause == Spec => DisablesWithCause
<1> DEFINE Off == At(Poster, "switchOff") /\ ~At(Poster, "switchOff")' /\ changes' # changes
                    => \/ "channels" \in crossed \/ "features" \in crossed
                       \/ ~Bound(Arg(Poster), channels) /\ Enabled(Arg(Poster))
<1>1. Inv => [Off]_vars
  BY DEF Inv, BrokenInv
<1>2. Inv => NoticeOnce
  BY DEF Inv, NoticeInv, NoticeOnce
<1>3. DisablesOnlyBroken <=> [][Off]_vars
  BY PTL DEF DisablesOnlyBroken
<1> QED BY <1>1, <1>2, <1>3, InvAlways, PTL DEF DisablesWithCause

-----------------------------------------------------------------------------
(* Which panels lead to which, and what they offer together.                *)

Turning == {"open", "category", "purpose"}

\* A panel leads to another by a button or a menu, and to itself.
Leads(p, q) == p = q \/ \E offer \in Offers(p) : offer[1] \in Turning /\ q = PanelFor(offer)

LEMMA LeadsToItself == \A p : Leads(p, p)
  BY DEF Leads

LEMMA LeadsOn ==
  ASSUME NEW panels, NEW p \in panels, NEW q, Leads(p, q)
  PROVE  q \in Opened(panels)
BY DEF Leads, Turning, Opened

LEMMA AlongAWay ==
  ASSUME NEW p, NEW q1, NEW q2, NEW q3, NEW q4, NEW q5, NEW q6,
         Leads(p, q1), Leads(q1, q2), Leads(q2, q3),
         Leads(q3, q4), Leads(q4, q5), Leads(q5, q6)
  PROVE  Offers(q6) \subseteq Reached(p)
<1>1. q1 \in Opened({p})
  BY LeadsOn
<1>2. q2 \in Opened(Opened({p}))
  BY <1>1, LeadsOn
<1>3. q3 \in Opened(Opened(Opened({p})))
  BY <1>2, LeadsOn
<1>4. q4 \in Opened(Opened(Opened(Opened({p}))))
  BY <1>3, LeadsOn
<1>5. q5 \in Opened(Opened(Opened(Opened(Opened({p})))))
  BY <1>4, LeadsOn
<1>6. q6 \in Opened(Opened(Opened(Opened(Opened(Opened({p}))))))
  BY <1>5, LeadsOn
<1> QED BY <1>6 DEF Reached

\* A button opens the panel it names, the features at their first category.
LEMMA ButtonLeads ==
  ASSUME NEW p, NEW step, <<"open", step>> \in Offers(p)
  PROVE  Leads(p, IF step = "features" THEN Panel("features", FirstCategory) ELSE Panel(step, "none"))
<1> DEFINE offer == <<"open", step>>
           to == IF step = "features" THEN Panel("features", FirstCategory) ELSE Panel(step, "none")
<1>1. offer[1] = "open" /\ offer[2] = step
  OBVIOUS
<1> HIDE DEF offer
<1>2. PanelFor(offer) = to
  <2>1. CASE step = "features"
    BY <1>1, <2>1 DEF PanelFor
  <2>2. CASE step # "features"
    BY <1>1, <2>2 DEF PanelFor
  <2> QED BY <2>1, <2>2
<1>3. offer \in Offers(p)
  BY DEF offer
<1> QED BY <1>1, <1>2, <1>3 DEF Leads, Turning

Plain(step) == Panel(step, "none")
List == Panel("features", FirstCategory)

LEMMA MainButtons ==
  /\ \A p : p.step = "binding" =>
       \A step \in {"kind", "setMenu", "rsoMenu", "channels"} : Leads(p, Plain(step))
  /\ \A p : p.step = "kind" => Leads(p, Plain("binding"))
  /\ \A p : p.step = "menu" => Leads(p, Plain("binding"))
  /\ \A p : p.step = "channels" => Leads(p, Plain("binding")) /\ Leads(p, List)
  /\ \A p : p.step = "features" => Leads(p, Plain("channels")) /\ Leads(p, Plain("timing"))
  /\ \A p : p.step = "timing" => Leads(p, List)
  /\ \A p : p.step \in {"setMenu", "rsoMenu"} => Leads(p, Plain("binding"))
<1>1. ASSUME NEW p, p.step = "binding"
      PROVE  \A step \in {"kind", "setMenu", "rsoMenu", "channels"} : Leads(p, Plain(step))
  <2>1. \A step \in {"kind", "setMenu", "rsoMenu", "channels"} : <<"open", step>> \in Offers(p)
    BY <1>1 DEF Offers, BindingPanel, Opens
  <2> QED BY <2>1, ButtonLeads DEF Plain
<1>2. ASSUME NEW p, p.step = "kind" PROVE Leads(p, Plain("binding"))
  <2>1. <<"open", "binding">> \in Offers(p)
    BY <1>2 DEF Offers, KindPanel, Opens
  <2> QED BY <2>1, ButtonLeads DEF Plain
<1>3. ASSUME NEW p, p.step = "menu" PROVE Leads(p, Plain("binding"))
  <2>1. <<"open", "binding">> \in Offers(p)
    BY <1>3 DEF Offers, MenuPanel, Opens
  <2> QED BY <2>1, ButtonLeads DEF Plain
<1>4. ASSUME NEW p, p.step = "channels" PROVE Leads(p, Plain("binding")) /\ Leads(p, List)
  <2>1. <<"open", "binding">> \in Offers(p) /\ <<"open", "features">> \in Offers(p)
    BY <1>4 DEF Offers, ChannelsPanel, Opens
  <2> QED BY <2>1, ButtonLeads DEF Plain, List
<1>5. ASSUME NEW p, p.step = "features" PROVE Leads(p, Plain("channels")) /\ Leads(p, Plain("timing"))
  <2>1. <<"open", "channels">> \in Offers(p) /\ <<"open", "timing">> \in Offers(p)
    BY <1>5 DEF Offers, FeatureList, Opens
  <2> QED BY <2>1, ButtonLeads DEF Plain
<1>6. ASSUME NEW p, p.step = "timing" PROVE Leads(p, List)
  <2>1. <<"open", "features">> \in Offers(p)
    BY <1>6 DEF Offers, TimingPanel, Opens
  <2> QED BY <2>1, ButtonLeads DEF List
<1>7. ASSUME NEW p, p.step \in {"setMenu", "rsoMenu"} PROVE Leads(p, Plain("binding"))
  <2>1. <<"open", "binding">> \in Offers(p)
    BY <1>7 DEF Offers, RsoMenuPanel, Opens
  <2> QED BY <2>1, ButtonLeads DEF Plain
<1> QED BY <1>1, <1>2, <1>3, <1>4, <1>5, <1>6, <1>7

\* Every panel but the two leads to the binding, by way of two others at most.
LEMMA BackToBinding ==
  ASSUME NEW p, Fits(p), p.step \notin {"closed", "removal"}
  PROVE  \E q1, q2, q3 : /\ Leads(p, q1)
                         /\ Leads(q1, q2)
                         /\ Leads(q2, q3)
                         /\ q3.step = "binding"
<1>1. p.step \in {"kind", "binding", "setMenu", "rsoMenu", "channels", "features", "timing", "menu"}
  BY DEF Fits, PanelSteps
<1>2. /\ Leads(List, Plain("channels")) /\ Leads(Plain("channels"), Plain("binding"))
      /\ Plain("binding").step = "binding"
  <2>1. List.step = "features" /\ Plain("channels").step = "channels" /\ Plain("binding").step = "binding"
    BY DEF List, Plain, Panel
  <2> QED BY <2>1, MainButtons
<1>3. CASE p.step = "binding"
  BY <1>3, LeadsToItself
<1>4. CASE p.step \in {"kind", "menu", "setMenu", "rsoMenu", "channels"}
  BY <1>2, <1>4, MainButtons, LeadsToItself
<1>5. CASE p.step = "features"
  <2>1. Leads(p, Plain("channels"))
    BY <1>5, MainButtons
  <2> QED BY <1>2, <2>1, LeadsToItself
<1>6. CASE p.step = "timing"
  <2>1. Leads(p, List)
    BY <1>6, MainButtons
  <2> QED BY <1>2, <2>1
<1> QED BY <1>1, <1>3, <1>4, <1>5, <1>6

\* And from the binding everything that asks is three panels away.
LEMMA OnFromBinding ==
  ASSUME NEW p, p.step = "binding",
         NEW q, \/ \E step \in {"binding", "kind", "setMenu", "rsoMenu", "timing"} : q = Plain(step)
                \/ \E c \in Categories : q = Panel("features", c)
                \/ \E on \in BoundPurposes : q = [step |-> "channels", on |-> on, bound |-> on \in channels]
  PROVE  \E q1, q2 : /\ Leads(p, q1)
                     /\ Leads(q1, q2)
                     /\ Leads(q2, q)
<1>1. /\ Leads(p, Plain("channels")) /\ Leads(p, Plain("kind"))
      /\ Leads(Plain("channels"), List) /\ Leads(List, Plain("timing"))
      /\ Leads(Plain("kind"), Plain("binding"))
  <2>1. List.step = "features" /\ Plain("channels").step = "channels" /\ Plain("kind").step = "kind"
    BY DEF List, Plain, Panel
  <2> QED BY <2>1, MainButtons
<1>2. CASE \E step \in {"kind", "setMenu", "rsoMenu"} : q = Plain(step)
  BY <1>2, MainButtons, LeadsToItself
<1>3. CASE q = Plain("timing")
  BY <1>1, <1>3
<1>4. CASE q = Plain("binding")
  BY <1>1, <1>4, LeadsToItself
<1>5. ASSUME NEW c \in Categories, q = Panel("features", c) PROVE Leads(List, q)
  <2>1. <<"category", c>> \in Offers(List) /\ <<"category", c>>[1] \in Turning
    BY DEF List, Panel, Offers, FeatureList, Turning
  <2>2. PanelFor(<<"category", c>>) = q
    BY <1>5 DEF PanelFor
  <2> QED BY <2>1, <2>2 DEF Leads
<1>6. ASSUME NEW on \in BoundPurposes, q = [step |-> "channels", on |-> on, bound |-> on \in channels]
      PROVE  Leads(Plain("channels"), q)
  <2>1. <<"purpose", on>> \in Offers(Plain("channels")) /\ <<"purpose", on>>[1] \in Turning
    BY DEF Plain, Panel, Offers, ChannelsPanel, Turning
  <2>2. PanelFor(<<"purpose", on>>) = q
    BY <1>6 DEF PanelFor
  <2> QED BY <2>1, <2>2 DEF Leads
<1>7. CASE \E c \in Categories : q = Panel("features", c)
  BY <1>1, <1>5, <1>7, LeadsToItself
<1>8. CASE \E on \in BoundPurposes : q = [step |-> "channels", on |-> on, bound |-> on \in channels]
  BY <1>1, <1>6, <1>8, LeadsToItself
<1> QED BY <1>2, <1>3, <1>4, <1>7, <1>8

LEMMA CategoryIsListed == ASSUME NEW f \in Switchable PROVE FeatureById(f).category \in Categories
<1>1. f \in FeatureIds
  BY SetupAssumption DEF SetupAssumption
<1>2. FeatureById(f) \in Features
  BY <1>1 DEF FeatureIds, FeatureById
<1>3. \A x \in Features : x.category \in Categories
  BY DEF Features, Looking, Announcing, SettingUp, Following, Digesting, Examining, Asking, OnCampus,
         Editing, Scheduling, GivingRoles, Leaving, Command, InServer, Answers, Acts, Posts, PostsAndPins, Categories
<1> QED BY <1>2, <1>3

\* Each thing asked for is asked by a panel of those.
LEMMA AskedByAPanel ==
  ASSUME NEW offer \in Asked
  PROVE  \E q : /\ offer \in Offers(q)
                /\ \/ \E step \in {"binding", "kind", "setMenu", "rsoMenu", "timing"} : q = Plain(step)
                   \/ \E c \in Categories : q = Panel("features", c)
                   \/ \E on \in BoundPurposes : q = [step |-> "channels", on |-> on, bound |-> on \in channels]
<1>1. /\ Offers(Plain("kind")) = KindPanel /\ Offers(Plain("binding")) = BindingPanel
      /\ Offers(Plain("setMenu")) = RsoMenuPanel("setMenu") /\ Offers(Plain("rsoMenu")) = RsoMenuPanel("rsoMenu")
      /\ Offers(Plain("timing")) = TimingPanel /\ \A c : Offers(Panel("features", c)) = FeatureList(c)
  BY DEF Offers, Plain, Panel
<1>2. CASE offer \in KindPanel \cup BindingPanel \cup RsoMenuPanel("setMenu") \cup TimingPanel
  BY <1>1, <1>2
<1>3. ASSUME NEW rso \in Rsos, offer = <<"bindrso", rso>> PROVE offer \in Offers(Plain("rsoMenu"))
  <2>1. rso \in Menu
    BY <1>3 DEF Asked
  <2> QED BY <1>1, <1>3, <2>1 DEF RsoMenuPanel
<1>4. ASSUME NEW on \in BoundPurposes, offer = <<"channel", on>>
      PROVE  offer \in Offers([step |-> "channels", on |-> on, bound |-> on \in channels])
  BY <1>4, NoneIsNoPurpose DEF Offers, ChannelsPanel
<1>5. ASSUME NEW f \in Switchable, offer = <<"toggle", f>>
      PROVE  \E c \in Categories : offer \in Offers(Panel("features", c))
  BY <1>1, <1>5, CategoryIsListed DEF FeatureList
<1>6. offer[1] \notin {"unbind", "remove"} /\ offer \in AnyOffer
  BY DEF Asked
<1>7. \/ offer \in KindPanel \cup BindingPanel \cup RsoMenuPanel("setMenu") \cup TimingPanel
      \/ \E rso \in Rsos : offer = <<"bindrso", rso>>
      \/ \E on \in BoundPurposes : offer = <<"channel", on>>
      \/ \E f \in Switchable : offer = <<"toggle", f>>
  BY <1>6 DEF AnyOffer
<1> QED BY <1>2, <1>3, <1>4, <1>5, <1>7

\* Whatever panel is in front of the walker, every answer setup asks for is reached
\* from it by buttons and menus, but from the confirmation of the removal, and but
\* for the organizations that one menu does not hold (commands/setup.ts, the panels).
THEOREM AnswersStayInReach == Spec => []EveryAnswerInReach
<1>1. TypeOK => EveryAnswerInReach
  <2> SUFFICES ASSUME Fits(panel), panel.step \notin {"closed", "removal"}, NEW offer \in Asked
               PROVE  offer \in Reached(panel)
    BY DEF TypeOK, EveryAnswerInReach
  <2>1. PICK q : /\ offer \in Offers(q)
                 /\ \/ \E step \in {"binding", "kind", "setMenu", "rsoMenu", "timing"} : q = Plain(step)
                    \/ \E c \in Categories : q = Panel("features", c)
                    \/ \E on \in BoundPurposes : q = [step |-> "channels", on |-> on, bound |-> on \in channels]
    BY AskedByAPanel
  <2>2. PICK q1, q2, q3 : /\ Leads(panel, q1)
                          /\ Leads(q1, q2)
                          /\ Leads(q2, q3)
                          /\ q3.step = "binding"
    BY BackToBinding
  <2>3. PICK q4, q5 : /\ Leads(q3, q4)
                      /\ Leads(q4, q5)
                      /\ Leads(q5, q)
    BY <2>1, <2>2, OnFromBinding
  <2>4. Offers(q) \subseteq Reached(panel)
    BY <2>2, <2>3, AlongAWay
  <2> QED BY <2>1, <2>4
<1> QED BY <1>1, TypeCorrect, PTL

=============================================================================
