---------------------------- MODULE ServerSetup ----------------------------
(***************************************************************************)
(* What the bot holds for one server (guilds/store.ts) under those who     *)
(* write it: managers answering the setup panels (commands/setup.ts), the  *)
(* outbox handler that disconnects a server (guilds/binding.ts), the       *)
(* gateway announcing and removing servers (guilds/lifecycle.ts) and a     *)
(* post that finds no channel (guilds/channels.ts, guilds/disable.ts).     *)
(*                                                                         *)
(* Each of them is an actor working through the steps of one operation, a  *)
(* step ending at an await after which another actor may write.  What the  *)
(* web platform shows the boards is a copy of the binding that the bot     *)
(* reports.                                                                *)
(***************************************************************************)
EXTENDS Sequences, FiniteSets, FeatureRegistry, Naturals

CONSTANTS
  Managers,     \* the managers whose interactions may be under way at once
  Walker,       \* the one of them whose panel is followed when one is
  Rsos,         \* the organizations
  Menu,         \* the first of them, as many as one menu holds
  Days,         \* what a digest day or hour is chosen from
  FirstDay,     \* the default of both
  Switchable,   \* the features managers switch
  BoundPurposes, \* the purposes they bind channels to
  Scenes,       \* who takes part: [verbs, managers, walking, on, answers, events],
                \* on being the features switched on long ago, and the last two
                \* bounding the answers given and what happens outside
  MaxFaults     \* bound on failed calls and crashes

Handler == "handler"
Gateway == "gateway"
Poster == "poster"
Actors == Managers \cup {Handler, Gateway, Poster}

NoRso == "nobody"

ASSUME SetupAssumption ==
  /\ Walker \in Managers /\ IsFiniteSet(Managers) /\ Managers \cap {Handler, Gateway, Poster} = {}
  /\ Menu \subseteq Rsos /\ NoRso \notin Rsos
  /\ FirstDay \in Days
  /\ Switchable \subseteq FeatureIds /\ BoundPurposes \subseteq Purposes
  /\ \A s \in Scenes : /\ s.managers \subseteq Managers /\ s.on \subseteq Switchable
                       /\ s.answers \in Nat /\ s.events \in Nat
                       /\ {"open", "category", "purpose"} \cap s.verbs = {}
  \* fewer than the attempts after which the consumer gives an entry up
  /\ MaxFaults \in 0..4

Unanswered == "unanswered"
Kinds == {"rso", "community"}
FirstTiming == [day |-> FirstDay, hour |-> FirstDay, pinned |-> FALSE]
BoundTo(what, rso) == [to |-> what, rso |-> rso]

Nothing == [timing |-> FirstTiming, channels |-> {}, on |-> FALSE, rso |-> NoRso]
Hand(op, arg, todo, saw) == [op |-> op, arg |-> arg, todo |-> todo, saw |-> saw]
Idle == Hand("none", {}, <<>>, Nothing)
Panel(step, on) == [step |-> step, on |-> on, bound |-> FALSE]
Closed == Panel("closed", "none")

VARIABLES
  installed,  \* whether Guild_Installations has the server
  kind,       \* the kind of server, or Unanswered
  binding,    \* what it is bound to, and the organization when it is one
  timing,     \* the digest day, the hour, and whether digests are pinned
  followed,   \* Guild_Followed_Rsos
  channels,   \* Guild_Channels: the purposes a channel is bound to
  changes,    \* Guild_Features: "on", "off", or "unset" without a row
  notice,     \* the Deliveries row of the notice that a feature was switched off
  inServer,   \* Discord: whether the bot is in the server
  dashboard,  \* VIA: the organization whose dashboard shows the server
  instructions, \* the outbox: the organizations that disconnected the server
  hand,       \* what each actor is at: its operation, choice, steps and readings
  panel,      \* the panel the walker has in front of them
  scene,      \* who takes part in this behaviour
  answers, events, faults,
  chosen,     \* history: the last set of organizations chosen
  answered,   \* history: the timing as it was answered
  crossed,    \* history: the parts two actors were changing at once
  leaving,    \* history: the managers at work when the bot was removed
  told        \* history: the notices sent of each feature

row     == <<installed, kind, binding, timing, followed, channels, changes>>
outside == <<inServer, dashboard, instructions>>
budget  == <<answers, events, faults>>
history == <<chosen, answered, crossed, leaving, told>>
vars == <<row, notice, outside, hand, panel, scene, budget, history>>

-----------------------------------------------------------------------------
\* The operations, step by step.  The last read draws the next panel.

SaysTooEarly == <<"read", "confirm", "readBinding", "bindRso", "report", "read">>
BindToRso == <<"read", "confirm", "bindRso", "readBinding", "report", "read">>
OnlyRemoves == <<"removeGuild">>
OnGuildDelete == <<"removeGuild", "forget">>

Steps(op) ==
  CASE op = "kind"     -> <<"read", "setKind", "read">>
    [] op = "all"      -> <<"read", "bindAll", "unfollow", "read">>
    [] op = "followed" -> <<"read", "bindSet", "unfollow", "follow", "read">>
    [] op = "bindrso"  -> BindToRso
    [] op \in {"day", "hour"} -> <<"read", "setSchedule", "read">>
    [] op = "pinned"   -> <<"read", "setPinned", "read">>
    [] op = "channel"  -> <<"read", "bindChannel", "read">>
    [] op = "unbind"   -> <<"read", "unbindChannel", "read">>
    [] op = "toggle"   -> <<"read", "readFeature", "setFeature", "read">>
    [] op = "remove"   -> <<"removeGuild">>
    [] op = "unbound"  -> <<"readInstruction", "disconnect", "advance">>
    [] op = "leave"    -> OnGuildDelete
    [] op = "post"     -> <<"isEnabled", "listChannels", "switchOff", "getInstallation",
                            "intend", "sendNotice", "recordNotice">>
    [] OTHER           -> <<>>

\* The part of what is held that an operation writes.
Parts(op) ==
  CASE op = "kind" -> {"kind"}
    [] op \in {"all", "followed", "bindrso", "unbound"} -> {"binding"}
    [] op \in {"day", "hour", "pinned"} -> {"timing"}
    [] op \in {"channel", "unbind"} -> {"channels"}
    [] op \in {"toggle", "post"} -> {"channels", "features"}
    [] op \in {"remove", "leave"} -> {"kind", "binding", "timing", "channels", "features"}
    [] OTHER -> {}

Busy(a) == hand[a].todo # <<>>
At(a, step) == Busy(a) /\ Head(hand[a].todo) = step
Arg(a) == CHOOSE x \in hand[a].arg : TRUE
Enabled(f) == changes[f] = "on" \/ (changes[f] = "unset" /\ FeatureById(f).default)

Takes(a, op, arg) ==
  /\ ~Busy(a)
  /\ hand' = [hand EXCEPT ![a] = Hand(op, arg, Steps(op), Nothing)]
  /\ crossed' = crossed \cup
       {part \in Parts(op) : \E b \in Actors \ {a} : Busy(b) /\ part \in Parts(hand[b].op)}

\* The panel an operation leaves in front of whoever gave the answer.
PanelAfter(a) ==
  LET h == hand[a] IN
  CASE h.op = "kind" -> Panel("binding", "none")
    [] h.op \in {"all", "followed", "bindrso"} -> Panel("channels", "none")
    [] h.op \in {"day", "hour", "pinned"} -> Panel("timing", "none")
    [] h.op \in {"channel", "unbind"} ->
         [step |-> "channels", on |-> Arg(a), bound |-> Arg(a) \in channels]
    [] h.op = "toggle" -> Panel("features", FeatureById(Arg(a)).category)
    [] OTHER -> Closed

Follows(a, shown) == panel' = IF a = Walker /\ scene.walking THEN shown ELSE panel

\* The step is over, with what the actor now knows; the operation is over.
Knowing(a, saw) ==
  LET left == Tail(hand[a].todo) IN
  /\ hand' = [hand EXCEPT ![a] =
                IF left = <<>> THEN Idle ELSE Hand(@.op, @.arg, left, saw)]
  /\ IF left = <<>> THEN Follows(a, PanelAfter(a)) ELSE panel' = panel
Goes(a) == Knowing(a, hand[a].saw)
Skips(a, step) == hand' = [hand EXCEPT ![a] = Hand(@.op, @.arg, <<step>>, @.saw)] /\ panel' = panel
Stops(a) == hand' = [hand EXCEPT ![a] = Idle] /\ Follows(a, Closed)

Init ==
  /\ installed = TRUE
  /\ kind = Unanswered /\ binding = BoundTo(Unanswered, NoRso)
  /\ timing = FirstTiming /\ followed = {} /\ channels = {}
  /\ scene \in Scenes
  /\ changes = [f \in Switchable |-> IF f \in scene.on THEN "on" ELSE "unset"]
  /\ notice = [f \in Switchable |-> "absent"]
  /\ inServer = TRUE /\ dashboard = NoRso /\ instructions = <<>>
  /\ hand = [a \in Actors |-> Idle]
  /\ panel = Closed
  /\ answers = 0 /\ events = 0 /\ faults = 0
  /\ chosen = {} /\ answered = FirstTiming /\ crossed = {} /\ leaving = {}
  /\ told = [f \in Switchable |-> 0]

-----------------------------------------------------------------------------
\* The panels: what each offers, an answer or the panel a button opens.

Opens(steps) == {<<"open", step>> : step \in steps}

KindPanel == {<<"kind", k>> : k \in Kinds} \cup Opens({"binding", "closed"})
BindingPanel == {<<"all", "all">>} \cup Opens({"setMenu", "rsoMenu", "kind", "channels", "closed"})
RsoMenuPanel(step) ==
  (IF Menu = {} THEN Opens({"binding"})
   ELSE IF step = "setMenu" THEN {<<"followed", rsos>> : rsos \in SUBSET Menu \ {{}}}
   ELSE {<<"bindrso", rso>> : rso \in Menu})
    \cup (IF Menu = {} THEN {} ELSE Opens({"binding", "channels"}))
ChannelsPanel(on, bound) ==
  {<<"purpose", p>> : p \in BoundPurposes}
    \cup (IF on = "none" THEN {} ELSE {<<"channel", on>>})
    \cup (IF bound THEN {<<"unbind", on>>} ELSE {})
    \cup Opens({"binding", "features", "closed"})
NoWayToTiming(category) ==
  {<<"category", c>> : c \in Categories}
    \cup {<<"toggle", f>> : f \in {g \in Switchable : FeatureById(g).category = category}}
    \cup Opens({"channels", "closed"})
FeatureList(category) ==
  {<<"category", c>> : c \in Categories}
    \cup {<<"toggle", f>> : f \in {g \in Switchable : FeatureById(g).category = category}}
    \cup Opens({"channels", "timing", "closed"})
TimingPanel ==
  {<<verb, d>> : verb \in {"day", "hour"}, d \in Days} \cup {<<"pinned", "pinned">>}
    \cup Opens({"features", "closed"})
MenuPanel == Opens({"kind", "binding", "channels", "features", "timing", "closed"})

Offers(p) ==
  CASE p.step = "kind"     -> KindPanel
    [] p.step = "binding"  -> BindingPanel
    [] p.step \in {"setMenu", "rsoMenu"} -> RsoMenuPanel(p.step)
    [] p.step = "channels" -> ChannelsPanel(p.on, p.bound)
    [] p.step = "features" -> FeatureList(p.on)
    [] p.step = "timing"   -> TimingPanel
    [] p.step = "menu"     -> MenuPanel
    [] p.step = "removal"  -> {<<"remove", "remove">>}
    [] OTHER               -> {}

\* The panel a button or a menu of panel p opens.
PanelFor(offer) ==
  CASE offer[1] = "open" ->
         IF offer[2] = "features" THEN Panel("features", FirstCategory) ELSE Panel(offer[2], "none")
    [] offer[1] = "category" -> Panel("features", offer[2])
    [] offer[1] = "purpose" ->
         [step |-> "channels", on |-> offer[2], bound |-> offer[2] \in channels]
    [] OTHER -> Closed

\* Every panel reads the row it draws, and creates it when it is missing.
Creates ==
  /\ installed' = TRUE
  /\ UNCHANGED <<kind, binding, timing, followed, channels, changes>>

\* setup opens at the first question, config at the menu, remove at its
\* confirmation; the organization option of setup binds at once.
Commands == {"kind", "menu", "removal"}

OpenCommand(step) ==
  /\ scene.walking /\ inServer /\ ~Busy(Walker)
  /\ panel' = Panel(step, "none")
  /\ IF step = "removal" THEN installed /\ UNCHANGED row ELSE Creates
  /\ UNCHANGED <<notice, outside, hand, scene, budget, history>>

Navigate ==
  /\ scene.walking /\ inServer /\ ~Busy(Walker)
  /\ \E offer \in Offers(panel) :
       /\ offer[1] \in {"open", "category", "purpose"}
       /\ panel' = PanelFor(offer)
  /\ Creates
  /\ UNCHANGED <<notice, outside, hand, scene, budget, history>>

Chooses(m, verb, what) ==
  LET arg == IF verb = "followed" THEN what ELSE {what} IN
  /\ inServer /\ answers < scene.answers
  /\ Takes(m, verb, arg)
  /\ answers' = answers + 1
  /\ chosen' = IF verb = "followed" THEN arg ELSE chosen
  /\ answered' = CASE verb = "day" -> [answered EXCEPT !.day = what]
                   [] verb = "hour" -> [answered EXCEPT !.hour = what]
                   [] verb = "pinned" -> [answered EXCEPT !.pinned = ~@]
                   [] OTHER -> answered
  /\ UNCHANGED <<row, notice, outside, panel, scene, events, faults, leaving, told>>

\* Whatever any panel offers, from a panel opened earlier.
AnyOffer ==
  KindPanel \cup BindingPanel \cup RsoMenuPanel("setMenu") \cup TimingPanel
    \cup {<<"bindrso", rso>> : rso \in Rsos}
    \cup {<<verb, p>> : verb \in {"channel", "unbind"}, p \in BoundPurposes}
    \cup {<<"toggle", f>> : f \in Switchable} \cup {<<"remove", "remove">>}

Answer(m) ==
  \E offer \in IF scene.walking THEN Offers(panel) ELSE AnyOffer :
    /\ m \in scene.managers /\ (scene.walking => m = Walker)
    /\ offer[1] \in scene.verbs
    /\ Chooses(m, offer[1], offer[2])

-----------------------------------------------------------------------------
\* The steps of the managers' operations.  An update of a row that is gone
\* changes nothing; an insert that needs it is refused.

Read(a) ==
  /\ At(a, "read")
  /\ Creates
  /\ LET saw == hand[a].saw IN
     Knowing(a, IF Parts(hand[a].op) = {"timing"} THEN [saw EXCEPT !.timing = timing]
                ELSE IF hand[a].op = "toggle" THEN [saw EXCEPT !.channels = channels]
                ELSE saw)
  /\ UNCHANGED <<notice, outside, scene, budget, history>>

SetKind(a) ==
  /\ At(a, "setKind")
  /\ kind' = IF installed THEN Arg(a) ELSE kind
  /\ Goes(a)
  /\ UNCHANGED <<installed, binding, timing, followed, channels, changes,
                 notice, outside, scene, budget, history>>

\* A binding to no organization clears the one named before it.
KeepsRso(to, rso) ==
  binding' = IF installed THEN BoundTo(to, IF rso = NoRso THEN binding.rso ELSE rso) ELSE binding
SetBinding(to, rso) == binding' = IF installed THEN BoundTo(to, rso) ELSE binding

Bind(a) ==
  /\ \/ At(a, "bindAll") /\ SetBinding("all", NoRso)
     \/ At(a, "bindSet") /\ SetBinding("set", NoRso)
     \/ At(a, "bindRso") /\ SetBinding("rso", Arg(a))
     \/ At(a, "disconnect") /\ SetBinding(Unanswered, NoRso)
  /\ Goes(a)
  /\ UNCHANGED <<installed, kind, timing, followed, channels, changes,
                 notice, outside, scene, budget, history>>

\* The set is replaced: deleted, and then written anew.
RemainingUnread == followed
Remaining == {}
Unfollow(a) ==
  /\ At(a, "unfollow")
  /\ followed' = Remaining
  /\ Goes(a)
  /\ UNCHANGED <<installed, kind, binding, timing, channels, changes,
                 notice, outside, scene, budget, history>>

Follow(a) ==
  /\ At(a, "follow")
  /\ IF installed /\ followed \cap hand[a].arg = {}
     THEN followed' = followed \cup hand[a].arg /\ Goes(a)
     ELSE UNCHANGED followed /\ Stops(a)
  /\ UNCHANGED <<installed, kind, binding, timing, channels, changes,
                 notice, outside, scene, budget, history>>

\* VIA agrees that the manager may bind the server to the organization, or not.
Confirm(a) ==
  /\ At(a, "confirm")
  /\ Goes(a) \/ Stops(a)
  /\ UNCHANGED <<row, notice, outside, scene, budget, history>>

ReadBinding(a) ==
  /\ At(a, "readBinding")
  /\ Knowing(a, [hand[a].saw EXCEPT !.rso =
                   IF installed /\ binding.to = "rso" THEN binding.rso ELSE NoRso])
  /\ UNCHANGED <<row, notice, outside, scene, budget, history>>

\* The report of a binding to no organization forgets the server.
Report(a) ==
  /\ At(a, "report") \/ At(a, "forget")
  /\ dashboard' = IF At(a, "report") THEN hand[a].saw.rso ELSE NoRso
  /\ Goes(a)
  /\ UNCHANGED <<row, notice, inServer, instructions, scene, budget, history>>

\* The day and the hour are written together, the one not chosen as it was read.
Scheduled(a, saw) ==
  IF hand[a].op = "day" THEN [saw EXCEPT !.day = Arg(a)] ELSE [saw EXCEPT !.hour = Arg(a)]

SetTiming(a) ==
  /\ \/ /\ At(a, "setSchedule")
        /\ LET to == Scheduled(a, hand[a].saw.timing) IN
           timing' = IF installed THEN [to EXCEPT !.pinned = timing.pinned] ELSE timing
     \/ /\ At(a, "setPinned")
        /\ timing' = IF installed THEN [timing EXCEPT !.pinned = ~hand[a].saw.timing.pinned]
                     ELSE timing
  /\ Goes(a)
  /\ UNCHANGED <<installed, kind, binding, followed, channels, changes,
                 notice, outside, scene, budget, history>>

SetChannel(a) ==
  /\ \/ At(a, "bindChannel") /\ installed /\ channels' = channels \cup hand[a].arg /\ Goes(a)
     \/ At(a, "bindChannel") /\ ~installed /\ UNCHANGED channels /\ Stops(a)
     \/ At(a, "unbindChannel") /\ channels' = channels \ hand[a].arg /\ Goes(a)
  /\ UNCHANGED <<installed, kind, binding, timing, followed, changes,
                 notice, outside, scene, budget, history>>

Bound(f, bound) == FeatureById(f).purposes \subseteq bound

\* A feature off is switched on where its channels are bound and the bot has
\* the permissions it needs, and is explained and left where not.
BlockedReason(f, bound, permitted) == ~Bound(f, bound) \/ ~permitted

ReadFeature(a) ==
  /\ At(a, "readFeature")
  /\ \E permitted \in {FeatureById(Arg(a)).permissions = {}, TRUE} :
       IF ~Enabled(Arg(a)) /\ BlockedReason(Arg(a), hand[a].saw.channels, permitted)
       THEN Skips(a, "read")
       ELSE Knowing(a, [hand[a].saw EXCEPT !.on = Enabled(Arg(a))])
  /\ UNCHANGED <<row, notice, outside, scene, budget, history>>

\* The row of a feature refers to the server's, and cannot be without it.
SetFeature(a) ==
  LET to == IF At(a, "setFeature") /\ ~hand[a].saw.on THEN "on" ELSE "off" IN
  /\ At(a, "setFeature") \/ At(a, "switchOff")
  /\ IF installed THEN changes' = [changes EXCEPT ![Arg(a)] = to] /\ Goes(a)
     ELSE UNCHANGED changes /\ Stops(a)
  /\ UNCHANGED <<installed, kind, binding, timing, followed, channels,
                 notice, outside, scene, budget, history>>

\* One transaction deletes the server and all that hangs from it.
RemoveGuild(a) ==
  /\ At(a, "removeGuild")
  /\ installed' = FALSE
  /\ kind' = Unanswered /\ binding' = BoundTo(Unanswered, NoRso)
  /\ timing' = FirstTiming /\ followed' = {} /\ channels' = {}
  /\ changes' = [f \in Switchable |-> "unset"]
  /\ answered' = FirstTiming /\ chosen' = {}
  /\ Goes(a)
  /\ UNCHANGED <<notice, outside, scene, budget, crossed, leaving, told>>

ManagerStep(m) ==
  \/ Read(m) \/ SetKind(m) \/ Bind(m) \/ Unfollow(m) \/ Follow(m) \/ Confirm(m)
  \/ ReadBinding(m) \/ Report(m) \/ SetTiming(m) \/ SetChannel(m)
  \/ ReadFeature(m) \/ SetFeature(m) \/ RemoveGuild(m)

-----------------------------------------------------------------------------
\* The outbox: a board disconnects the server on the website, which shows it
\* no longer and says so to the bot.

DisconnectOnSite ==
  /\ events < scene.events
  /\ dashboard # NoRso
  /\ dashboard' = NoRso
  /\ instructions' = Append(instructions, dashboard)
  /\ events' = events + 1
  /\ UNCHANGED <<row, notice, inServer, hand, panel, scene, answers, faults, history>>

TakeInstruction ==
  /\ instructions # <<>>
  /\ Takes(Handler, "unbound", {Head(instructions)})
  /\ UNCHANGED <<row, notice, outside, panel, scene, budget,
                 chosen, answered, leaving, told>>

\* Whether the instruction is still about what the server is bound to.
AnyonesToUndo(rso) == installed /\ binding.to = "rso"
IsTheirs(rso) == installed /\ binding.rso = rso

ReadInstruction ==
  /\ At(Handler, "readInstruction")
  /\ IF IsTheirs(Arg(Handler)) THEN Goes(Handler)
     ELSE Skips(Handler, "advance")
  /\ UNCHANGED <<row, notice, outside, scene, budget, history>>

Advance ==
  /\ At(Handler, "advance")
  /\ instructions' = Tail(instructions)
  /\ Goes(Handler)
  /\ UNCHANGED <<row, notice, inServer, dashboard, scene, budget, history>>

HandlerStep == TakeInstruction \/ ReadInstruction \/ Bind(Handler) \/ Advance

-----------------------------------------------------------------------------
\* The gateway: every connection announces the server, and a removal is told
\* apart from an outage, of which nothing is heard here.

GuildCreate ==
  /\ inServer
  /\ ~installed
  /\ Creates
  /\ UNCHANGED <<notice, outside, hand, panel, scene, budget, history>>

Join ==
  /\ events < scene.events
  /\ ~inServer /\ ~Busy(Gateway)
  /\ inServer' = TRUE
  /\ Creates
  /\ events' = events + 1
  /\ leaving' = {}
  /\ UNCHANGED <<notice, dashboard, instructions, hand, panel, scene, answers, faults,
                 chosen, answered, crossed, told>>

GuildDelete ==
  /\ events < scene.events
  /\ inServer
  /\ inServer' = FALSE
  /\ Takes(Gateway, "leave", {})
  /\ events' = events + 1
  /\ leaving' = {m \in Managers : Busy(m)}
  /\ UNCHANGED <<row, notice, dashboard, instructions, panel, scene, answers, faults,
                 chosen, answered, told>>

GatewayStep == RemoveGuild(Gateway) \/ Report(Gateway)

-----------------------------------------------------------------------------
\* A post of a feature: where it goes, and what is done when it has nowhere.

TakePost(f) ==
  /\ events < scene.events
  /\ FeatureById(f).purposes # {} /\ "toggle" \in scene.verbs
  /\ Takes(Poster, "post", {f})
  /\ events' = events + 1
  /\ UNCHANGED <<row, notice, outside, panel, scene, answers, faults,
                 chosen, answered, leaving, told>>

NeverLooks(f) == FALSE
HasChannel(f) == Bound(f, channels)

\* Nothing to do for a feature that is off, one with a channel, a server that
\* is gone, or a notice that was sent before.
ChannelFor ==
  /\ \/ At(Poster, "isEnabled") /\ IF Enabled(Arg(Poster)) THEN Goes(Poster) ELSE Stops(Poster)
     \/ At(Poster, "listChannels")
          /\ IF HasChannel(Arg(Poster)) THEN Stops(Poster) ELSE Goes(Poster)
     \/ At(Poster, "getInstallation") /\ IF installed THEN Goes(Poster) ELSE Stops(Poster)
  /\ UNCHANGED <<row, notice, outside, scene, budget, history>>

SentBefore(f) == notice[f] = "posted"

Intend ==
  /\ At(Poster, "intend")
  /\ IF SentBefore(Arg(Poster)) THEN UNCHANGED notice /\ Stops(Poster)
     ELSE notice' = [notice EXCEPT ![Arg(Poster)] = "owed"] /\ Goes(Poster)
  /\ UNCHANGED <<row, outside, scene, budget, history>>

SendNotice ==
  /\ At(Poster, "sendNotice")
  /\ told' = [told EXCEPT ![Arg(Poster)] = @ + 1]
  /\ Goes(Poster)
  /\ UNCHANGED <<row, notice, outside, scene, budget, chosen, answered, crossed, leaving>>

RecordNotice ==
  /\ At(Poster, "recordNotice")
  /\ notice' = [notice EXCEPT ![Arg(Poster)] = "posted"]
  /\ Goes(Poster)
  /\ UNCHANGED <<row, outside, scene, budget, history>>

PosterStep == ChannelFor \/ SetFeature(Poster) \/ Intend \/ SendNotice \/ RecordNotice

-----------------------------------------------------------------------------
\* What goes wrong.

\* A call fails: the operation is over, but the failure of a report and of the
\* removal the gateway asked for is logged, and what comes after them is done.
Logged(a) == At(a, "report") \/ At(a, "forget") \/ (a = Gateway /\ At(a, "removeGuild"))

CallFails(a) ==
  /\ Busy(a) /\ faults < MaxFaults
  /\ IF Logged(a) THEN Goes(a)
     ELSE IF At(a, "readBinding")
     THEN Skips(a, "read")
     ELSE Stops(a)
  /\ faults' = faults + 1
  /\ UNCHANGED <<row, notice, outside, scene, answers, events, history>>

Crash ==
  /\ faults < MaxFaults
  /\ \E a \in Actors : Busy(a)
  /\ hand' = [a \in Actors |-> Idle]
  /\ panel' = Closed
  /\ faults' = faults + 1
  /\ UNCHANGED <<row, notice, outside, scene, answers, events, history>>

World ==
  \/ \E step \in Commands : OpenCommand(step)
  \/ Navigate
  \/ \E m \in Managers : Answer(m)
  \/ DisconnectOnSite \/ GuildCreate \/ Join \/ GuildDelete
  \/ \E f \in Switchable : TakePost(f)
  \/ \E a \in Actors : CallFails(a)
  \/ Crash

Next ==
  \/ World
  \/ \E m \in Managers : ManagerStep(m)
  \/ HandlerStep \/ GatewayStep \/ PosterStep

\* What is under way goes on, and the consumer polls; nobody has to answer.
Spec ==
  /\ Init /\ [][Next]_vars
  /\ \A m \in Managers : WF_vars(ManagerStep(m))
  /\ WF_vars(HandlerStep) /\ WF_vars(GatewayStep) /\ WF_vars(PosterStep)

-----------------------------------------------------------------------------
\* Properties.

Operations(a) ==
  CASE a = Handler -> {"none", "unbound"}
    [] a = Gateway -> {"none", "leave"}
    [] a = Poster  -> {"none", "post"}
    [] OTHER       -> {"none", "kind", "all", "followed", "bindrso", "day", "hour", "pinned",
                       "channel", "unbind", "toggle", "remove"}

\* What an operation may be about, and what may be left of it.
Singles(S) == {{x} : x \in S}
Choices(op) ==
  CASE op = "kind" -> Singles(Kinds)
    [] op = "followed" -> SUBSET Rsos
    [] op \in {"bindrso", "unbound"} -> Singles(Rsos)
    [] op \in {"day", "hour"} -> Singles(Days)
    [] op \in {"channel", "unbind"} -> Singles(BoundPurposes)
    [] op \in {"toggle", "post"} -> Singles(Switchable)
    [] op \in {"all", "pinned", "remove"} -> {{op}}
    [] OTHER -> {{}}
After(todo) == IF todo = <<>> THEN <<>> ELSE Tail(todo)
Ways(op) ==
  LET s1 == Steps(op)    s2 == After(s1)  s3 == After(s2)  s4 == After(s3)
      s5 == After(s4)    s6 == After(s5)  s7 == After(s6)
  IN {s1} \cup ({s2, s3, s4, s5, s6, s7} \ {<<>>})
Timings == [day : Days, hour : Days, pinned : BOOLEAN]
Readings ==
  [timing : Timings, channels : SUBSET BoundPurposes, on : BOOLEAN, rso : Rsos \cup {NoRso}]
Hands(a, op) == [op : Operations(a), arg : Choices(op), todo : Ways(op), saw : Readings]

PanelSteps == {"kind", "binding", "setMenu", "rsoMenu", "channels", "features",
               "timing", "menu", "removal", "closed"}

\* A server without a row holds nothing, and one not bound to an organization names none.
HeldTyped ==
  /\ installed \in BOOLEAN /\ kind \in Kinds \cup {Unanswered}
  /\ binding \in [to : {Unanswered, "rso", "all", "set"}, rso : Rsos \cup {NoRso}]
  /\ binding.to = "rso" <=> binding.rso \in Rsos
  /\ timing \in Timings
  /\ followed \subseteq Rsos /\ channels \subseteq BoundPurposes
  /\ changes \in [Switchable -> {"unset", "on", "off"}]
  /\ ~installed => /\ kind = Unanswered /\ binding.to = Unanswered /\ channels = {}
                   /\ followed = {} /\ \A f \in Switchable : changes[f] = "unset"

HandsTyped == DOMAIN hand = Actors /\ \A a \in Actors : hand[a] \in Hands(a, hand[a].op)

\* A binding is shown only of the purpose the channels are being bound to.
Fits(p) ==
  /\ p \in [step : PanelSteps, on : {p.on}, bound : BOOLEAN]
  /\ p.step = "channels" /\ p.on # "none" => p.on \in BoundPurposes
  /\ p.bound => p.step = "channels" /\ p.on # "none"

RestTyped ==
  /\ notice \in [Switchable -> {"absent", "owed", "posted"}]
  /\ inServer \in BOOLEAN /\ dashboard \in Rsos \cup {NoRso}
  /\ instructions \in Seq(Rsos) /\ Len(instructions) <= events
  /\ scene \in Scenes
  /\ answers \in 0..scene.answers /\ events \in 0..scene.events /\ faults \in 0..MaxFaults
  /\ chosen \subseteq Rsos /\ answered \in Timings
  /\ crossed \subseteq {"kind", "binding", "timing", "channels", "features"}
  /\ leaving \subseteq Managers /\ told \in [Switchable -> Nat]

\* The types of what is held, of who is at work, of the panel and of the rest.
TypeOK == HeldTyped /\ HandsTyped /\ Fits(panel) /\ RestTyped

Quiet == (\A a \in Actors : ~Busy(a)) /\ instructions = <<>>

\* The report that follows a binding is not lost to whatever else happens to the
\* server: once nobody is at work, a server bound to an organization is on that
\* organization's dashboard, unless a call failed or two changed the binding at
\* once (guilds/binding.ts, report; setup.ts, bindToRso).
DashboardKnowsBound ==
  Quiet /\ faults = 0 /\ "binding" \notin crossed /\ binding.to = "rso"
    => dashboard = binding.rso

\* An instruction undoes only the binding to the organization it names, though
\* it is read in one call and acted on in another: another organization's is
\* undone only when a manager was binding at that moment (binding.ts, guild.unbound).
OthersLeftAlone ==
  [][At(Handler, "disconnect") /\ ~At(Handler, "disconnect")' /\ binding' # binding
       => Arg(Handler) = binding.rso \/ "binding" \in crossed]_vars

\* A server that follows a chosen set follows the set chosen last, through moves
\* to an organization and to all and back, and through removals (store.ts,
\* setFollowedRsos deletes and then inserts).
FollowedIsChosen ==
  Quiet /\ faults = 0 /\ "binding" \notin crossed /\ binding.to = "set" => followed = chosen

\* Neither the day nor the hour nor the pin is lost to an answer about another of
\* them, though each is written from a row read before: only to one under way
\* at the same time (setup.ts, setup:digestday, setup:digesthour, setup:pinned).
TimingIsAnswered ==
  Quiet /\ faults = 0 /\ "timing" \notin crossed => timing = answered

\* What the server holds is what was answered last, and only answers under way
\* at the same moment are lost to one another (store.ts, setup.ts).
HeldIsAnswered == FollowedIsChosen /\ TimingIsAnswered

\* A server the bot has left is not set up and is on no dashboard, though an
\* interaction under way may create its row again: that takes two of them for
\* the setup, and one that reports for the dashboard (lifecycle.ts, readState).
LeftIsQuiet ==
  Quiet /\ faults = 0 /\ ~inServer =>
    /\ Cardinality(leaving) <= 1 => kind = Unanswered \/ binding.to = Unanswered
    /\ "binding" \notin crossed => dashboard = NoRso

\* A manager is told that a feature was switched off once, and again only for
\* a fault, however often it is switched on and loses its channel (disable.ts).
NoticeOnce == \A f \in Switchable : told[f] <= 1 + faults

\* A post switches off only what cannot work: where nobody is changing the
\* channels or the features at that moment, the feature has no channel and is
\* on, in three separate reads (channels.ts, disable.ts).
DisablesOnlyBroken ==
  [][At(Poster, "switchOff") /\ ~At(Poster, "switchOff")' /\ changes' # changes
       => \/ "channels" \in crossed \/ "features" \in crossed
          \/ ~Bound(Arg(Poster), channels) /\ Enabled(Arg(Poster))]_vars

\* A feature is switched off for a cause, and that is told once (disable.ts).
DisablesWithCause == []NoticeOnce /\ DisablesOnlyBroken

\* Whatever the panel, every answer setup asks for can be reached from it by
\* its buttons and menus, but from the confirmation of the removal, and but for
\* the organizations that one menu does not hold (setup.ts, rsoMenuPanel).
Opened(panels) == panels \cup
  {PanelFor(o) : o \in {x \in UNION {Offers(p) : p \in panels} : x[1] \in {"open", "category", "purpose"}}}
Reached(p) == UNION {Offers(q) : q \in Opened(Opened(Opened(Opened(Opened(Opened({p}))))))}

Asked == {o \in AnyOffer : o[1] \notin {"unbind", "remove", "open"} /\ (o[1] = "bindrso" => o[2] \in Menu)}

EveryAnswerInReach == scene.walking /\ panel.step \notin {"closed", "removal"} => Asked \subseteq Reached(panel)

\* An instruction of a board comes into force: after it is published, and until
\* the handler has read what it is about, the server will at some point not be
\* bound to that organization, whoever binds it meanwhile (guild.unbound).
ToBeRead(n) == n > 1 \/ ~(At(Handler, "disconnect") \/ At(Handler, "advance"))

InstructionsComeIntoForce ==
  \A rso \in Rsos :
    (\E n \in DOMAIN instructions : instructions[n] = rso /\ ToBeRead(n)) ~> (binding.rso # rso)

\* An instruction does what it says, and only to whom it names (guild.unbound).
InstructionsAreKept == OthersLeftAlone /\ InstructionsComeIntoForce

-----------------------------------------------------------------------------
\* What the proofs need: where each actor is, what is held is as far as it has come.

\* The part is in the hands of one actor at a time, unless it was crossed.
AloneInv ==
  \A a, b \in Actors : \A part \in Parts(hand[a].op) \cap Parts(hand[b].op) : a = b \/ part \in crossed

\* The handler is at the first instruction; the gateway is busy only with a server left.
ActorInv ==
  /\ Busy(Handler) => instructions # <<>> /\ hand[Handler].arg = {Head(instructions)}
  /\ Busy(Gateway) => ~inServer
  /\ ~inServer => \A m \in Managers : Busy(m) => m \in leaving

Alone(part) == faults = 0 /\ part \notin crossed
Pending(rso) ==
  \E n \in DOMAIN instructions : instructions[n] = rso /\ (n > 1 \/ ~At(Handler, "advance"))
Reports(m) == hand[m].op = "bindrso" /\ (At(m, "readBinding") \/ At(m, "report"))
BoundRso == IF binding.to = "rso" THEN binding.rso ELSE NoRso

\* What the handler undoes is still the binding the instruction names.
TheirsInv == At(Handler, "disconnect") => IsTheirs(Arg(Handler)) \/ "binding" \in crossed

\* What the dashboard does not show of the binding is on its way; a report, the end of
\* an instruction and the end of a removal are of the binding as it is; and a server
\* left is bound by nobody.
ShownOrOwed == binding.to = "rso" =>
  dashboard = binding.rso \/ Pending(binding.rso) \/ \E m \in Managers : Reports(m)
ReportsBound == \A m \in Managers : At(m, "report") => hand[m].saw.rso = BoundRso
EndsUnbound ==
  /\ At(Handler, "advance") => binding.rso # Arg(Handler)
  /\ At(Gateway, "forget") => binding.to = Unanswered
LeftUnbound == ~inServer =>
  /\ Busy(Gateway) \/ dashboard = NoRso
  /\ \A m \in Managers : "binding" \notin Parts(hand[m].op)

BindingInv == Alone("binding") => ShownOrOwed /\ ReportsBound /\ EndsUnbound /\ LeftUnbound

ChosenInv == Alone("binding") =>
  /\ \/ binding.to = "set" => followed = chosen
     \/ \E m \in Managers : hand[m].op = "followed" /\ hand[m].todo # <<"read">>
  /\ \A m \in Managers : hand[m].op = "followed" =>
       /\ chosen = hand[m].arg
       /\ At(m, "follow") => followed = {}
       /\ hand[m].todo # Steps("followed") => installed
       /\ hand[m].todo = <<"read">> => followed = chosen
  /\ \A m \in Managers : hand[m].op = "all" /\ At(m, "unfollow") => binding.to # "set"

Moved(m, t) ==
  CASE hand[m].op = "day"  -> [t EXCEPT !.day = Arg(m)]
    [] hand[m].op = "hour" -> [t EXCEPT !.hour = Arg(m)]
    [] OTHER               -> [t EXCEPT !.pinned = ~@]
Timed(m) == hand[m].op \in {"day", "hour", "pinned"}
TimingInv == Alone("timing") =>
  /\ \/ timing = answered
     \/ \E m \in Managers : Timed(m) /\ hand[m].todo # <<"read">>
  /\ \A m \in Managers : Timed(m) =>
       IF hand[m].todo = <<"read">> THEN timing = answered
       ELSE /\ answered = Moved(m, timing)
            /\ ~At(m, "read") => installed /\ hand[m].saw.timing = timing

LeftInv == faults = 0 /\ ~inServer /\ ~At(Gateway, "removeGuild") /\ Cardinality(leaving) <= 1 =>
  /\ kind = Unanswered \/ binding.to = Unanswered
  /\ \A m \in Managers :
       /\ hand[m].op = "kind" => binding.to = Unanswered
       /\ "binding" \in Parts(hand[m].op) => kind = Unanswered

NoticeInv == \A f \in Switchable :
  /\ told[f] <= 1 + faults
  /\ At(Poster, "sendNotice") /\ hand[Poster].arg = {f} => notice[f] = "owed"
  /\ notice[f] = "posted" \/ (At(Poster, "recordNotice") /\ hand[Poster].arg = {f}) \/ told[f] <= faults

BrokenInv == crossed \cap {"channels", "features"} = {} =>
  /\ At(Poster, "listChannels") => Enabled(Arg(Poster))
  /\ At(Poster, "switchOff") => Enabled(Arg(Poster)) /\ ~Bound(Arg(Poster), channels)

=============================================================================
