--------------------------- MODULE MembershipRoles ---------------------------
(***************************************************************************)
(* The membership roles of one person in one server (roles/membership.ts), *)
(* the grants the bot remembers (roles/grants.ts) and the directory that   *)
(* names the person (roles/directory.ts), under the three that call apply: *)
(* the outbox handlers (announce/membership.ts, identity/links.ts), the    *)
(* daily reconciliation (jobs/roleReconcile.ts) and the unlink command     *)
(* (commands/unlink.ts). Each goes on by itself between its awaits. The    *)
(* server stays bound to the one organization.                             *)
(***************************************************************************)
EXTENDS Integers, Sequences, FiniteSets, SequencesExt

CONSTANTS
  Actors,       \* which of the three there are
  Levels,       \* the memberships, as mappedRoleOf names them
  Roles,        \* the Discord roles of the server
  FirstMapping, \* the role mapped to each level at first, or NoRole
  Outside,      \* what the world around the bot may do
  MaxChanges,   \* bound on how often it does
  MaxFaults,    \* bound on crashes and failed calls
  Scenes        \* which of the actors run, what the world does, how often

Consumer == "consumer"
Reconcile == "reconcile"
Command == "command"
NoRole == "no role"
Nothing == "nothing"
Revoked == "revoked"

AllOutside ==
  {"membership", "link", "expire", "map", "switch", "permission", "hand", "leave"}

ASSUME RolesAssumption ==
  /\ Actors \subseteq {Consumer, Reconcile, Command}
  /\ FirstMapping \in [Levels -> Roles \cup {NoRole}]
  /\ IsFiniteSet(Roles) /\ NoRole \notin Roles
  /\ Nothing \notin Levels /\ Revoked \notin Levels
  /\ Outside \subseteq AllOutside
  /\ MaxChanges \in Nat
  /\ MaxFaults \in Nat
  /\ Scenes \subseteq [actors : SUBSET Actors, outside : SUBSET Outside,
                       changes : 0..MaxChanges]

VARIABLES
  membership,  \* VIA: the level the person has, or Nothing
  linked,      \* VIA: whether the account is linked
  entries,     \* the outbox: the level after each change, or Revoked
  known,       \* whether the directory names the person
  feature,     \* whether roles.membership is switched on
  permitted,   \* whether the bot may manage roles
  mapping,     \* Guild_Role_Mappings
  inServer,    \* whether the person is in the server
  has,         \* Discord: the roles the person has
  byHand,      \* history: those of them that somebody else gave
  grants,      \* Role_Grants: the roles the bot remembers giving
  asked,       \* history: the roles the bot ever gave
  pc, want, map, drop, then,  \* each actor: its place, the level it applies, the
               \* mapping it read, the roles it takes back, where it goes after
  scene,       \* which actors run, and the bounds on the world around them
  changes,     \* how much the world has done
  happened,    \* history: what kinds of thing that was
  faults       \* how many faults it has spent

via     == <<membership, linked, entries>>
server  == <<feature, permitted, mapping, inServer>>
discord == <<has, byHand>>
ours    == <<grants, asked>>
locals  == <<pc, want, map, drop, then>>
budget  == <<scene, changes, happened, faults>>
vars == <<via, known, server, discord, ours, locals, budget>>

Mapped(m) == {m[l] : l \in Levels} \ {NoRole}
RoleOrLevel(m, level) == IF level = Nothing THEN Nothing ELSE m[level]
RoleOf(m, level) == IF level = Nothing THEN NoRole ELSE m[level]
Wanted(a) == RoleOf(map[a], want[a])

Init ==
  /\ membership \in Levels \cup {Nothing}
  /\ linked = TRUE
  /\ entries = <<>>
  /\ known \in BOOLEAN
  /\ feature = TRUE
  /\ permitted = TRUE
  /\ mapping = FirstMapping
  /\ inServer = TRUE
  /\ has = {}
  /\ byHand = {}
  /\ grants = {}
  /\ asked = {}
  /\ pc = [a \in Actors |-> "idle"]
  /\ want = [a \in Actors |-> Nothing]
  /\ map = [a \in Actors |-> FirstMapping]
  /\ drop = [a \in Actors |-> <<>>]
  /\ then = [a \in Actors |-> "idle"]
  /\ scene \in Scenes
  /\ changes = 0
  /\ happened = {}
  /\ faults = 0

Goes(a, where) == pc' = [pc EXCEPT ![a] = where] /\ UNCHANGED <<want, map, drop, then>>

\* apply is called for a level, and something comes after it.
Applies(a, level, after) ==
  /\ want' = [want EXCEPT ![a] = level]
  /\ then' = [then EXCEPT ![a] = after]
  /\ pc' = [pc EXCEPT ![a] = "prepare"]
  /\ UNCHANGED <<map, drop>>

Returns(a) == Goes(a, then[a])

-----------------------------------------------------------------------------
\* The world around the bot.

Does(what) ==
  /\ what \in scene.outside
  /\ changes < scene.changes
  /\ changes' = changes + 1
  /\ happened' = happened \cup {what}
  /\ UNCHANGED <<scene, faults>>

ChangeMembership(level) ==
  /\ Does("membership")
  /\ level # membership
  /\ membership' = level
  /\ entries' = Append(entries, level)
  /\ UNCHANGED <<linked, known, server, discord, ours, locals>>

\* The link is removed on the website, or made again.
Unlinked == linked' = FALSE /\ entries' = IF linked THEN Append(entries, Revoked) ELSE entries

RevokeLink ==
  /\ Does("link")
  /\ linked
  /\ Unlinked
  /\ UNCHANGED <<membership, known, server, discord, ours, locals>>

Relink ==
  /\ Does("link")
  /\ ~linked
  /\ linked' = TRUE
  /\ UNCHANGED <<membership, entries, known, server, discord, ours, locals>>

Remap(level, role) ==
  /\ Does("map")
  /\ mapping[level] # role
  /\ mapping' = [mapping EXCEPT ![level] = role]
  /\ UNCHANGED <<via, known, feature, permitted, inServer, discord, ours, locals>>

Switch ==
  /\ Does("switch")
  /\ feature' = ~feature
  /\ UNCHANGED <<via, known, permitted, mapping, inServer, discord, ours, locals>>

ChangePermission ==
  /\ Does("permission")
  /\ permitted' = ~permitted
  /\ UNCHANGED <<via, known, feature, mapping, inServer, discord, ours, locals>>

GiveByHand(role) ==
  /\ Does("hand")
  /\ inServer /\ role \notin has
  /\ has' = has \cup {role}
  /\ byHand' = byHand \cup {role}
  /\ UNCHANGED <<via, known, server, ours, locals>>

TakeByHand(role) ==
  /\ Does("hand")
  /\ role \in has
  /\ has' = has \ {role}
  /\ byHand' = byHand \ {role}
  /\ UNCHANGED <<via, known, server, ours, locals>>

\* Somebody who leaves has no roles, and comes back with none.
LeaveOrReturn ==
  /\ Does("leave")
  /\ inServer' = ~inServer
  /\ has' = {} /\ byHand' = {}
  /\ UNCHANGED <<via, known, feature, permitted, mapping, ours, locals>>

\* Any command of the person teaches the directory who they are, and an hour
\* later it has forgotten.
Learn ==
  /\ ~known /\ linked
  /\ known' = TRUE
  /\ UNCHANGED <<via, server, discord, ours, locals, budget>>

Expire ==
  /\ Does("expire")
  /\ known
  /\ known' = FALSE
  /\ UNCHANGED <<via, server, discord, ours, locals>>

-----------------------------------------------------------------------------
\* The outbox handlers.

\* membership.changed: somebody the directory cannot name is passed over.
TakeChange ==
  /\ Consumer \in scene.actors
  /\ pc[Consumer] = "idle"
  /\ entries # <<>> /\ Head(entries) # Revoked
  /\ IF known THEN Applies(Consumer, Head(entries), "advance") ELSE Goes(Consumer, "advance")
  /\ UNCHANGED <<via, known, server, discord, ours, budget>>

\* link.revoked: what the bot holds goes, and then the directory forgets.
TakeRevoked ==
  /\ Consumer \in scene.actors
  /\ pc[Consumer] = "idle"
  /\ entries # <<>> /\ Head(entries) = Revoked
  /\ Goes(Consumer, "takeBack")
  /\ UNCHANGED <<via, known, server, discord, ours, budget>>

Advance ==
  /\ Consumer \in scene.actors
  /\ pc[Consumer] = "advance"
  /\ known' = (known /\ Head(entries) # Revoked)
  /\ entries' = Tail(entries)
  /\ Goes(Consumer, "idle")
  /\ UNCHANGED <<membership, linked, server, discord, ours, budget>>

-----------------------------------------------------------------------------
\* Unlinking.

\* The unlink command: the web platform first, and the directory with it.
Unlink ==
  /\ Command \in scene.actors
  /\ pc[Command] = "idle"
  /\ Does("link")
  /\ Unlinked
  /\ known' = (known /\ ~linked)
  /\ Goes(Command, "takeBack")
  /\ UNCHANGED <<membership, server, discord, ours>>

\* takeBackRoles: a server that holds a grant is applied to with no membership.
TakeBackRoles(a) ==
  /\ pc[a] = "takeBack"
  /\ IF grants = {} THEN Goes(a, "deleteGrants") ELSE Applies(a, Nothing, "deleteGrants")
  /\ UNCHANGED <<via, known, server, discord, ours, budget>>

\* The grants are deleted once apply has returned, whatever it did.
DeleteGrants(a) ==
  /\ pc[a] = "deleteGrants"
  /\ grants' = {}
  /\ Goes(a, IF a = Consumer THEN "advance" ELSE "idle")
  /\ UNCHANGED <<via, known, server, discord, asked, budget>>

-----------------------------------------------------------------------------
\* The daily reconciliation.

\* listRsoMembers, in a server that has mapped a role.
ReadMembers ==
  /\ Reconcile \in scene.actors
  /\ pc[Reconcile] = "idle"
  /\ Mapped(mapping) # {}
  /\ want' = [want EXCEPT ![Reconcile] = membership]
  /\ pc' = [pc EXCEPT ![Reconcile] = "name"]
  /\ UNCHANGED <<via, known, server, discord, ours, map, drop, then, budget>>

\* A member the directory names is applied; then everybody the bot gave a role
\* to who was not among them.
NameMember ==
  /\ Reconcile \in scene.actors
  /\ pc[Reconcile] = "name"
  /\ IF want[Reconcile] # Nothing /\ known
     THEN Applies(Reconcile, want[Reconcile], "idle")
     ELSE Goes(Reconcile, IF grants = {} THEN "idle" ELSE "roleIn")
  /\ UNCHANGED <<via, known, server, discord, ours, budget>>

\* roleIn: the link says what the person is now, and the directory learns it.
RoleIn ==
  /\ Reconcile \in scene.actors
  /\ pc[Reconcile] = "roleIn"
  /\ Applies(Reconcile, IF linked THEN membership ELSE Nothing, "idle")
  /\ known' = (known \/ linked)
  /\ UNCHANGED <<via, server, discord, ours, budget>>

-----------------------------------------------------------------------------
\* apply(), one await at a time.

\* The feature, the mapping, and the permission, without which the feature is
\* switched off.
Prepare(a) ==
  /\ pc[a] = "prepare"
  /\ map' = [map EXCEPT ![a] = mapping]
  /\ LET asks == feature /\ Mapped(mapping) # {} IN
       /\ feature' = (feature /\ (asks => permitted))
       /\ pc' = [pc EXCEPT ![a] =
            IF ~asks \/ ~permitted THEN then[a]
            ELSE IF RoleOf(mapping, want[a]) = NoRole THEN "mine" ELSE "held"]
  /\ UNCHANGED <<via, known, permitted, mapping, inServer, discord, ours,
                 want, drop, then, budget>>

\* A role the bot remembers giving is not given again.
Held(a) ==
  /\ pc[a] = "held"
  /\ Goes(a, IF Wanted(a) \in grants THEN "mine" ELSE "give")
  /\ UNCHANGED <<via, known, server, discord, ours, budget>>

\* addRole: somebody who has left is given nothing, and nothing is written down.
AddRole(a) ==
  /\ pc[a] = "give"
  /\ inServer => permitted
  /\ IF inServer
     THEN /\ has' = has \cup {Wanted(a)}
          /\ asked' = asked \cup {Wanted(a)}
          /\ Goes(a, "record")
     ELSE Goes(a, "mine") /\ UNCHANGED <<has, asked>>
  /\ UNCHANGED <<via, known, server, byHand, grants, budget>>

\* A permission that has gone since is thrown on.
AddRefused(a) ==
  /\ pc[a] = "give"
  /\ inServer /\ ~permitted
  /\ Goes(a, "idle")
  /\ UNCHANGED <<via, known, server, discord, ours, budget>>

Record(a) ==
  /\ pc[a] = "record"
  /\ grants' = grants \cup {Wanted(a)}
  /\ Goes(a, "mine")
  /\ UNCHANGED <<via, known, server, discord, asked, budget>>

\* What the bot gave and the person should no longer have: a role the server
\* has unmapped is left where it is.
AnyMapped(a) == Mapped(map[a]) \ {Wanted(a)}
NothingMine(a) == {}
Unwanted(a) == (grants \cap Mapped(map[a])) \ {Wanted(a)}

Mine(a) ==
  /\ pc[a] = "mine"
  /\ drop' = [drop EXCEPT ![a] = SetToSeq(Unwanted(a))]
  /\ pc' = [pc EXCEPT ![a] = IF Unwanted(a) = {} THEN then[a] ELSE "take"]
  /\ UNCHANGED <<via, known, server, discord, ours, want, map, then, budget>>

\* removeRole: nothing is taken from somebody who has left. A permission that
\* has gone since switches the feature off, and apply returns.
RemoveRole(a) ==
  /\ pc[a] = "take"
  /\ IF inServer => permitted
     THEN has' = has \ {Head(drop[a])} /\ Goes(a, "forget") /\ UNCHANGED feature
     ELSE feature' = FALSE /\ Returns(a) /\ UNCHANGED has
  /\ UNCHANGED <<via, known, permitted, mapping, inServer, byHand, ours, budget>>

ForgetsEvery(role) == {}
Forgets(role) == grants \ {role}

Forget(a) ==
  /\ pc[a] = "forget"
  /\ grants' = Forgets(Head(drop[a]))
  /\ drop' = [drop EXCEPT ![a] = Tail(@)]
  /\ pc' = [pc EXCEPT ![a] = IF Tail(drop[a]) = <<>> THEN then[a] ELSE "take"]
  /\ UNCHANGED <<via, known, server, discord, asked, want, map, then, budget>>

-----------------------------------------------------------------------------
\* Failures.

Fault == faults < MaxFaults /\ faults' = faults + 1 /\ UNCHANGED <<scene, changes, happened>>

\* A call fails: the entry is asked for again, the server waits for tomorrow,
\* the command answers that it went wrong.
CallFails(a) ==
  /\ pc[a] \notin {"idle", "advance"}
  /\ Fault
  /\ Goes(a, "idle")
  /\ UNCHANGED <<via, known, server, discord, ours>>

Crash ==
  /\ Fault
  /\ known' = FALSE
  /\ pc' = [a \in Actors |-> "idle"]
  /\ UNCHANGED <<via, server, discord, ours, want, map, drop, then>>

-----------------------------------------------------------------------------
Apply(a) ==
  \/ Prepare(a) \/ Held(a) \/ AddRole(a) \/ AddRefused(a) \/ Record(a)
  \/ Mine(a) \/ RemoveRole(a) \/ Forget(a)

Takes(a) == Apply(a) \/ TakeBackRoles(a) \/ DeleteGrants(a)

ConsumerStep == TakeChange \/ TakeRevoked \/ Advance
ReconcileStep == ReadMembers \/ NameMember \/ RoleIn

World ==
  \/ \E level \in Levels \cup {Nothing} : ChangeMembership(level)
  \/ RevokeLink \/ Relink \/ Unlink \/ Learn \/ Expire
  \/ \E level \in Levels, role \in Roles \cup {NoRole} : Remap(level, role)
  \/ Switch \/ ChangePermission \/ LeaveOrReturn
  \/ \E role \in Roles : GiveByHand(role) \/ TakeByHand(role)

Next ==
  \/ \E a \in Actors : Takes(a)
  \/ ConsumerStep \/ ReconcileStep
  \/ World
  \/ Crash \/ \E a \in Actors : CallFails(a)

Spec == Init /\ [][Next]_vars

\* The consumer polls, the reconciliation comes round every day, and each call
\* that has begun goes on.
FairSpec ==
  /\ Spec
  /\ \A a \in Actors : WF_vars(Takes(a))
  /\ WF_vars(ConsumerStep) /\ WF_vars(ReconcileStep)

-----------------------------------------------------------------------------
\* Properties.

TypeOK ==
  /\ membership \in Levels \cup {Nothing}
  /\ linked \in BOOLEAN /\ known \in BOOLEAN
  /\ entries \in Seq(Levels \cup {Nothing, Revoked})
  /\ feature \in BOOLEAN /\ permitted \in BOOLEAN /\ inServer \in BOOLEAN
  /\ mapping \in [Levels -> Roles \cup {NoRole}]
  /\ has \in SUBSET Roles
  /\ byHand \in SUBSET Roles
  /\ grants \in SUBSET Roles
  /\ asked \in SUBSET Roles
  /\ pc \in [Actors -> {"idle", "advance", "takeBack", "deleteGrants", "name", "roleIn",
                        "prepare", "held", "give", "record", "mine", "take", "forget"}]
  /\ want \in [Actors -> Levels \cup {Nothing}]
  /\ map \in [Actors -> [Levels -> Roles \cup {NoRole}]]
  /\ drop \in [Actors -> Seq(Roles)]
  /\ then \in [Actors -> {"idle", "advance", "deleteGrants"}]
  /\ scene \in Scenes
  /\ changes \in 0..MaxChanges
  /\ happened \in SUBSET Outside
  /\ faults \in 0..MaxFaults

\* Whoever calls apply, with whatever the mapping was when it read it, the bot
\* takes no role that it never gave: what goes without the world's doing was
\* once asked for by the bot itself.
OnlyGrantedAreTaken ==
  [][changes' = changes => has \ has' \subseteq asked]_vars

\* What every step keeps, and OnlyGrantedAreTaken follows from: what the bot
\* remembers giving, what an actor is about to record and what one is about to
\* take back were all once given by the bot.
GrantsInv ==
  /\ grants \subseteq asked
  /\ Consumer \in Actors /\ pc[Consumer] # "idle" => entries # <<>>
  /\ \A a \in Actors :
       /\ pc[a] \in {"held", "give", "record"} => Wanted(a) \in Roles
       /\ pc[a] = "record" => Wanted(a) \in asked
       /\ pc[a] \in {"take", "forget"} => drop[a] # <<>>
       /\ drop[a] \in Seq(asked)

\* The roles the person has from the bot and that nothing remembers any more.
Stranded ==
  (has \ byHand) \ (grants \cup {Wanted(a) : a \in {b \in Actors : pc[b] = "record"}})

\* With one loop alone, a role is stranded only by a fault between the call of
\* Discord and the record of it, whatever changes of membership, mapping and
\* permission come between; and revoking a link strands none, where nobody
\* switched the feature off, unmapped the roles or took the permission away.
\* (Where they did, apply returns at once and the grants are deleted all the
\* same; and of two loops, one forgets what the other has just recorded.)
Excused == "link" \in happened /\ happened \cap {"map", "permission", "switch"} # {}

StrandedCostsFaults ==
  \/ Cardinality(scene.actors) > 1
  \/ Excused
  \/ Cardinality(Stranded) <= faults

\* What the world has done shows in what the bot holds: roles are taken back at
\* the end of a link alone, the mapping is the first until it is changed, and
\* so is what was read and given by it.
TakingBack(a) ==
  \/ pc[a] \in {"takeBack", "deleteGrants"}
  \/ then[a] = "deleteGrants"
       /\ pc[a] \in {"prepare", "held", "give", "record", "mine", "take", "forget"}
Unchanged(what) == what \notin happened

WorldInv ==
  /\ \A a \in Actors : pc[a] # "idle" => a \in scene.actors
  /\ Unchanged("link") =>
       /\ \A n \in 1..Len(entries) : entries[n] # Revoked
       /\ \A a \in Actors : ~TakingBack(a)
  /\ Unchanged("map") =>
       /\ mapping = FirstMapping /\ \A a \in Actors : map[a] = FirstMapping
       /\ grants \subseteq Mapped(FirstMapping)
  /\ Unchanged("permission") => permitted /\ (Unchanged("switch") => feature)

\* Why one loop alone strands nothing for free: a role is forgotten once the
\* person has it no longer from the bot; and the roles taken back at the end of
\* a link are all there are, so that none is left when the grants are deleted.
AloneInv(a) ==
  /\ pc[a] = "forget" => Head(drop[a]) \notin has \ byHand
  /\ TakingBack(a) /\ ~Excused =>
       /\ pc[a] = "deleteGrants" => grants = {}
       /\ pc[a] \in {"prepare", "held", "give", "record", "mine"} =>
            pc[a] \in {"prepare", "mine"} /\ want[a] = Nothing
       /\ pc[a] \in {"take", "forget"} => grants \subseteq ToSet(drop[a])

StrandInv ==
  Cardinality(scene.actors) <= 1 =>
    /\ \A a \in Actors : AloneInv(a)
    /\ Excused \/ Cardinality(Stranded) <= faults

\* Once the world is quiet, the bot has taken back every mapped role it
\* remembers giving and the person should no longer have, the unlinked and the
\* unnamed ones too.
GrantsSettle ==
  LET level == IF linked THEN membership ELSE Nothing IN
  <>[](Reconcile \in scene.actors /\ feature /\ permitted =>
         grants \cap Mapped(mapping) \subseteq {RoleOf(mapping, level)})

\* roleReconcile.ts: somebody who has left the organization has the roles the
\* bot gave them taken back.
LeaverHasNothing ==
  <>[](membership = Nothing /\ feature /\ permitted => has \ byHand = {})
=============================================================================
