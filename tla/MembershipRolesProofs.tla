------------------------ MODULE MembershipRolesProofs ------------------------
(***************************************************************************)
(* Proofs about MembershipRoles, for any number of actors, levels, roles,  *)
(* changes of the world and faults.                                        *)
(***************************************************************************)
EXTENDS MembershipRoles, FiniteSetTheorems, SequenceTheorems, TLAPS

\* The roles that apply takes back, one after the other, are those it found.
LEMMA SetAsSeq ==
  ASSUME NEW S, IsFiniteSet(S)
  PROVE  SetToSeq(S) \in Seq(S) /\ (S # {} => SetToSeq(S) # <<>>)
<1>1. Cardinality(S) \in Nat /\ ExistsBijection(1..Cardinality(S), S)
  BY FS_CardinalityType
<1>2. \E f \in [1..Cardinality(S) -> S] : IsInjective(f)
  BY <1>1 DEF ExistsBijection, Bijection, Injection
<1>3. SetToSeq(S) \in [1..Cardinality(S) -> S]
  BY <1>2 DEF SetToSeq
<1>4. SetToSeq(S) \in Seq(S) /\ Len(SetToSeq(S)) = Cardinality(S)
  BY <1>1, <1>3
<1>5. S # {} => Cardinality(S) # 0
  BY FS_EmptySet
<1>6. QED
  BY <1>4, <1>5

\* What unwanted roles there are, the bot gave, and they are finitely many.
LEMMA UnwantedAreGranted ==
  ASSUME TypeOK, NEW a \in Actors
  PROVE  /\ Unwanted(a) \subseteq grants
         /\ SetToSeq(Unwanted(a)) \in Seq(Unwanted(a))
         /\ Unwanted(a) # {} => SetToSeq(Unwanted(a)) # <<>>
<1>1. Unwanted(a) \subseteq grants /\ grants \subseteq Roles
  BY DEF Unwanted, TypeOK
<1>2. IsFiniteSet(Unwanted(a))
  BY <1>1, FS_Subset, RolesAssumption DEF RolesAssumption
<1>3. QED
  BY <1>1, <1>2, SetAsSeq

LEMMA InitInvariant == Init => TypeOK /\ GrantsInv
  BY RolesAssumption DEF RolesAssumption, Init, TypeOK, GrantsInv

LEMMA BudgetTypes ==
  ASSUME TypeOK, NEW what, Does(what)
  PROVE  /\ scene' = scene
         /\ changes' \in 0..MaxChanges /\ happened' \in SUBSET Outside /\ faults' \in 0..MaxFaults
<1>1. scene.outside \subseteq Outside /\ scene.changes \in 0..MaxChanges
  BY RolesAssumption DEF RolesAssumption, TypeOK
<1>2. changes \in Nat /\ changes < MaxChanges /\ changes' = changes + 1
  BY <1>1, RolesAssumption DEF RolesAssumption, TypeOK, Does
<1>3. QED
  BY <1>1, <1>2, RolesAssumption DEF RolesAssumption, TypeOK, Does

LEMMA FaultTypes ==
  ASSUME TypeOK, Fault
  PROVE  /\ scene' = scene
         /\ changes' \in 0..MaxChanges /\ happened' \in SUBSET Outside /\ faults' \in 0..MaxFaults
<1>1. faults \in Nat /\ faults < MaxFaults /\ faults' = faults + 1
  BY RolesAssumption DEF RolesAssumption, TypeOK, Fault
<1>2. QED
  BY <1>1, RolesAssumption DEF RolesAssumption, TypeOK, Fault

\* What the world does leaves the actors where they are and their types right.
LEMMA WorldKeepsTypes ==
  ASSUME TypeOK, World
  PROVE  TypeOK'
<1> USE DEF TypeOK, server, via, discord, ours, locals, budget
<1>1. ASSUME NEW level \in Levels \cup {Nothing}, ChangeMembership(level)
      PROVE  TypeOK'
  <2>1. Does("membership")
    BY <1>1 DEF ChangeMembership
  <2>2. QED
    BY <1>1, <2>1, BudgetTypes DEF ChangeMembership
<1>2. CASE RevokeLink
  <2>1. Does("link") /\ entries' \in Seq(Levels \cup {Nothing, Revoked})
    BY <1>2 DEF RevokeLink, Unlinked
  <2>2. QED
    BY <1>2, <2>1, BudgetTypes DEF RevokeLink, Unlinked
<1>3. CASE Relink
  <2>1. Does("link")
    BY <1>3 DEF Relink
  <2>2. QED
    BY <1>3, <2>1, BudgetTypes DEF Relink
<1>4. CASE Unlink
  <2>1. Does("link") /\ entries' \in Seq(Levels \cup {Nothing, Revoked})
    BY <1>4 DEF Unlink, Unlinked
  <2>2. pc' = [pc EXCEPT ![Command] = "takeBack"] /\ known' \in BOOLEAN
    BY <1>4 DEF Unlink, Goes
  <2>3. QED
    BY <1>4, <2>1, <2>2, BudgetTypes DEF Unlink, Unlinked, Goes
<1>5. CASE Learn
  BY <1>5 DEF Learn
<1>6. CASE Expire
  <2>1. Does("expire")
    BY <1>6 DEF Expire
  <2>2. QED
    BY <1>6, <2>1, BudgetTypes DEF Expire
<1>7. ASSUME NEW level \in Levels, NEW role \in Roles \cup {NoRole}, Remap(level, role)
      PROVE  TypeOK'
  <2>1. Does("map")
    BY <1>7 DEF Remap
  <2>2. QED
    BY <1>7, <2>1, BudgetTypes DEF Remap
<1>8. CASE Switch \/ ChangePermission \/ LeaveOrReturn
  <2>1. Does("switch") \/ Does("permission") \/ Does("leave")
    BY <1>8 DEF Switch, ChangePermission, LeaveOrReturn
  <2>2. scene' = scene /\ changes' \in 0..MaxChanges /\ happened' \in SUBSET Outside
          /\ faults' \in 0..MaxFaults
    BY <2>1, BudgetTypes
  <2>3. feature' \in BOOLEAN /\ permitted' \in BOOLEAN /\ inServer' \in BOOLEAN
    BY <1>8 DEF Switch, ChangePermission, LeaveOrReturn
  <2>4. QED
    BY <1>8, <2>2, <2>3 DEF Switch, ChangePermission, LeaveOrReturn
<1>9. ASSUME NEW role \in Roles, GiveByHand(role) \/ TakeByHand(role)
      PROVE  TypeOK'
  <2>1. Does("hand")
    BY <1>9 DEF GiveByHand, TakeByHand
  <2>2. QED
    BY <1>9, <2>1, BudgetTypes DEF GiveByHand, TakeByHand
<1>10. QED
  BY <1>1, <1>2, <1>3, <1>4, <1>5, <1>6, <1>7, <1>8, <1>9 DEF World

\* A step of the handlers, the reconciliation or the command keeps the types:
\* GrantsInv is what makes the entry and the role in hand ones there are.
LEMMA ProcessKeepsTypes ==
  ASSUME TypeOK, GrantsInv,
         ConsumerStep \/ ReconcileStep \/ (\E a \in Actors : Takes(a)) \/ Crash
           \/ (\E a \in Actors : CallFails(a))
  PROVE  TypeOK'
<1> USE RolesAssumption DEF RolesAssumption, TypeOK, server, via, discord, ours, locals, budget, Goes
<1>1. CASE TakeChange
  <2>1. Head(entries) \in Levels \cup {Nothing}
    BY <1>1 DEF TakeChange
  <2>2. CASE known
    <3>1. /\ want' = [want EXCEPT ![Consumer] = Head(entries)]
          /\ then' = [then EXCEPT ![Consumer] = "advance"]
          /\ pc' = [pc EXCEPT ![Consumer] = "prepare"]
          /\ UNCHANGED <<map, drop>>
      BY <1>1, <2>2 DEF TakeChange, Applies
    <3>2. want' \in [Actors -> Levels \cup {Nothing}]
      BY <2>1, <3>1
    <3>3. QED
      BY <1>1, <3>1, <3>2 DEF TakeChange
  <2>3. CASE ~known
    BY <1>1, <2>3 DEF TakeChange
  <2>4. QED
    BY <2>2, <2>3
<1>2. CASE TakeRevoked
  BY <1>2 DEF TakeRevoked
<1>3. CASE Advance
  BY <1>3 DEF Advance, GrantsInv
<1>4. CASE ReadMembers
  BY <1>4 DEF ReadMembers
<1>5. CASE NameMember
  BY <1>5 DEF NameMember, Applies
<1>6. CASE RoleIn
  BY <1>6 DEF RoleIn, Applies
<1>7. ASSUME NEW a \in Actors, Prepare(a)
      PROVE  TypeOK'
  BY <1>7 DEF Prepare
<1>8. ASSUME NEW a \in Actors, Held(a) \/ AddRefused(a)
      PROVE  TypeOK'
  BY <1>8 DEF Held, AddRefused
<1>9. ASSUME NEW a \in Actors, AddRole(a)
      PROVE  TypeOK'
  <2>1. has' \in SUBSET Roles /\ asked' \in SUBSET Roles
    BY <1>9 DEF AddRole, GrantsInv
  <2>2. pc' = [pc EXCEPT ![a] = "record"] \/ pc' = [pc EXCEPT ![a] = "mine"]
    BY <1>9 DEF AddRole
  <2>3. QED
    BY <1>9, <2>1, <2>2 DEF AddRole
<1>10. ASSUME NEW a \in Actors, Record(a)
       PROVE  TypeOK'
  BY <1>10 DEF Record, GrantsInv
<1>11. ASSUME NEW a \in Actors, Mine(a)
       PROVE  TypeOK'
  <2>1. SetToSeq(Unwanted(a)) \in Seq(Roles)
    BY UnwantedAreGranted
  <2>2. QED
    BY <1>11, <2>1 DEF Mine
<1>12. ASSUME NEW a \in Actors, RemoveRole(a)
       PROVE  TypeOK'
  BY <1>12 DEF RemoveRole, Returns
<1>13. ASSUME NEW a \in Actors, Forget(a)
       PROVE  TypeOK'
  <2>1. drop[a] \in Seq(Roles) /\ drop[a] # <<>>
    BY <1>13 DEF Forget, GrantsInv
  <2>2. Tail(drop[a]) \in Seq(Roles)
    BY <2>1
  <2>3. QED
    BY <1>13, <2>2 DEF Forget, Forgets
<1>14. ASSUME NEW a \in Actors, TakeBackRoles(a)
       PROVE  TypeOK'
  BY <1>14 DEF TakeBackRoles, Applies
<1>15. ASSUME NEW a \in Actors, DeleteGrants(a)
       PROVE  TypeOK'
  BY <1>15 DEF DeleteGrants
<1>16. ASSUME NEW a \in Actors, CallFails(a)
       PROVE  TypeOK'
  BY <1>16, FaultTypes DEF CallFails
<1>17. CASE Crash
  BY <1>17, FaultTypes DEF Crash
<1>18. QED
  BY <1>1, <1>2, <1>3, <1>4, <1>5, <1>6, <1>7, <1>8, <1>9, <1>10, <1>11, <1>12, <1>13,
     <1>14, <1>15, <1>16, <1>17 DEF ConsumerStep, ReconcileStep, Takes, Apply

LEMMA SeqOfMore == ASSUME NEW S, NEW T, S \subseteq T, NEW s \in Seq(S) PROVE s \in Seq(T)
  OBVIOUS

\* The world takes no grant away and gives none.
LEMMA WorldKeepsGrants ==
  ASSUME TypeOK, GrantsInv, World
  PROVE  GrantsInv'
<1>1. UNCHANGED <<grants, asked, want, map, drop>>
  BY DEF World, ChangeMembership, RevokeLink, Relink, Unlink, Learn, Expire, Remap, Switch,
         ChangePermission, LeaveOrReturn, GiveByHand, TakeByHand, ours, locals, Goes
<1>2. \/ entries' = entries
      \/ \E e \in Levels \cup {Nothing, Revoked} : entries' = Append(entries, e)
  BY DEF World, ChangeMembership, RevokeLink, Relink, Unlink, Learn, Expire, Remap, Switch,
         ChangePermission, LeaveOrReturn, GiveByHand, TakeByHand, via, Unlinked
<1>3. entries # <<>> => entries' # <<>>
  BY <1>2 DEF TypeOK
<1>4. pc' = pc \/ pc' = [pc EXCEPT ![Command] = "takeBack"]
  BY DEF World, ChangeMembership, RevokeLink, Relink, Unlink, Learn, Expire, Remap, Switch,
         ChangePermission, LeaveOrReturn, GiveByHand, TakeByHand, locals, Goes
<1>5. \A a \in Actors : pc'[a] = pc[a] \/ (a = Command /\ pc'[a] = "takeBack")
  BY <1>4 DEF TypeOK
<1>6. \A a \in Actors : Wanted(a)' = Wanted(a)
  BY <1>1 DEF Wanted, RoleOf
<1>7. QED
  BY <1>1, <1>3, <1>5, <1>6 DEF GrantsInv, Command, Consumer

\* So does a step of the handlers, the reconciliation or the command: what is
\* given is asked for first, and what is taken back was granted.
LEMMA ProcessKeepsGrants ==
  ASSUME TypeOK, GrantsInv,
         ConsumerStep \/ ReconcileStep \/ (\E a \in Actors : Takes(a)) \/ Crash
           \/ (\E a \in Actors : CallFails(a))
  PROVE  GrantsInv'
<1> USE DEF TypeOK, GrantsInv, Wanted, RoleOf, Goes
<1>1. CASE TakeChange
  BY <1>1 DEF TakeChange, Applies, via, ours
<1>2. CASE TakeRevoked
  BY <1>2 DEF TakeRevoked, via, ours
<1>3. CASE Advance
  BY <1>3 DEF Advance, ours
<1>4. CASE ReadMembers
  BY <1>4 DEF ReadMembers, via, ours, Consumer, Reconcile
<1>5. CASE NameMember
  BY <1>5 DEF NameMember, Applies, via, ours, Consumer, Reconcile
<1>6. CASE RoleIn
  BY <1>6 DEF RoleIn, Applies, via, ours, Consumer, Reconcile
<1>7. ASSUME NEW a \in Actors, Prepare(a)
      PROVE  GrantsInv'
  BY <1>7 DEF Prepare, via, ours
<1>8. ASSUME NEW a \in Actors, Held(a) \/ AddRefused(a)
      PROVE  GrantsInv'
  BY <1>8 DEF Held, AddRefused, via, ours
<1>9. ASSUME NEW a \in Actors, AddRole(a)
      PROVE  GrantsInv'
  <2>1. asked \subseteq asked' /\ drop' = drop
    BY <1>9 DEF AddRole
  <2>2. \A b \in Actors : drop'[b] \in Seq(asked')
    BY <2>1, SeqOfMore
  <2>3. QED
    BY <1>9, <2>1, <2>2 DEF AddRole, via
<1>10. ASSUME NEW a \in Actors, Record(a)
       PROVE  GrantsInv'
  BY <1>10 DEF Record, via
<1>11. ASSUME NEW a \in Actors, Mine(a)
       PROVE  GrantsInv'
  <2>1. SetToSeq(Unwanted(a)) \in Seq(asked)
    BY UnwantedAreGranted, SeqOfMore
  <2>2. Unwanted(a) # {} => SetToSeq(Unwanted(a)) # <<>>
    BY UnwantedAreGranted
  <2>3. QED
    BY <1>11, <2>1, <2>2 DEF Mine, via, ours
<1>12. ASSUME NEW a \in Actors, RemoveRole(a)
       PROVE  GrantsInv'
  BY <1>12 DEF RemoveRole, Returns, via, ours
<1>13. ASSUME NEW a \in Actors, Forget(a)
       PROVE  GrantsInv'
  <2>1. drop[a] \in Seq(asked) /\ drop[a] # <<>>
    BY <1>13 DEF Forget
  <2>2. Tail(drop[a]) \in Seq(asked)
    BY <2>1
  <2>3. QED
    BY <1>13, <2>2 DEF Forget, Forgets, via
<1>14. ASSUME NEW a \in Actors, TakeBackRoles(a)
       PROVE  GrantsInv'
  BY <1>14 DEF TakeBackRoles, Applies, via, ours
<1>15. ASSUME NEW a \in Actors, DeleteGrants(a)
       PROVE  GrantsInv'
  BY <1>15 DEF DeleteGrants, via
<1>16. ASSUME NEW a \in Actors, CallFails(a)
       PROVE  GrantsInv'
  BY <1>16 DEF CallFails, via, ours
<1>17. CASE Crash
  BY <1>17 DEF Crash, via, ours
<1>18. QED
  BY <1>1, <1>2, <1>3, <1>4, <1>5, <1>6, <1>7, <1>8, <1>9, <1>10, <1>11, <1>12, <1>13,
     <1>14, <1>15, <1>16, <1>17 DEF ConsumerStep, ReconcileStep, Takes, Apply

-----------------------------------------------------------------------------
LEMMA Invariance == Spec => [](TypeOK /\ GrantsInv)
<1>1. TypeOK /\ GrantsInv /\ [Next]_vars => TypeOK' /\ GrantsInv'
  <2> SUFFICES ASSUME TypeOK, GrantsInv, [Next]_vars
               PROVE  TypeOK' /\ GrantsInv'
    OBVIOUS
  <2>1. CASE World
    BY <2>1, WorldKeepsTypes, WorldKeepsGrants
  <2>2. CASE ConsumerStep \/ ReconcileStep \/ (\E a \in Actors : Takes(a)) \/ Crash
               \/ (\E a \in Actors : CallFails(a))
    BY <2>2, ProcessKeepsTypes, ProcessKeepsGrants
  <2>3. CASE UNCHANGED vars
    BY <2>3 DEF vars, via, server, discord, ours, locals, budget, TypeOK, GrantsInv, Wanted, RoleOf
  <2>4. QED
    BY <2>1, <2>2, <2>3 DEF Next
<1>2. QED
  BY <1>1, InitInvariant, PTL DEF Spec

\* Every variable keeps its range: the actor that gives a role has one in hand,
\* and the consumer at work has an entry.
THEOREM TypeCorrect == Spec => []TypeOK
  BY Invariance, PTL

\* The grants in Role_Grants, and what an actor is about to record or to take
\* back, are roles the bot itself gave (apply, roles/membership.ts).
THEOREM GrantsAreTheBots == Spec => []GrantsInv
  BY Invariance, PTL

\* Whichever loops call apply at once, with whatever mapping each has read, the
\* bot takes no role that it never gave (removeRole, roles/membership.ts).
THEOREM OnlyGrantedAreEverTaken == Spec => OnlyGrantedAreTaken
<1>1. TypeOK /\ GrantsInv /\ [Next]_vars => (changes' = changes => has \ has' \subseteq asked)
  <2> SUFFICES ASSUME TypeOK, GrantsInv, [Next]_vars, changes' = changes
               PROVE  has \ has' \subseteq asked
    OBVIOUS
  <2>1. ASSUME NEW what, Does(what)
        PROVE  FALSE
    BY <2>1 DEF Does, TypeOK
  <2>2. CASE World
    BY <2>1, <2>2 DEF World, ChangeMembership, RevokeLink, Relink, Unlink, Learn, Expire, Remap,
         Switch, ChangePermission, LeaveOrReturn, GiveByHand, TakeByHand, discord
  <2>3. ASSUME NEW a \in Actors, RemoveRole(a)
        PROVE  has \ has' \subseteq asked
    <3>1. drop[a] \in Seq(asked) /\ drop[a] # <<>>
      BY <2>3 DEF RemoveRole, GrantsInv
    <3>2. Head(drop[a]) \in asked
      BY <3>1
    <3>3. QED
      BY <2>3, <3>2 DEF RemoveRole
  <2>4. ASSUME NEW a \in Actors, Takes(a), ~RemoveRole(a)
        PROVE  has \subseteq has'
    BY <2>4 DEF Takes, Apply, Prepare, Held, AddRole, AddRefused, Record, Mine, Forget,
         TakeBackRoles, DeleteGrants, discord
  <2>5. CASE ConsumerStep \/ ReconcileStep \/ Crash \/ (\E a \in Actors : CallFails(a))
    BY <2>5 DEF ConsumerStep, TakeChange, TakeRevoked, Advance, ReconcileStep, ReadMembers,
         NameMember, RoleIn, Crash, CallFails, discord
  <2>6. CASE UNCHANGED vars
    BY <2>6 DEF vars, discord
  <2>7. QED
    BY <2>2, <2>3, <2>4, <2>5, <2>6 DEF Next
<1>2. QED
  BY <1>1, Invariance, PTL DEF Spec, OnlyGrantedAreTaken

-----------------------------------------------------------------------------
\* What the world has done, and what the bot holds by it.

LEMMA WorldInvInit == Init => WorldInv /\ StrandInv
<1> SUFFICES ASSUME Init PROVE WorldInv /\ StrandInv
  OBVIOUS
<1>1. Stranded = {} /\ faults = 0 /\ Cardinality({}) = 0
  BY FS_EmptySet DEF Init, Stranded
<1>2. \A a \in Actors : pc[a] = "idle" /\ ~TakingBack(a)
  BY DEF Init, TakingBack
<1>3. StrandInv
  BY <1>1, <1>2 DEF StrandInv, AloneInv
<1>4. WorldInv
  BY <1>2 DEF Init, WorldInv, Unchanged
<1>5. QED
  BY <1>3, <1>4

\* The world turns off nothing without saying so, and what it does is not
\* undone: what has happened has happened.
LEMMA WorldTells ==
  ASSUME TypeOK, World
  PROVE  /\ scene' = scene /\ faults' = faults /\ happened \subseteq happened'
         /\ Unchanged("map") => ~Unchanged("map")' \/ mapping' = mapping
         /\ Unchanged("permission") => ~Unchanged("permission")' \/ permitted' = permitted
         /\ Unchanged("switch") => ~Unchanged("switch")' \/ feature' = feature
         /\ UNCHANGED <<grants, asked, want, map, drop, then>>
         /\ has' \ byHand' \subseteq has \ byHand
         /\ \/ UNCHANGED pc
            \/ /\ pc' = [pc EXCEPT ![Command] = "takeBack"] /\ pc[Command] = "idle"
               /\ Command \in scene.actors /\ ~Unchanged("link")'
         /\ \/ UNCHANGED entries
            \/ ~Unchanged("link")'
            \/ \E level \in Levels \cup {Nothing} : entries' = Append(entries, level)
<1> USE DEF Does, Unchanged, via, server, discord, ours, locals, budget
<1>1. ASSUME NEW level \in Levels \cup {Nothing}, ChangeMembership(level)
      PROVE  /\ happened' = happened \cup {"membership"}
             /\ entries' = Append(entries, level)
             /\ UNCHANGED <<server, discord, ours, locals, scene, faults>>
  BY <1>1 DEF ChangeMembership
<1>2. CASE RevokeLink \/ Relink
  BY <1>2 DEF RevokeLink, Relink, Unlinked
<1>3. CASE Unlink
  BY <1>3 DEF Unlink, Unlinked, Goes
<1>4. CASE Learn \/ Expire
  BY <1>4 DEF Learn, Expire
<1>5. ASSUME NEW level \in Levels, NEW role \in Roles \cup {NoRole}, Remap(level, role)
      PROVE  /\ happened' = happened \cup {"map"}
             /\ UNCHANGED <<via, feature, permitted, discord, ours, locals, scene, faults>>
  BY <1>5 DEF Remap
<1>6. CASE Switch \/ ChangePermission \/ LeaveOrReturn
  BY <1>6 DEF Switch, ChangePermission, LeaveOrReturn
<1>7. ASSUME NEW role \in Roles, GiveByHand(role) \/ TakeByHand(role)
      PROVE  /\ happened' = happened \cup {"hand"}
             /\ has' \ byHand' \subseteq has \ byHand
             /\ UNCHANGED <<via, server, ours, locals, scene, faults>>
  BY <1>7 DEF GiveByHand, TakeByHand
<1>8. QED
  BY <1>1, <1>2, <1>3, <1>4, <1>5, <1>6, <1>7 DEF World

LEMMA WorldInvAtWorld ==
  ASSUME TypeOK, WorldInv, World
  PROVE  WorldInv'
<1>1. \A what : Unchanged(what)' => Unchanged(what)
  BY WorldTells DEF Unchanged
<1>2. \A a \in Actors : pc'[a] = pc[a] \/ (a \in scene.actors /\ pc'[a] = "takeBack"
                                            /\ ~Unchanged("link")')
  BY WorldTells DEF TypeOK
<1>3. \A a \in Actors : pc'[a] # "idle" => a \in scene'.actors
  BY <1>2, WorldTells DEF WorldInv
<1>4. ASSUME Unchanged("link")'
      PROVE  /\ \A n \in 1..Len(entries') : entries'[n] # Revoked
             /\ \A a \in Actors : ~TakingBack(a)'
  <2>1. Unchanged("link") /\ pc' = pc /\ then' = then
    BY <1>1, <1>4, WorldTells
  <2>2. UNCHANGED entries \/ \E level \in Levels \cup {Nothing} : entries' = Append(entries, level)
    BY <1>4, WorldTells
  <2>3. \A level \in Levels \cup {Nothing} : level # Revoked
    BY RolesAssumption DEF RolesAssumption, Nothing, Revoked
  <2>4. \A n \in 1..Len(entries') : entries'[n] # Revoked
    <3>1. \A n \in 1..Len(entries) : entries[n] # Revoked
      BY <2>1 DEF WorldInv
    <3>2. entries \in Seq(Levels \cup {Nothing, Revoked}) /\ Len(entries) \in Nat
      BY DEF TypeOK
    <3>3. ASSUME NEW level \in Levels \cup {Nothing}, entries' = Append(entries, level)
          PROVE  \A n \in 1..Len(entries') : entries'[n] # Revoked
      <4>1. Len(entries') = Len(entries) + 1
        BY <3>2, <3>3
      <4>2. ASSUME NEW n \in 1..Len(entries')
            PROVE  entries'[n] = IF n = Len(entries) + 1 THEN level ELSE entries[n]
        BY <3>2, <3>3, <4>1
      <4>3. QED
        BY <2>3, <3>1, <3>2, <4>1, <4>2
    <3>4. QED
      BY <2>2, <3>1, <3>3
  <2>5. QED
    BY <2>1, <2>4 DEF WorldInv, TakingBack
<1>5. Unchanged("map")' =>
        /\ mapping' = FirstMapping /\ \A a \in Actors : map'[a] = FirstMapping
        /\ grants' \subseteq Mapped(FirstMapping)
  BY <1>1, WorldTells DEF WorldInv
<1>6. Unchanged("permission")' => permitted' /\ (Unchanged("switch")' => feature')
  BY <1>1, WorldTells DEF WorldInv
<1>7. QED
  BY <1>3, <1>4, <1>5, <1>6 DEF WorldInv

\* What an actor may give: a role of the mapping it read, for a level there is.
LEMMA WantedIsMapped ==
  ASSUME TypeOK, GrantsInv, NEW a \in Actors, pc[a] \in {"held", "give", "record"}
  PROVE  Wanted(a) \in Mapped(map[a]) /\ want[a] # Nothing
<1>1. Wanted(a) \in Roles /\ Wanted(a) # NoRole
  BY RolesAssumption DEF RolesAssumption, GrantsInv
<1>2. want[a] # Nothing /\ want[a] \in Levels /\ Wanted(a) = map[a][want[a]]
  BY <1>1 DEF Wanted, RoleOf, TypeOK
<1>3. QED
  BY <1>1, <1>2 DEF Mapped

\* A step of the bot.
Process == ConsumerStep \/ ReconcileStep \/ (\E a \in Actors : Takes(a) \/ CallFails(a)) \/ Crash

LEMMA WorldInvAtProcess ==
  ASSUME TypeOK, GrantsInv, WorldInv, Process
  PROVE  WorldInv'
<1> USE DEF TypeOK, WorldInv, TakingBack, Unchanged, Goes, via, server, discord, ours, locals, budget
<1>0. Head(entries) = entries[1] /\ (entries # <<>> => 1 \in 1..Len(entries))
  BY EmptySeq DEF TypeOK
<1>1. CASE TakeChange
  BY <1>1 DEF TakeChange, Applies
<1>2. CASE TakeRevoked
  BY <1>0, <1>2 DEF TakeRevoked
<1>3. CASE Advance
  <2>0. Consumer \in Actors /\ pc[Consumer] # "idle"
    BY <1>3, RolesAssumption DEF RolesAssumption, Advance
  <2>1. entries # <<>>
    BY <2>0 DEF GrantsInv
  <2>2. \A n \in 1..Len(Tail(entries)) : Tail(entries)[n] = entries[n + 1] /\ n + 1 \in 1..Len(entries)
    BY <2>1
  <2>3. QED
    BY <1>3, <2>2 DEF Advance
<1>4. CASE ReadMembers \/ NameMember \/ RoleIn
  BY <1>4 DEF ReadMembers, NameMember, RoleIn, Applies
<1>5. ASSUME NEW a \in Actors, TakeBackRoles(a) \/ DeleteGrants(a)
      PROVE  WorldInv'
  BY <1>5 DEF TakeBackRoles, DeleteGrants, Applies
<1>6. ASSUME NEW a \in Actors, Prepare(a)
      PROVE  WorldInv'
  BY <1>6 DEF Prepare
<1>7. ASSUME NEW a \in Actors, Held(a) \/ AddRole(a) \/ AddRefused(a)
      PROVE  WorldInv'
  BY <1>7 DEF Held, AddRole, AddRefused
<1>8. ASSUME NEW a \in Actors, Record(a)
      PROVE  WorldInv'
  <2>1. Wanted(a) \in Mapped(map[a])
    BY <1>8, WantedIsMapped DEF Record
  <2>2. QED
    BY <1>8, <2>1 DEF Record
<1>9. ASSUME NEW a \in Actors, Mine(a) \/ RemoveRole(a)
      PROVE  WorldInv'
  <2>1. CASE Mine(a)
    BY <2>1 DEF Mine
  <2>2. CASE RemoveRole(a)
    <3>1. UNCHANGED feature \/ ~permitted
      BY <2>2 DEF RemoveRole
    <3>2. QED
      BY <2>2, <3>1 DEF RemoveRole, Returns
  <2>3. QED
    BY <1>9, <2>1, <2>2
<1>10. ASSUME NEW a \in Actors, Forget(a)
       PROVE  WorldInv'
  BY <1>10 DEF Forget, Forgets
<1>11. CASE Crash \/ \E a \in Actors : CallFails(a)
  BY <1>11 DEF Crash, CallFails, Fault
<1>12. QED
  BY <1>1, <1>2, <1>3, <1>4, <1>5, <1>6, <1>7, <1>8, <1>9, <1>10, <1>11
     DEF Process, ConsumerStep, ReconcileStep, Takes, Apply

-----------------------------------------------------------------------------
\* One loop alone.

LEMMA ActorsAreFew ==
  ASSUME TypeOK
  PROVE  IsFiniteSet(scene.actors)
<1>1. IsFiniteSet({Consumer, Reconcile, Command})
  <2>1. IsFiniteSet({Consumer}) /\ IsFiniteSet({Reconcile}) /\ IsFiniteSet({Command})
    BY FS_Singleton
  <2>2. IsFiniteSet({Reconcile} \cup {Command})
    BY <2>1, FS_Union
  <2>3. IsFiniteSet({Consumer} \cup ({Reconcile} \cup {Command}))
    BY <2>1, <2>2, FS_Union
  <2>4. {Consumer, Reconcile, Command} = {Consumer} \cup ({Reconcile} \cup {Command})
    OBVIOUS
  <2>5. QED
    BY <2>3, <2>4
<1>2. scene.actors \subseteq Actors
  BY RolesAssumption DEF RolesAssumption, TypeOK
<1>3. QED
  BY <1>1, <1>2, FS_Subset, RolesAssumption DEF RolesAssumption

LEMMA OneAlone ==
  ASSUME TypeOK, Cardinality(scene.actors) <= 1,
         NEW a \in scene.actors, NEW b \in scene.actors
  PROVE  a = b
<1>1. IsFiniteSet(scene.actors)
  BY ActorsAreFew
<1>2. Cardinality(scene.actors \ {a}) = Cardinality(scene.actors) - 1 /\ IsFiniteSet(scene.actors \ {a})
  BY <1>1, FS_RemoveElement
<1>3. Cardinality(scene.actors) \in Nat /\ Cardinality(scene.actors \ {a}) \in Nat
  BY <1>1, <1>2, FS_CardinalityType
<1>4. Cardinality(scene.actors \ {a}) = 0
  BY <1>2, <1>3
<1>5. scene.actors \ {a} = {}
  BY <1>2, <1>4, FS_EmptySet
<1>6. QED
  BY <1>5

\* Written as a sequence, a set loses nothing: an injection of a finite set
\* into one of its size reaches all of it.
LEMMA SeqHasAll ==
  ASSUME NEW S, IsFiniteSet(S)
  PROVE  S \subseteq ToSet(SetToSeq(S))
<1> DEFINE n == Cardinality(S)
           f == SetToSeq(S)
           R == {f[i] : i \in 1..n}
<1>1. n \in Nat /\ ExistsBijection(1..n, S)
  BY FS_CardinalityType
<1>2. \E g \in [1..n -> S] : IsInjective(g)
  BY <1>1 DEF ExistsBijection, Bijection, Injection
<1>3. f \in [1..n -> S] /\ IsInjective(f)
  BY <1>2 DEF SetToSeq
<1>4. Len(f) = n /\ DOMAIN f = 1..n
  BY <1>1, <1>3
<1>5. R \subseteq S /\ IsFiniteSet(R)
  BY <1>3, FS_Subset
<1>6. Cardinality(1..n) = n /\ IsFiniteSet(1..n)
  BY <1>1, FS_Interval
<1>7. f \in Bijection(1..n, R)
  BY <1>3 DEF Bijection, Injection, Surjection, IsInjective
<1>8. Cardinality(R) = n
  <2>1. ExistsBijection(1..n, R)
    BY <1>7 DEF ExistsBijection
  <2>2. QED
    BY <1>1, <1>5, <2>1, FS_CountingElements
<1>9. R = S
  BY <1>5, <1>8, FS_Subset
<1>10. QED
  BY <1>4, <1>9 DEF ToSet

\* What the loop that takes a person's roles back does is not undone by
\* anybody, where it alone runs: the others stay idle.
LEMMA AloneAtWorld ==
  ASSUME TypeOK, World, NEW b \in Actors, AloneInv(b)
  PROVE  AloneInv(b)'
<1>1. /\ UNCHANGED <<grants, want, drop, then>> /\ has' \ byHand' \subseteq has \ byHand
      /\ Excused => Excused'
  BY WorldTells DEF Excused
<1>2. pc'[b] = pc[b] \/ pc'[b] = "takeBack"
  BY WorldTells DEF TypeOK
<1>3. CASE pc'[b] = pc[b]
  BY <1>1, <1>3 DEF AloneInv, TakingBack
<1>4. CASE pc'[b] = "takeBack"
  BY <1>4 DEF AloneInv, TakingBack
<1>5. QED
  BY <1>2, <1>3, <1>4

\* The actor that a step of the bot is a step of; the others keep their places.
LEMMA OnlyOneMoves ==
  ASSUME TypeOK, WorldInv, Cardinality(scene.actors) <= 1, Process, ~Crash
  PROVE  \E a \in Actors :
           /\ \A b \in Actors \ {a} : pc[b] = "idle" /\ pc'[b] = "idle"
           /\ \/ a = Consumer /\ ConsumerStep
              \/ a = Reconcile /\ ReconcileStep
              \/ Takes(a) \/ CallFails(a)
<1> DEFINE Moves(a) ==
             \/ a = Consumer /\ ConsumerStep
             \/ a = Reconcile /\ ReconcileStep
             \/ Takes(a) \/ CallFails(a)
<1>0. scene.actors \subseteq Actors
  BY RolesAssumption DEF RolesAssumption, TypeOK
<1>1. \E a \in Actors : Moves(a) /\ a \in scene.actors
  <2>1. CASE ConsumerStep
    BY <1>0, <2>1 DEF ConsumerStep, TakeChange, TakeRevoked, Advance
  <2>2. CASE ReconcileStep
    BY <1>0, <2>2 DEF ReconcileStep, ReadMembers, NameMember, RoleIn
  <2>3. ASSUME NEW a \in Actors, Takes(a) \/ CallFails(a)
        PROVE  a \in scene.actors
    <3>1. pc[a] # "idle"
      BY <2>3 DEF Takes, Apply, Prepare, Held, AddRole, AddRefused, Record, Mine, RemoveRole,
           Forget, TakeBackRoles, DeleteGrants, CallFails
    <3>2. QED
      BY <3>1 DEF WorldInv
  <2>4. QED
    BY <2>1, <2>2, <2>3 DEF Process
<1>2. PICK a \in Actors : Moves(a) /\ a \in scene.actors
  BY <1>1
<1>3. ASSUME NEW b \in Actors, b # a
      PROVE  pc[b] = "idle"
  BY <1>2, <1>3, OneAlone DEF WorldInv
<1>4. ASSUME NEW b \in Actors, b # a
      PROVE  pc'[b] = pc[b]
  BY <1>2, <1>4 DEF TypeOK, ConsumerStep, TakeChange, TakeRevoked, Advance, ReconcileStep,
     ReadMembers, NameMember, RoleIn, Takes, Apply, Prepare, Held, AddRole, AddRefused, Record,
     Mine, RemoveRole, Forget, TakeBackRoles, DeleteGrants, CallFails, Goes, Applies, Returns
<1>5. QED
  BY <1>2, <1>3, <1>4

\* At the end of a link nothing has been unmapped, switched off or forbidden,
\* unless it is excused.
LEMMA AtTheEndOfALink ==
  ASSUME TypeOK, WorldInv, NEW a \in Actors, TakingBack(a), ~Excused
  PROVE  /\ permitted /\ feature /\ mapping = FirstMapping /\ map[a] = FirstMapping
         /\ grants \subseteq Mapped(FirstMapping)
<1>1. ~Unchanged("link")
  BY DEF WorldInv
<1>2. Unchanged("map") /\ Unchanged("permission") /\ Unchanged("switch")
  BY <1>1 DEF Unchanged, Excused
<1>3. QED
  BY <1>2 DEF WorldInv

LEMMA AloneAtTakes ==
  ASSUME TypeOK, GrantsInv, WorldInv, NEW a \in Actors, AloneInv(a), Takes(a)
  PROVE  AloneInv(a)'
<1> USE DEF TypeOK, Goes, budget
<1>1. CASE TakeBackRoles(a)
  BY <1>1 DEF TakeBackRoles, Applies, AloneInv, TakingBack, ours
<1>2. CASE DeleteGrants(a)
  BY <1>2 DEF DeleteGrants, AloneInv, TakingBack
<1>3. CASE Prepare(a)
  <2>1. then' = then /\ want' = want /\ grants' = grants /\ happened' = happened /\ pc[a] = "prepare"
    BY <1>3 DEF Prepare, ours
  <2>2. pc'[a] \in {then[a], "mine", "held"}
    BY <1>3 DEF Prepare
  <2>3. ASSUME TakingBack(a)', ~Excused'
        PROVE  \/ pc'[a] = "mine" /\ want'[a] = Nothing
               \/ pc'[a] = "deleteGrants" /\ grants' = {}
    <3>1. then[a] = "deleteGrants"
      BY <2>1, <2>2, <2>3 DEF TakingBack
    <3>2. TakingBack(a) /\ ~Excused
      BY <2>1, <2>3, <3>1 DEF TakingBack, Excused
    <3>3. /\ permitted /\ feature /\ want[a] = Nothing
          /\ grants \subseteq Mapped(mapping)
      BY <2>1, <3>2, AtTheEndOfALink DEF AloneInv
    <3>4. CASE Mapped(mapping) = {}
      BY <1>3, <2>1, <3>1, <3>3, <3>4 DEF Prepare
    <3>5. CASE Mapped(mapping) # {}
      BY <1>3, <2>1, <3>3, <3>5 DEF Prepare, RoleOf
    <3>6. QED
      BY <3>4, <3>5
  <2>4. QED
    BY <2>2, <2>3 DEF AloneInv
<1>4. CASE Held(a) \/ AddRole(a) \/ AddRefused(a) \/ Record(a)
  <2>1. /\ then' = then /\ happened' = happened /\ pc[a] \in {"held", "give", "record"}
        /\ pc'[a] \in {"idle", "mine", "give", "record"}
    BY <1>4 DEF Held, AddRole, AddRefused, Record
  <2>2. ~TakingBack(a) \/ Excused
    BY <2>1 DEF AloneInv
  <2>3. TakingBack(a)' => TakingBack(a)
    BY <2>1 DEF TakingBack
  <2>4. QED
    BY <2>1, <2>2, <2>3 DEF AloneInv, Excused
<1>5. CASE Mine(a)
  <2>1. /\ then' = then /\ happened' = happened /\ grants' = grants /\ pc[a] = "mine"
        /\ pc'[a] = IF Unwanted(a) = {} THEN then[a] ELSE "take"
        /\ drop'[a] = SetToSeq(Unwanted(a))
    BY <1>5 DEF Mine, ours
  <2>2. ASSUME TakingBack(a)', ~Excused'
        PROVE  Unwanted(a) = grants /\ grants \subseteq ToSet(SetToSeq(grants))
    <3>1. TakingBack(a) /\ ~Excused
      BY <2>1, <2>2 DEF TakingBack, Excused
    <3>2. want[a] = Nothing /\ grants \subseteq Mapped(map[a])
      BY <2>1, <3>1, AtTheEndOfALink DEF AloneInv
    <3>3. NoRole \notin grants /\ IsFiniteSet(grants)
      BY FS_Subset, RolesAssumption DEF RolesAssumption
    <3>4. Unwanted(a) = grants
      BY <3>2, <3>3 DEF Unwanted, Wanted, RoleOf
    <3>5. QED
      BY <3>3, <3>4, SeqHasAll
  <2>3. QED
    BY <2>1, <2>2 DEF AloneInv
<1>6. CASE RemoveRole(a)
  <2>1. /\ then' = then /\ happened' = happened /\ grants' = grants /\ drop' = drop /\ byHand' = byHand
        /\ pc[a] = "take" /\ want' = want
    BY <1>6 DEF RemoveRole, Returns, ours
  <2>2. CASE inServer => permitted
    <3>1. pc'[a] = "forget" /\ has' = has \ {Head(drop[a])}
      BY <1>6, <2>2 DEF RemoveRole
    <3>2. QED
      BY <2>1, <3>1 DEF AloneInv, TakingBack, Excused
  <2>3. CASE ~(inServer => permitted)
    <3>1. pc'[a] = then[a]
      BY <1>6, <2>3 DEF RemoveRole, Returns
    <3>2. ~TakingBack(a) \/ Excused
      BY <2>3, AtTheEndOfALink
    <3>3. TakingBack(a)' => TakingBack(a)
      BY <2>1, <3>1 DEF TakingBack
    <3>4. QED
      BY <2>1, <3>1, <3>2, <3>3 DEF AloneInv, Excused
  <2>4. QED
    BY <2>2, <2>3
<1>7. CASE Forget(a)
  <2>1. /\ then' = then /\ happened' = happened /\ has' = has /\ byHand' = byHand /\ want' = want
        /\ pc[a] = "forget" /\ grants' = grants \ {Head(drop[a])} /\ drop'[a] = Tail(drop[a])
        /\ pc'[a] = IF Tail(drop[a]) = <<>> THEN then[a] ELSE "take"
    BY <1>7 DEF Forget, Forgets, discord
  <2>2. drop[a] \in Seq(Roles) /\ drop[a] # <<>>
    BY <2>1 DEF GrantsInv
  <2>3. ToSet(drop[a]) \subseteq {Head(drop[a])} \cup ToSet(Tail(drop[a]))
    <3>1. /\ Head(drop[a]) = drop[a][1] /\ Len(Tail(drop[a])) = Len(drop[a]) - 1 /\ Len(drop[a]) \in Nat
          /\ \A i \in 1..Len(Tail(drop[a])) : Tail(drop[a])[i] = drop[a][i + 1]
      BY <2>2
    <3>2. ASSUME NEW i \in 1..Len(drop[a]), i # 1
          PROVE  drop[a][i] \in ToSet(Tail(drop[a]))
      <4>1. i - 1 \in 1..Len(Tail(drop[a])) /\ Tail(drop[a])[i - 1] = drop[a][i]
        BY <3>1, <3>2
      <4>2. Tail(drop[a]) \in Seq(Roles)
        BY <2>2
      <4>3. DOMAIN Tail(drop[a]) = 1..Len(Tail(drop[a]))
        BY <4>2
      <4>4. QED
        BY <4>1, <4>3 DEF ToSet
    <3>3. DOMAIN drop[a] = 1..Len(drop[a])
      BY <2>2
    <3>4. ASSUME NEW r \in ToSet(drop[a])
          PROVE  r \in {Head(drop[a])} \cup ToSet(Tail(drop[a]))
      <4>1. \E i \in 1..Len(drop[a]) : r = drop[a][i]
        BY <3>3 DEF ToSet
      <4>2. QED
        BY <3>1, <3>2, <4>1
    <3>5. QED
      BY <3>4
  <2>4. ASSUME TakingBack(a)', ~Excused'
        PROVE  grants' \subseteq ToSet(Tail(drop[a]))
    <3>1. TakingBack(a) /\ ~Excused
      BY <2>1, <2>4 DEF TakingBack, Excused
    <3>2. QED
      BY <2>1, <2>3, <3>1 DEF AloneInv
  <2>5. Tail(drop[a]) = <<>> => ToSet(Tail(drop[a])) = {}
    BY DEF ToSet
  <2>6. QED
    BY <2>1, <2>4, <2>5 DEF AloneInv
<1>8. QED
  BY <1>1, <1>2, <1>3, <1>4, <1>5, <1>6, <1>7 DEF Takes, Apply

LEMMA AloneAtProcess ==
  ASSUME TypeOK, GrantsInv, WorldInv, Cardinality(scene.actors) <= 1,
         \A b \in Actors : AloneInv(b), Process
  PROVE  \A b \in Actors : AloneInv(b)'
<1>1. \A b \in Actors : pc'[b] = "idle" => AloneInv(b)'
  BY DEF AloneInv, TakingBack
<1>2. CASE Crash
  BY <1>1, <1>2 DEF Crash
<1>3. CASE ~Crash
  <2>1. PICK a \in Actors :
          /\ \A b \in Actors \ {a} : pc[b] = "idle" /\ pc'[b] = "idle"
          /\ \/ a = Consumer /\ ConsumerStep
             \/ a = Reconcile /\ ReconcileStep
             \/ Takes(a) \/ CallFails(a)
    BY <1>3, OnlyOneMoves
  <2>2. a = Consumer /\ ConsumerStep => AloneInv(a)'
    BY <2>1 DEF ConsumerStep, TakeChange, TakeRevoked, Advance, Applies, Goes, TypeOK,
       AloneInv, TakingBack
  <2>3. a = Reconcile /\ ReconcileStep => AloneInv(a)'
    BY <2>1 DEF ReconcileStep, ReadMembers, NameMember, RoleIn, Applies, Goes, TypeOK,
       AloneInv, TakingBack
  <2>4. Takes(a) => AloneInv(a)'
    BY <2>1, AloneAtTakes
  <2>5. CallFails(a) => AloneInv(a)'
    BY <1>1, <2>1 DEF CallFails, Goes, TypeOK
  <2>6. QED
    BY <1>1, <2>1, <2>2, <2>3, <2>4, <2>5
<1>4. QED
  BY <1>2, <1>3

\* What is stranded is so many roles, of those of the server.
LEMMA StrandedIsFinite ==
  ASSUME TypeOK
  PROVE  IsFiniteSet(Stranded) /\ Cardinality(Stranded) \in Nat
<1>1. Stranded \subseteq Roles
  BY DEF Stranded, TypeOK
<1>2. IsFiniteSet(Stranded)
  BY <1>1, FS_Subset, RolesAssumption DEF RolesAssumption
<1>3. QED
  BY <1>2, FS_CardinalityType

\* Who remembers a role, or is about to, still does.
LEMMA NoneForgotten ==
  ASSUME has' \ byHand' \subseteq has \ byHand, grants \subseteq grants',
         \A b \in Actors : pc[b] = "record" => pc'[b] = "record" /\ Wanted(b)' = Wanted(b)
  PROVE  Stranded' \subseteq Stranded
  BY DEF Stranded

LEMMA StrandedAtWorld ==
  ASSUME TypeOK, World
  PROVE  Stranded' \subseteq Stranded
<1>1. UNCHANGED <<grants, want, map>> /\ has' \ byHand' \subseteq has \ byHand
  BY WorldTells
<1>2. \A b \in Actors : pc[b] = "record" => pc'[b] = "record"
  BY WorldTells DEF TypeOK
<1>3. QED
  BY <1>1, <1>2 DEF Stranded, Wanted, RoleOf

\* A role goes from nobody's memory while no call fails, unless it is excused.
LEMMA StrandedAtTakes ==
  ASSUME TypeOK, GrantsInv, WorldInv, NEW a \in Actors, AloneInv(a), Takes(a)
  PROVE  Excused' \/ Stranded' \subseteq Stranded
<1> USE DEF TypeOK, Goes, Wanted, RoleOf
<1>1. CASE DeleteGrants(a)
  <2>1. TakingBack(a) /\ pc[a] = "deleteGrants" /\ happened' = happened
    BY <1>1 DEF TakingBack, DeleteGrants, budget
  <2>2. Excused' \/ grants = {}
    BY <2>1 DEF AloneInv, Excused
  <2>3. /\ has' = has /\ byHand' = byHand /\ want' = want /\ map' = map
        /\ \A b \in Actors : pc[b] = "record" => pc'[b] = "record"
    BY <1>1 DEF DeleteGrants, discord
  <2>4. QED
    BY <2>2, <2>3 DEF Stranded
<1>2. CASE Forget(a)
  <2>1. /\ Head(drop[a]) \notin has \ byHand
        /\ grants' = grants \ {Head(drop[a])}
        /\ has' = has /\ byHand' = byHand /\ want' = want /\ map' = map
        /\ \A b \in Actors : pc[b] = "record" => pc'[b] = "record"
    BY <1>2 DEF Forget, Forgets, AloneInv, discord
  <2>2. QED
    BY <2>1 DEF Stranded
<1>3. CASE Record(a)
  <2>1. /\ grants' = grants \cup {Wanted(a)}
        /\ has' = has /\ byHand' = byHand /\ want' = want /\ map' = map
        /\ \A b \in Actors \ {a} : pc[b] = "record" => pc'[b] = "record"
    BY <1>3 DEF Record, discord
  <2>2. QED
    BY <2>1 DEF Stranded
<1>4. CASE AddRole(a)
  <2>1. /\ grants' = grants /\ byHand' = byHand /\ want' = want /\ map' = map
        /\ \A b \in Actors \ {a} : pc[b] = "record" => pc'[b] = "record"
        /\ pc[a] = "give"
    BY <1>4 DEF AddRole
  <2>2. \/ has' = has
        \/ has' = has \cup {Wanted(a)} /\ pc'[a] = "record"
    BY <1>4 DEF AddRole
  <2>3. QED
    BY <2>1, <2>2 DEF Stranded
<1>5. CASE RemoveRole(a)
  <2>1. /\ grants' = grants /\ byHand' = byHand /\ want' = want /\ map' = map /\ has' \subseteq has
        /\ \A b \in Actors : pc[b] = "record" => pc'[b] = "record"
    BY <1>5 DEF RemoveRole, Returns, ours
  <2>2. QED
    BY <2>1 DEF Stranded
<1>6. CASE Prepare(a) \/ Held(a) \/ AddRefused(a) \/ Mine(a) \/ TakeBackRoles(a)
  <2>1. /\ grants' = grants /\ byHand' = byHand /\ has' = has
        /\ \A b \in Actors : pc[b] = "record" =>
             pc'[b] = "record" /\ want'[b] = want[b] /\ map'[b] = map[b]
    BY <1>6 DEF Prepare, Held, AddRefused, Mine, TakeBackRoles, Applies, ours, discord
  <2>2. \A b \in Actors : pc[b] = "record" => pc'[b] = "record" /\ Wanted(b)' = Wanted(b)
    BY <2>1
  <2>3. QED
    BY <2>1, <2>2, NoneForgotten
<1>7. QED
  BY <1>1, <1>2, <1>3, <1>4, <1>5, <1>6 DEF Takes, Apply

LEMMA StrandedAtLoops ==
  ASSUME TypeOK, ConsumerStep \/ ReconcileStep
  PROVE  Stranded' \subseteq Stranded
<1>1. UNCHANGED <<grants, has, byHand>>
  BY DEF ConsumerStep, TakeChange, TakeRevoked, Advance, ReconcileStep, ReadMembers, NameMember,
         RoleIn, ours, discord
<1>2. \A b \in Actors : pc[b] = "record" => pc'[b] = "record" /\ want'[b] = want[b] /\ map'[b] = map[b]
  BY DEF TypeOK, ConsumerStep, TakeChange, TakeRevoked, Advance, ReconcileStep, ReadMembers, NameMember,
         RoleIn, Goes, Applies
<1>3. QED
  BY <1>1, <1>2 DEF Stranded, Wanted, RoleOf

\* A fault strands at most the role that the one loop was about to record.
LEMMA StrandedAtFault ==
  ASSUME TypeOK, TypeOK', WorldInv, Cardinality(scene.actors) <= 1,
         Crash \/ (\E a \in Actors : CallFails(a))
  PROVE  Cardinality(Stranded') <= Cardinality(Stranded) + 1 /\ faults' = faults + 1
<1>1. /\ UNCHANGED <<grants, has, byHand, want, map>> /\ faults' = faults + 1
      /\ \A b \in Actors : pc'[b] = "idle" \/ pc'[b] = pc[b]
  BY DEF TypeOK, Crash, CallFails, Fault, Goes, ours, discord
<1>2. \E r : Stranded' \subseteq Stranded \cup {r}
  <2>1. CASE \E b \in Actors : pc[b] = "record"
    <3>1. PICK a \in Actors : pc[a] = "record"
      BY <2>1
    <3>2. \A b \in Actors : pc[b] = "record" => b = a
      BY <3>1, OneAlone DEF WorldInv
    <3>3. Stranded' \subseteq Stranded \cup {Wanted(a)}
      BY <1>1, <3>2 DEF Stranded, Wanted, RoleOf
    <3>4. QED
      BY <3>3
  <2>2. CASE ~\E b \in Actors : pc[b] = "record"
    <3>1. Stranded' \subseteq Stranded
      BY <1>1, <2>2 DEF Stranded, Wanted, RoleOf
    <3>2. QED
      BY <3>1
  <2>3. QED
    BY <2>1, <2>2
<1>3. PICK r : Stranded' \subseteq Stranded \cup {r}
  BY <1>2
<1>4. IsFiniteSet(Stranded) /\ Cardinality(Stranded) \in Nat
  BY StrandedIsFinite
<1>5. /\ IsFiniteSet(Stranded \cup {r})
      /\ Cardinality(Stranded \cup {r}) \in Nat
      /\ Cardinality(Stranded \cup {r}) <= Cardinality(Stranded) + 1
  <2>1. /\ IsFiniteSet(Stranded \cup {r})
        /\ r \in Stranded => Cardinality(Stranded \cup {r}) = Cardinality(Stranded)
        /\ r \notin Stranded => Cardinality(Stranded \cup {r}) = Cardinality(Stranded) + 1
    BY <1>4, FS_AddElement
  <2>2. QED
    BY <1>4, <2>1
<1>6. IsFiniteSet(Stranded') /\ Cardinality(Stranded') <= Cardinality(Stranded \cup {r})
  BY <1>3, <1>5, FS_Subset
<1>7. Cardinality(Stranded') \in Nat
  BY <1>6, FS_CardinalityType
<1>8. QED
  BY <1>1, <1>4, <1>5, <1>6, <1>7

\* How many are stranded, and how many faults there have been.
LEMMA StrandedCount ==
  ASSUME TypeOK, TypeOK', GrantsInv, WorldInv, Cardinality(scene.actors) <= 1,
         \A b \in Actors : AloneInv(b), Cardinality(Stranded) <= faults, Next
  PROVE  Excused' \/ Cardinality(Stranded') <= faults'
<1>1. Cardinality(Stranded) \in Nat /\ IsFiniteSet(Stranded) /\ faults \in Nat
  BY StrandedIsFinite, RolesAssumption DEF TypeOK, RolesAssumption
<1>2. CASE Crash \/ \E a \in Actors : CallFails(a)
  <2>1. Cardinality(Stranded') <= Cardinality(Stranded) + 1 /\ faults' = faults + 1
    BY <1>2, StrandedAtFault
  <2>2. IsFiniteSet(Stranded') /\ Cardinality(Stranded') \in Nat
    <3>1. Stranded' \subseteq Roles
      BY DEF Stranded, TypeOK
    <3>2. IsFiniteSet(Stranded')
      BY <3>1, FS_Subset, RolesAssumption DEF RolesAssumption
    <3>3. QED
      BY <3>2, FS_CardinalityType
  <2>3. QED
    BY <1>1, <2>1, <2>2
<1>3. CASE World \/ ConsumerStep \/ ReconcileStep \/ \E a \in Actors : Takes(a)
  <2>1. Excused' \/ Stranded' \subseteq Stranded
    BY <1>3, StrandedAtWorld, StrandedAtLoops, StrandedAtTakes
  <2>2. Stranded' \subseteq Stranded => /\ Cardinality(Stranded') <= Cardinality(Stranded)
                                        /\ IsFiniteSet(Stranded')
    BY <1>1, FS_Subset
  <2>3. IsFiniteSet(Stranded') => Cardinality(Stranded') \in Nat
    BY FS_CardinalityType
  <2>4. faults' = faults
    <3>1. World => faults' = faults
      BY WorldTells
    <3>2. ConsumerStep \/ ReconcileStep => faults' = faults
      BY DEF ConsumerStep, TakeChange, TakeRevoked, Advance, ReconcileStep, ReadMembers, NameMember,
         RoleIn, budget
    <3>3. ASSUME NEW a \in Actors, Takes(a)
          PROVE  faults' = faults
      BY <3>3 DEF Takes, Apply, Prepare, Held, AddRole, AddRefused, Record, Mine, RemoveRole, Forget,
         TakeBackRoles, DeleteGrants, budget
    <3>4. QED
      BY <1>3, <3>1, <3>2, <3>3
  <2>5. QED
    BY <1>1, <2>1, <2>2, <2>3, <2>4
<1>4. QED
  BY <1>2, <1>3 DEF Next

\* What has happened has happened, and who runs goes on running.
LEMMA NothingUnhappens ==
  ASSUME TypeOK, Next
  PROVE  scene' = scene /\ (Excused => Excused')
<1>1. World => scene' = scene /\ happened \subseteq happened'
  BY WorldTells
<1>2. Process => scene' = scene /\ happened' = happened
  <2>1. ConsumerStep \/ ReconcileStep \/ Crash => scene' = scene /\ happened' = happened
    BY DEF ConsumerStep, TakeChange, TakeRevoked, Advance, ReconcileStep, ReadMembers, NameMember,
       RoleIn, Crash, Fault, budget
  <2>2. ASSUME NEW a \in Actors, Takes(a) \/ CallFails(a)
        PROVE  scene' = scene /\ happened' = happened
    BY <2>2 DEF Takes, Apply, Prepare, Held, AddRole, AddRefused, Record, Mine, RemoveRole, Forget,
       TakeBackRoles, DeleteGrants, CallFails, Fault, budget
  <2>3. QED
    BY <2>1, <2>2 DEF Process
<1>3. World \/ Process
  BY DEF Next, Process
<1>4. QED
  BY <1>1, <1>2, <1>3 DEF Excused

LEMMA StrandStep ==
  ASSUME TypeOK, TypeOK', GrantsInv, WorldInv, StrandInv, [Next]_vars
  PROVE  WorldInv' /\ StrandInv'
<1>1. CASE UNCHANGED vars
  <2>1. UNCHANGED <<entries, permitted, feature, mapping, pc, want, map, drop, then, has, byHand,
                    grants, scene, happened, faults>>
    BY <1>1 DEF vars, via, server, locals, ours, discord, budget
  <2>2. WorldInv'
    BY <2>1 DEF WorldInv, TakingBack, Unchanged
  <2>3. StrandInv'
    BY <2>1 DEF StrandInv, AloneInv, TakingBack, Excused, Stranded, Wanted, RoleOf
  <2>4. QED
    BY <2>2, <2>3
<1>2. CASE Next
  <2>1. World \/ Process
    BY <1>2 DEF Next, Process
  <2>2. WorldInv'
    BY <2>1, WorldInvAtWorld, WorldInvAtProcess
  <2>3. scene' = scene /\ (Excused => Excused')
    BY <1>2, NothingUnhappens
  <2>4. ASSUME Cardinality(scene.actors) <= 1
        PROVE  (\A b \in Actors : AloneInv(b)') /\ (Excused' \/ Cardinality(Stranded') <= faults')
    <3>1. (\A b \in Actors : AloneInv(b)) /\ (Excused \/ Cardinality(Stranded) <= faults)
      BY <2>4 DEF StrandInv
    <3>2. \A b \in Actors : AloneInv(b)'
      BY <2>1, <2>4, <3>1, AloneAtWorld, AloneAtProcess
    <3>3. QED
      BY <1>2, <2>3, <2>4, <3>1, <3>2, StrandedCount
  <2>5. QED
    BY <2>2, <2>3, <2>4 DEF StrandInv
<1>3. QED
  BY <1>1, <1>2

\* With one loop alone, whatever the world does, every role the person has from
\* the bot and nothing remembers cost a fault between addRole and the record of
\* the grant (apply, roles/membership.ts); the exception is a link revoked in a
\* server that switched the feature off, unmapped a role or took the permission.
THEOREM StrandedArePaidFor == Spec => []StrandedCostsFaults
<1>1. /\ TypeOK /\ GrantsInv /\ TypeOK' /\ GrantsInv'
      /\ WorldInv /\ StrandInv /\ [Next]_vars
      => WorldInv' /\ StrandInv'
  BY StrandStep
<1>2. TypeOK /\ StrandInv => StrandedCostsFaults
  <2>1. TypeOK => Cardinality(scene.actors) \in Nat
    BY ActorsAreFew, FS_CardinalityType
  <2>2. QED
    BY <2>1 DEF StrandInv, StrandedCostsFaults
<1>3. QED
  BY <1>1, <1>2, WorldInvInit, Invariance, PTL DEF Spec
=============================================================================
