------------------------- MODULE JoinToCreateProofs -------------------------
(* Proofs of the safety properties of JoinToCreate, for any number of      *)
(* users, channels, goroutines and faults.                                 *)
EXTENDS JoinToCreate, TLAPS

\* Every channel named by a delete event, under way or in the hands of
\* handleChannelDelete, is gone: its row can be dropped without losing a channel.
Gone(c) == c \in used /\ c \notin live
DeletedAreGone ==
    /\ \A i \in 1..Len(gateway) : gateway[i].kind = "delete" => Gone(gateway[i].chan)
    /\ \A t \in Handlers : pc[t] = "dropRow" => Gone(arg[t].chan)

\* maybeCleanupChannel drops the row of a channel that is gone, or whose deletion
\* failed: the channel had a row, so its id was given out, and it never comes back.
CleanedIsGone ==
    /\ \A c \in Channels : parentOf[c] # None => c \in used
    /\ \A t \in Handlers :
          /\ pc[t] = "insert" => arg[t].new \in used
          /\ pc[t] \in {"count", "deleteEmpty"} => arg[t].old \in used
          /\ pc[t] = "deleteRow" => Gone(arg[t].old) \/ arg[t].old \in lost

IInv == TypeOK /\ ActiveHasParent /\ DeletedAreGone /\ CleanedIsGone /\ TrackedOrLost

LEMMA SendType ==
    ASSUME gateway \in Seq(Events), NEW e \in Events, Send(e)
    PROVE  gateway' \in Seq(Events)
BY DEF Send

LEMMA EventTypes ==
    /\ \A u \in Users, c \in Channels \cup {None} : Event("voice", u, c) \in Events
    /\ \A c \in Channels : Event("delete", None, c) \in Events
    /\ \A c \in Channels : Event("remove", None, c) \in Events
    /\ Event("setup", None, None) \in Events
BY DEF Event, Events

LEMMA GotoControl ==
    ASSUME TypeOK, NEW t \in Handlers, NEW l \in Labels, Goto(t, l), LocalOK(t, l)
    PROVE  ControlOK'
<1>1. pc' \in [Handlers -> Labels] /\ arg' \in [Handlers -> Args]
  BY DEF Goto, TypeOK, ControlOK, Args, Blank
<1>2. LocalOK(t, pc[t])'
  <2>1. CASE l = "idle"
    BY <2>1 DEF Goto, TypeOK, ControlOK, LocalOK, VoiceLabels, LookupLabels, ChanLabels
  <2>2. CASE l # "idle"
    BY <2>2 DEF Goto, TypeOK, ControlOK, LocalOK
  <2>. QED  BY <2>1, <2>2
<1>3. ASSUME NEW s \in Handlers, s # t  PROVE LocalOK(s, pc[s])'
  <2>1. pc'[s] = pc[s] /\ arg'[s] = arg[s]
    BY <1>3 DEF Goto, TypeOK, ControlOK
  <2>. QED  BY <2>1 DEF TypeOK, ControlOK, LocalOK
<1>. QED  BY <1>1, <1>2, <1>3 DEF ControlOK

\* Every call but Deliver and the creation of a channel only moves on.
Moves(t) == \E l \in Labels : Goto(t, l) /\ LocalOK(t, l)

LEMMA MovesControl ==
    ASSUME TypeOK, NEW t \in Handlers, Moves(t)
    PROVE  ControlOK'
BY GotoControl DEF Moves

\* The calls that only move on: all but Deliver, MakeChannel and MakeParent.
Plain(t) ==
    \/ CleanupLookup(t) \/ CountUsers(t) \/ DeleteEmpty(t) \/ DeleteRow(t) \/ CacheLookup(t)
    \/ QueryParent(t) \/ StoreParent(t) \/ CheckEnabled(t) \/ InsertRow(t) \/ UndoCreate(t)
    \/ MoveOwner(t) \/ DropRow(t) \/ Forget(t) \/ CheckSetup(t) \/ InsertParent(t)
    \/ Publish(t) \/ DeleteParent(t) \/ Invalidate(t) \/ DeleteChannel(t)

LEMMA PlainMoves ==
    ASSUME TypeOK, NEW t \in Handlers, Plain(t)
    PROVE  Moves(t)
<1>. USE DEF TypeOK, ControlOK, LocalOK, VoiceLabels, LookupLabels, ChanLabels, Labels,
             AfterLeft, Found, Missing, Moves
<1>1. CASE CleanupLookup(t)
  BY <1>1 DEF CleanupLookup
<1>2. CASE CountUsers(t)
  BY <1>2 DEF CountUsers
<1>3. CASE DeleteEmpty(t)
  BY <1>3 DEF DeleteEmpty
<1>4. CASE DeleteRow(t)
  BY <1>4 DEF DeleteRow
<1>5. CASE CacheLookup(t)
  BY <1>5 DEF CacheLookup
<1>6. CASE QueryParent(t)
  BY <1>6 DEF QueryParent
<1>7. CASE StoreParent(t)
  BY <1>7 DEF StoreParent
<1>8. CASE CheckEnabled(t)
  BY <1>8 DEF CheckEnabled
<1>9. CASE InsertRow(t)
  BY <1>9, Disjoint DEF Channels, InsertRow
<1>10. CASE UndoCreate(t)
  BY <1>10 DEF UndoCreate
<1>11. CASE MoveOwner(t)
  BY <1>11 DEF MoveOwner
<1>12. CASE DropRow(t)
  BY <1>12 DEF DropRow
<1>13. CASE Forget(t)
  BY <1>13 DEF Forget
<1>14. CASE CheckSetup(t)
  BY <1>14 DEF CheckSetup
<1>15. CASE InsertParent(t)
  BY <1>15, Disjoint DEF Channels, InsertParent
<1>16. CASE Publish(t)
  BY <1>16 DEF Publish
<1>17. CASE DeleteParent(t)
  BY <1>17 DEF DeleteParent
<1>18. CASE Invalidate(t)
  BY <1>18 DEF Invalidate
<1>19. CASE DeleteChannel(t)
  BY <1>19 DEF DeleteChannel
<1>. QED
  BY <1>1, <1>2, <1>3, <1>4, <1>5, <1>6, <1>7, <1>8, <1>9, <1>10, <1>11, <1>12, <1>13, <1>14, <1>15, <1>16, <1>17, <1>18, <1>19 DEF Plain

LEMMA PlainData ==
    ASSUME TypeOK, NEW t \in Handlers, Plain(t)
    PROVE  DataOK'
<1>. USE DEF NoFault, Fault, budget, discord, db
<1>1. CASE CleanupLookup(t)
  BY <1>1 DEF CleanupLookup, TypeOK, DataOK
<1>2. CASE CountUsers(t)
  BY <1>2 DEF CountUsers, LeaveBehind, TypeOK, DataOK
<1>3. CASE DeleteEmpty(t)
  BY <1>3, SendType, EventTypes DEF DeleteEmpty, LeaveBehind, TypeOK, DataOK, Delete, ControlOK, Args, LocalOK
<1>4. CASE DeleteRow(t)
  BY <1>4 DEF DeleteRow, TypeOK, DataOK, DeleteJTCActiveChannel
<1>5. CASE CacheLookup(t)
  BY <1>5 DEF CacheLookup, TypeOK, DataOK
<1>6. CASE QueryParent(t)
  BY <1>6 DEF QueryParent, TypeOK, DataOK
<1>7. CASE StoreParent(t)
  BY <1>7 DEF StoreParent, TypeOK, DataOK
<1>8. CASE CheckEnabled(t)
  BY <1>8 DEF CheckEnabled, TypeOK, DataOK
<1>9. CASE InsertRow(t)
  BY <1>9 DEF InsertRow, TypeOK, DataOK, CreateJTCActiveChannel, ControlOK, LocalOK, ChanLabels, Args
<1>10. CASE UndoCreate(t)
  BY <1>10, SendType, EventTypes DEF UndoCreate, LeaveBehind, TypeOK, DataOK, Delete, ControlOK, Args, LocalOK
<1>11. CASE MoveOwner(t)
  <2>1. arg[t].user \in Users /\ arg[t].new \in Channels
    BY <1>11 DEF MoveOwner, TypeOK, ControlOK, LocalOK, VoiceLabels, Args, Channels
  <2>2. gateway' \in Seq(Events)
    BY <1>11, <2>1, SendType, EventTypes DEF MoveOwner, TypeOK, DataOK
  <2>3. voice' \in [Users -> Channels \cup {None}]
    BY <1>11, <2>1 DEF MoveOwner, TypeOK, DataOK
  <2>. QED  BY <1>11, <2>2, <2>3 DEF MoveOwner, TypeOK, DataOK
<1>12. CASE DropRow(t)
  BY <1>12 DEF DropRow, TypeOK, DataOK, DeleteJTCActiveChannel
<1>13. CASE Forget(t)
  BY <1>13 DEF Forget, TypeOK, DataOK
<1>14. CASE CheckSetup(t)
  BY <1>14 DEF CheckSetup, TypeOK, DataOK
<1>15. CASE InsertParent(t)
  BY <1>15 DEF InsertParent, TypeOK, DataOK, ControlOK, LocalOK, Channels
<1>16. CASE Publish(t)
  BY <1>16 DEF Publish, TypeOK, DataOK
<1>17. CASE DeleteParent(t)
  BY <1>17 DEF DeleteParent, TypeOK, DataOK, DeleteJTCParentChannel
<1>18. CASE Invalidate(t)
  BY <1>18 DEF Invalidate, TypeOK, DataOK
<1>19. CASE DeleteChannel(t)
  BY <1>19, SendType, EventTypes DEF DeleteChannel, TypeOK, DataOK, Delete, ControlOK, Args, LocalOK, ChanLabels
<1>. QED
  BY <1>1, <1>2, <1>3, <1>4, <1>5, <1>6, <1>7, <1>8, <1>9, <1>10, <1>11, <1>12, <1>13, <1>14, <1>15, <1>16, <1>17, <1>18, <1>19 DEF Plain

LEMMA DeliverType ==
    ASSUME TypeOK, NEW t \in Handlers, Deliver(t)
    PROVE  TypeOK'
<1>. DEFINE e == Head(gateway)
            was == IF e.kind = "voice" THEN seen[e.user] ELSE None
            l == Start(e, was)
<1>1. e \in Events /\ gateway' \in Seq(Events)
  BY DEF Deliver, TypeOK, DataOK
<1>2. was \in Channels \cup {None}
  BY <1>1 DEF TypeOK, DataOK, Events
<1>3. l \in {"tracked", "lookup", "idle", "dropRow", "checkSetup"}
  BY <1>1 DEF Start, Events
<1>4. pc' \in [Handlers -> Labels] /\ arg' \in [Handlers -> Args]
  BY <1>1, <1>2, <1>3 DEF Deliver, TypeOK, ControlOK, Labels, Args, Blank, Events, Kinds
<1>5. LocalOK(t, pc[t])'
  <2>1. CASE l = "idle"
    BY <2>1 DEF Deliver, TypeOK, ControlOK, LocalOK, VoiceLabels, LookupLabels, ChanLabels
  <2>2. CASE l # "idle"
    <3>1. pc'[t] = l /\ arg'[t] = [kind |-> e.kind, user |-> e.user, old |-> was,
                                  chan |-> e.chan, new |-> None]
      BY <2>2 DEF Deliver, TypeOK, ControlOK
    <3>2. CASE e.kind = "voice"
      <4>1. e.user # None /\ (was # None => l = "tracked") /\ (was = None => l = "lookup")
            /\ (l = "lookup" => e.chan # None)
        BY <1>1, <2>2, <3>2, Disjoint DEF Start, Events
      <4>. QED  BY <1>3, <3>1, <3>2, <4>1 DEF LocalOK, VoiceLabels, LookupLabels, ChanLabels
    <3>3. CASE e.kind = "delete"
      <4>1. e.chan # None /\ l = "dropRow"
        BY <1>1, <3>3, Disjoint DEF Start, Events
      <4>. QED  BY <3>1, <4>1 DEF LocalOK, VoiceLabels, LookupLabels, ChanLabels
    <3>5. CASE e.kind = "remove"
      <4>1. e.chan # None
        BY <1>1, <3>5, Disjoint DEF Events
      <4>2. l = "lookup"
        BY <3>5 DEF Start
      <4>. QED  BY <3>1, <3>5, <4>1, <4>2 DEF LocalOK, VoiceLabels, LookupLabels, ChanLabels
    <3>4. CASE e.kind = "setup"
      <4>1. l = "checkSetup"
        BY <3>4 DEF Start
      <4>. QED  BY <3>1, <4>1 DEF LocalOK, VoiceLabels, LookupLabels, ChanLabels
    <3>. QED  BY <1>1, <3>2, <3>3, <3>4, <3>5 DEF Events
  <2>. QED  BY <2>1, <2>2
<1>6. ASSUME NEW s \in Handlers, s # t  PROVE LocalOK(s, pc[s])'
  <2>1. pc'[s] = pc[s] /\ arg'[s] = arg[s]
    BY <1>6 DEF Deliver, TypeOK, ControlOK
  <2>. QED  BY <2>1 DEF TypeOK, ControlOK, LocalOK
<1>7. seen' \in [Users -> Channels \cup {None}]
  BY <1>1 DEF Deliver, TypeOK, DataOK, Events
<1>8. DataOK'
  BY <1>1, <1>7 DEF Deliver, TypeOK, DataOK, discord, db, budget
<1>. QED  BY <1>4, <1>5, <1>6, <1>8 DEF TypeOK, ControlOK

\* The creation of a channel, with its caller's label for what comes next.
LEMMA CreateType ==
    ASSUME TypeOK, NEW t \in Handlers, NEW ids, NEW l, Create(t, ids, l),
           \/ /\ ids = Temps /\ l = "insert"
              /\ arg[t].kind = "voice" /\ arg[t].user # None /\ arg[t].chan # None
           \/ ids = Lobbies /\ l = "insertParent"
    PROVE  /\ ControlOK' /\ live' \subseteq used' /\ used' \subseteq Channels
           /\ lost' \subseteq Channels
           /\ UNCHANGED <<crashes, admin, noise>> /\ faults' \in Nat
<1>1. CASE /\ Goto(t, "idle") /\ (NoFault \/ Fault)
           /\ \/ UNCHANGED <<live, used, lost>>
              \/ \E c \in ids \ used : NewChannel(c) /\ lost' = lost \cup {c}
  <2>1. LocalOK(t, "idle") /\ "idle" \in Labels
    BY DEF LocalOK, VoiceLabels, LookupLabels, ChanLabels, Labels
  <2>2. ControlOK' /\ UNCHANGED <<crashes, admin, noise>> /\ faults' \in Nat
    BY <1>1, <2>1, GotoControl DEF NoFault, Fault, budget, TypeOK, DataOK
  <2>. QED  BY <1>1, <2>2 DEF NewChannel, Channels, TypeOK, DataOK
<1>2. ASSUME NoFault, NEW c \in ids \ used, NewChannel(c), lost' = lost,
             arg' = [arg EXCEPT ![t].new = c], pc' = [pc EXCEPT ![t] = l]
      PROVE  /\ ControlOK' /\ live' \subseteq used' /\ used' \subseteq Channels
             /\ lost' \subseteq Channels
             /\ UNCHANGED <<crashes, admin, noise>> /\ faults' \in Nat
  <2>1. pc' \in [Handlers -> Labels] /\ arg' \in [Handlers -> Args]
    BY <1>2 DEF TypeOK, ControlOK, Labels, Args, Channels
  <2>2. LocalOK(t, pc[t])'
    BY <1>2 DEF TypeOK, ControlOK, LocalOK, VoiceLabels, LookupLabels, ChanLabels, Args
  <2>3. ASSUME NEW s \in Handlers, s # t  PROVE LocalOK(s, pc[s])'
    BY <1>2, <2>3 DEF TypeOK, ControlOK, LocalOK
  <2>. QED  BY <1>2, <2>1, <2>2, <2>3 DEF NewChannel, ControlOK, TypeOK, DataOK, NoFault, budget, Channels
<1>. QED  BY <1>1, <1>2 DEF Create

LEMMA MakeType ==
    ASSUME TypeOK, NEW t \in Handlers, MakeChannel(t) \/ MakeParent(t)
    PROVE  TypeOK'
<1>1. CASE MakeChannel(t)
  <2>1. arg[t].kind = "voice" /\ arg[t].user # None /\ arg[t].chan # None
    BY <1>1 DEF MakeChannel, TypeOK, ControlOK, LocalOK, VoiceLabels, ChanLabels
  <2>2. CASE Create(t, Temps, "insert")
    BY <1>1, <2>1, <2>2, CreateType DEF MakeChannel, TypeOK, DataOK, db
  <2>3. CASE NoFault /\ Goto(t, "idle") /\ UNCHANGED <<live, used, lost>>
    <3>1. LocalOK(t, "idle") /\ "idle" \in Labels
      BY DEF LocalOK, VoiceLabels, LookupLabels, ChanLabels, Labels
    <3>. QED  BY <1>1, <2>3, <3>1, GotoControl DEF MakeChannel, TypeOK, DataOK, db, NoFault, budget
  <2>. QED  BY <1>1, <2>2, <2>3 DEF MakeChannel
<1>2. CASE MakeParent(t)
  BY <1>2, CreateType DEF MakeParent, TypeOK, DataOK, db
<1>. QED  BY <1>1, <1>2

LEMMA WorldType ==
    ASSUME TypeOK, World
    PROVE  TypeOK'
<1>. USE DEF budget, discord, db, TypeOK
<1>1. ASSUME NEW u \in Users, NEW c \in Channels \cup {None}, UserMoves(u, c)  PROVE TypeOK'
  BY <1>1, SendType, EventTypes DEF UserMoves, DataOK, ControlOK, LocalOK
<1>2. ASSUME NEW u \in Users, UserMutes(u)  PROVE TypeOK'
  BY <1>2, SendType, EventTypes DEF UserMutes, DataOK, ControlOK, LocalOK, SpendNoise
<1>3. ASSUME NEW u \in Users, Kick(u)  PROVE TypeOK'
  BY <1>3, SendType, EventTypes DEF Kick, DataOK, ControlOK, LocalOK
<1>4. ASSUME NEW c \in Channels, AdminDeletes(c)  PROVE TypeOK'
  BY <1>4, SendType, EventTypes DEF AdminDeletes, DataOK, ControlOK, LocalOK, SpendAdmin, Delete
<1>5. ASSUME NEW c \in Channels, ApiAddParent(c)  PROVE TypeOK'
  BY <1>5 DEF ApiAddParent, DataOK, ControlOK, LocalOK, SpendAdmin
<1>6. ASSUME NEW c \in Channels, ApiDeleteParent(c)  PROVE TypeOK'
  BY <1>6 DEF ApiDeleteParent, DataOK, ControlOK, LocalOK, SpendAdmin, DeleteJTCParentChannel
<1>7. ASSUME NEW c \in Channels \cup {None}, NEW k \in {"setup", "remove"}, AdminCommands(k, c)  PROVE TypeOK'
  BY <1>7, SendType, EventTypes DEF AdminCommands, DataOK, ControlOK, LocalOK, SpendAdmin
<1>8. CASE ApiUpdateModule
  BY <1>8 DEF ApiUpdateModule, DataOK, ControlOK, LocalOK, SpendAdmin
<1>9. ASSUME NEW c \in Channels, CacheExpires(c)  PROVE TypeOK'
  BY <1>9 DEF CacheExpires, DataOK, ControlOK, LocalOK, SpendNoise
<1>10. CASE Crash
  <2>1. gateway' \in Seq(Events) /\ cache' \in [Channels -> {"absent", "nil", "parent"}]
    BY <1>10 DEF Crash
  <2>2. lost' \subseteq Channels
    BY <1>10 DEF Crash, DataOK
  <2>3. /\ UNCHANGED <<live, used, voice, parents, parentOf, enabled, seen, faults, admin, noise>>
        /\ crashes' = crashes + 1 /\ up' = FALSE
    BY <1>10 DEF Crash
  <2>4. up' \in BOOLEAN /\ enabled' \in BOOLEAN
    BY <2>3 DEF DataOK
  <2>5. DataOK'
    BY <2>1, <2>2, <2>3, <2>4 DEF DataOK
  <2>6. pc' \in [Handlers -> Labels] /\ arg' \in [Handlers -> Args]
    BY <1>10 DEF Crash, Labels, Args, Blank
  <2>7. ASSUME NEW t \in Handlers  PROVE LocalOK(t, pc[t])'
    BY <1>10 DEF Crash, LocalOK, VoiceLabels, LookupLabels, ChanLabels
  <2>. QED  BY <2>5, <2>6, <2>7 DEF ControlOK
<1>11. CASE Restart
  BY <1>11 DEF Restart, DataOK, ControlOK, LocalOK
<1>. QED
  BY <1>1, <1>2, <1>3, <1>4, <1>5, <1>6, <1>7, <1>8, <1>9, <1>10, <1>11 DEF World

LEMMA HandleCases ==
    ASSUME NEW t \in Handlers, Handle(t)
    PROVE  Plain(t) \/ MakeChannel(t) \/ MakeParent(t)
BY DEF Handle, HandleVoiceStateUpdate, HandleChannelDelete, HandleInteraction, Plain

LEMMA TypeInit == Init => TypeOK
<1>. SUFFICES ASSUME Init PROVE TypeOK
  OBVIOUS
<1>1. DataOK
  BY DEF Init, DataOK, Channels
<1>2. pc \in [Handlers -> Labels] /\ arg \in [Handlers -> Args]
  BY DEF Init, Labels, Args, Blank
<1>3. ASSUME NEW t \in Handlers  PROVE LocalOK(t, pc[t])
  BY DEF Init, LocalOK, VoiceLabels, LookupLabels, ChanLabels
<1>. QED  BY <1>1, <1>2, <1>3 DEF TypeOK, ControlOK

LEMMA TypeStep == TypeOK /\ [Next]_vars => TypeOK'
<1>. SUFFICES ASSUME TypeOK, [Next]_vars PROVE TypeOK'
  OBVIOUS
<1>1. CASE World
  BY <1>1, WorldType
<1>2. ASSUME NEW t \in Handlers, Deliver(t)  PROVE TypeOK'
  BY <1>2, DeliverType
<1>3. ASSUME NEW t \in Handlers, Handle(t)  PROVE TypeOK'
  BY <1>3, HandleCases, PlainMoves, MovesControl, PlainData, MakeType DEF TypeOK
<1>4. CASE UNCHANGED vars
  BY <1>4 DEF vars, discord, db, budget, TypeOK, DataOK, ControlOK, LocalOK
<1>. QED  BY <1>1, <1>2, <1>3, <1>4 DEF Next

\* Every variable keeps its type and no goroutine reads a local it has not set,
\* whatever the events and their order (handleVoiceStateUpdate's early returns).
THEOREM TypeCorrect == Spec => []TypeOK
BY TypeInit, TypeStep, PTL DEF Spec

-----------------------------------------------------------------------------
(* Rows name configured parents.                                           *)

LEMMA ActiveHasParentStep == TypeOK /\ ActiveHasParent /\ [Next]_vars => ActiveHasParent'
<1>. SUFFICES ASSUME TypeOK, ActiveHasParent, [Next]_vars PROVE ActiveHasParent'
  OBVIOUS
<1>. USE DEF ActiveHasParent
<1>1. CASE UNCHANGED <<parents, parentOf>>
  BY <1>1
<1>2. ASSUME NEW p \in Channels, DeleteJTCParentChannel(p)  PROVE ActiveHasParent'
  BY <1>2 DEF DeleteJTCParentChannel
<1>3. ASSUME NEW c, DeleteJTCActiveChannel(c), parents' = parents  PROVE ActiveHasParent'
  BY <1>3 DEF DeleteJTCActiveChannel, TypeOK, DataOK
<1>4. ASSUME NEW S, parents' = parents \cup S, parentOf' = parentOf  PROVE ActiveHasParent'
  BY <1>4
<1>5. ASSUME NEW t \in Handlers, InsertRow(t)  PROVE ActiveHasParent'
  <2>1. arg[t].new \in Temps
    BY <1>5 DEF InsertRow, TypeOK, ControlOK, LocalOK
  <2>2. CASE arg[t].chan \in parents /\ CreateJTCActiveChannel(arg[t].new, arg[t].chan)
    BY <1>5, <2>1, <2>2 DEF InsertRow, CreateJTCActiveChannel, TypeOK, DataOK
  <2>3. CASE UNCHANGED parentOf
    BY <1>1, <1>5, <2>3 DEF InsertRow
  <2>. QED  BY <1>5, <2>2, <2>3 DEF InsertRow
<1>6. ASSUME NEW t \in Handlers, Plain(t)  PROVE ActiveHasParent'
  <2>1. CASE DeleteRow(t)
    BY <1>1, <1>3, <2>1 DEF DeleteRow
  <2>2. CASE DropRow(t)
    BY <1>1, <1>3, <2>2 DEF DropRow
  <2>3. CASE InsertParent(t)
    BY <1>1, <1>4, <2>3 DEF InsertParent
  <2>4. CASE DeleteParent(t)
    <3>1. arg[t].chan \in Channels
      BY <2>4 DEF DeleteParent, TypeOK, ControlOK, LocalOK, ChanLabels, Args
    <3>. QED  BY <1>1, <1>2, <2>4, <3>1 DEF DeleteParent
  <2>5. \/ DeleteRow(t) \/ DropRow(t) \/ InsertParent(t) \/ DeleteParent(t) \/ InsertRow(t)
        \/ UNCHANGED <<parents, parentOf>>
    BY <1>6 DEF Plain, db, CleanupLookup, CountUsers, DeleteEmpty, CacheLookup, QueryParent,
                StoreParent, CheckEnabled, UndoCreate, MoveOwner, Forget, CheckSetup, Publish,
                Invalidate, DeleteChannel
  <2>. QED  BY <1>1, <1>5, <2>1, <2>2, <2>3, <2>4, <2>5
<1>7. CASE World
  <2>1. ASSUME NEW c \in Channels, ApiDeleteParent(c)  PROVE ActiveHasParent'
    BY <1>2, <2>1 DEF ApiDeleteParent
  <2>2. ASSUME NEW c \in Channels, ApiAddParent(c)  PROVE ActiveHasParent'
    BY <1>4, <2>2 DEF ApiAddParent
  <2>3. \/ \E c \in Channels : ApiDeleteParent(c) \/ ApiAddParent(c)
        \/ UNCHANGED <<parents, parentOf>>
    BY <1>7 DEF World, db, UserMoves, UserMutes, Kick, AdminDeletes, AdminCommands,
                ApiUpdateModule, CacheExpires, Crash, Restart
  <2>. QED  BY <1>1, <2>1, <2>2, <2>3
<1>8. ASSUME NEW t \in Handlers, MakeChannel(t) \/ MakeParent(t) \/ Deliver(t)  PROVE ActiveHasParent'
  BY <1>1, <1>8 DEF MakeChannel, MakeParent, Deliver, db
<1>9. CASE UNCHANGED vars
  BY <1>1, <1>9 DEF vars, db
<1>. QED
  BY <1>6, <1>7, <1>8, <1>9, HandleCases DEF Next

\* The foreign key survives every interleaving of joins with removals by
\* /jointocreate remove and by the API, stale cache entries included: a row
\* always names a configured parent and a channel the bot made as temporary.
THEOREM RowsHaveParents == Spec => []ActiveHasParent
<1>1. Init => ActiveHasParent
  BY DEF Init, ActiveHasParent
<1>. QED  BY <1>1, TypeCorrect, ActiveHasParentStep, PTL DEF Spec

-----------------------------------------------------------------------------
(* Deleted channels stay deleted.                                          *)

\* Discord never gives an id twice.
NoReuse == used \subseteq used' /\ live' \cap used \subseteq live

LEMMA NoReuseStep == TypeOK /\ [Next]_vars => NoReuse
<1>. SUFFICES ASSUME TypeOK, [Next]_vars PROVE NoReuse
  OBVIOUS
<1>. USE DEF NoReuse, TypeOK, DataOK
<1>1. ASSUME used' = used, live' \subseteq live  PROVE NoReuse
  BY <1>1
<1>2. ASSUME NEW t \in Handlers, Plain(t)  PROVE NoReuse
  <2>1. used' = used
    BY <1>2 DEF Plain, discord, CleanupLookup, CountUsers, DeleteEmpty, DeleteRow, CacheLookup,
                QueryParent, StoreParent, CheckEnabled, InsertRow, UndoCreate, MoveOwner, DropRow,
                Forget, CheckSetup, InsertParent, Publish, DeleteParent, Invalidate, DeleteChannel
  <2>2. live' \subseteq live
    BY <1>2 DEF Plain, discord, CleanupLookup, CountUsers, DeleteEmpty, DeleteRow, CacheLookup,
                QueryParent, StoreParent, CheckEnabled, InsertRow, UndoCreate, MoveOwner, DropRow,
                Forget, CheckSetup, InsertParent, Publish, DeleteParent, Invalidate, DeleteChannel,
                Delete
  <2>. QED  BY <1>1, <2>1, <2>2
<1>3. ASSUME NEW t \in Handlers, MakeChannel(t) \/ MakeParent(t)  PROVE NoReuse
  BY <1>3 DEF MakeChannel, MakeParent, Create, NewChannel
<1>4. CASE World
  BY <1>1, <1>4 DEF World, discord, UserMoves, UserMutes, Kick, AdminDeletes, AdminCommands, Delete,
                ApiAddParent, ApiDeleteParent, ApiUpdateModule, CacheExpires, Crash, Restart
<1>5. ASSUME NEW t \in Handlers, Deliver(t)  PROVE NoReuse
  BY <1>1, <1>5 DEF Deliver, discord
<1>6. CASE UNCHANGED vars
  BY <1>1, <1>6 DEF vars, discord
<1>. QED
  BY <1>2, <1>3, <1>4, <1>5, <1>6, HandleCases DEF Next

\* Every event in the gateway is an old one, or it was sent in this step.
EventsKept(e) ==
    \A i \in 1..Len(gateway') :
        (\E j \in 1..Len(gateway) : gateway'[i] = gateway[j]) \/ gateway'[i] = e

LEMMA SendKeeps ==
    ASSUME gateway \in Seq(Events), NEW e \in Events, Send(e)
    PROVE  EventsKept(e)
BY DEF Send, EventsKept

\* A step sends at most one event; a delete event names a channel it deleted.
SendsOK == \E e \in Events :
    EventsKept(e) /\ (e.kind = "delete" => Gone(e.chan)')

LEMMA UnsentOK ==
    ASSUME gateway \in Seq(Events), gateway' = gateway \/ gateway' = <<>>
    PROVE  SendsOK
<1>1. Event("setup", None, None) \in Events
  BY EventTypes
<1>2. EventsKept(Event("setup", None, None))
  BY DEF EventsKept
<1>. QED  BY <1>1, <1>2 DEF SendsOK, Event

LEMMA VoiceOK ==
    ASSUME gateway \in Seq(Events), NEW u \in Users, NEW c \in Channels \cup {None},
           Send(Event("voice", u, c))
    PROVE  SendsOK
BY SendKeeps, EventTypes DEF SendsOK, Event

LEMMA DeleteOK ==
    ASSUME TypeOK, NEW c \in live, Delete(c), UNCHANGED used
    PROVE  SendsOK
<1>1. Event("delete", None, c) \in Events
  BY EventTypes DEF TypeOK, DataOK
<1>2. EventsKept(Event("delete", None, c))
  BY <1>1, SendKeeps DEF Delete, TypeOK, DataOK
<1>3. Gone(c)'
  BY DEF Gone, Delete, TypeOK, DataOK
<1>. QED  BY <1>1, <1>2, <1>3 DEF SendsOK, Event

LEMMA PlainSends ==
    ASSUME TypeOK, NEW t \in Handlers, Plain(t)
    PROVE  SendsOK
<1>0. gateway \in Seq(Events)
  BY DEF TypeOK, DataOK
<1>1. CASE DeleteEmpty(t)
  BY <1>0, <1>1, UnsentOK, DeleteOK DEF DeleteEmpty
<1>2. CASE UndoCreate(t)
  BY <1>0, <1>2, UnsentOK, DeleteOK DEF UndoCreate
<1>3. CASE DeleteChannel(t)
  BY <1>0, <1>3, UnsentOK, DeleteOK DEF DeleteChannel
<1>4. CASE MoveOwner(t)
  <2>1. arg[t].user \in Users /\ arg[t].new \in Channels
    BY <1>4 DEF MoveOwner, TypeOK, ControlOK, LocalOK, VoiceLabels, Args, Channels
  <2>. QED  BY <1>0, <1>4, <2>1, UnsentOK, VoiceOK DEF MoveOwner
<1>5. \/ DeleteEmpty(t) \/ UndoCreate(t) \/ DeleteChannel(t) \/ MoveOwner(t)
      \/ gateway' = gateway
  BY DEF Plain, CleanupLookup, CountUsers, DeleteRow, CacheLookup, QueryParent, StoreParent,
         CheckEnabled, InsertRow, DropRow, Forget, CheckSetup, InsertParent, Publish,
         DeleteParent, Invalidate
<1>. QED  BY <1>0, <1>1, <1>2, <1>3, <1>4, <1>5, UnsentOK

LEMMA WorldSends ==
    ASSUME TypeOK, World
    PROVE  SendsOK
<1>0. gateway \in Seq(Events)
  BY DEF TypeOK, DataOK
<1>1. ASSUME NEW u \in Users, NEW c \in Channels \cup {None}, UserMoves(u, c)  PROVE SendsOK
  BY <1>0, <1>1, VoiceOK DEF UserMoves
<1>2. ASSUME NEW u \in Users, UserMutes(u)  PROVE SendsOK
  <2>1. voice[u] \in Channels
    BY <1>2 DEF UserMutes, TypeOK, DataOK
  <2>. QED  BY <1>0, <1>2, <2>1, VoiceOK DEF UserMutes
<1>3. ASSUME NEW u \in Users, Kick(u)  PROVE SendsOK
  BY <1>0, <1>3, VoiceOK DEF Kick
<1>4. ASSUME NEW c \in Channels, AdminDeletes(c)  PROVE SendsOK
  BY <1>4, DeleteOK DEF AdminDeletes
<1>5. ASSUME NEW k \in {"setup", "remove"}, NEW c \in Channels \cup {None}, AdminCommands(k, c)
      PROVE  SendsOK
  <2>1. Event(k, None, c) \in Events
    BY <1>5, EventTypes DEF AdminCommands, TypeOK, DataOK
  <2>2. EventsKept(Event(k, None, c))
    BY <1>0, <1>5, <2>1, SendKeeps DEF AdminCommands
  <2>. QED  BY <1>5, <2>1, <2>2 DEF SendsOK, Event
<1>6. \/ \E u \in Users, c \in Channels \cup {None} : UserMoves(u, c)
      \/ \E u \in Users : UserMutes(u) \/ Kick(u)
      \/ \E c \in Channels : AdminDeletes(c)
      \/ \E c \in Channels \cup {None}, k \in {"setup", "remove"} : AdminCommands(k, c)
      \/ gateway' = gateway \/ gateway' = <<>>
  BY DEF World, ApiAddParent, ApiDeleteParent, ApiUpdateModule, CacheExpires, Crash, Restart
<1>. QED  BY <1>0, <1>1, <1>2, <1>3, <1>4, <1>5, <1>6, UnsentOK

LEMMA GatewayGone ==
    ASSUME TypeOK, DeletedAreGone, NoReuse, SendsOK
    PROVE  (\A i \in 1..Len(gateway) : gateway[i].kind = "delete" => Gone(gateway[i].chan))'
BY DEF DeletedAreGone, NoReuse, SendsOK, EventsKept, Gone

LEMMA GotoGone ==
    ASSUME TypeOK, DeletedAreGone, NoReuse, NEW t \in Handlers, NEW l \in Labels \ {"dropRow"},
           Goto(t, l)
    PROVE  (\A s \in Handlers : pc[s] = "dropRow" => Gone(arg[s].chan))'
<1>. SUFFICES ASSUME NEW s \in Handlers, pc'[s] = "dropRow"  PROVE Gone(arg[s].chan)'
  OBVIOUS
<1>1. s # t /\ pc[s] = "dropRow" /\ arg'[s] = arg[s]
  BY DEF Goto, TypeOK, ControlOK
<1>. QED  BY <1>1 DEF DeletedAreGone, NoReuse, Gone

LEMMA PlainLeavesDrop ==
    ASSUME NEW t \in Handlers, Plain(t)
    PROVE  \E l \in Labels \ {"dropRow"} : Goto(t, l)
BY DEF Plain, Labels, AfterLeft, Found, Missing, CleanupLookup, CountUsers, DeleteEmpty, DeleteRow,
       CacheLookup, QueryParent, StoreParent, CheckEnabled, InsertRow, UndoCreate, MoveOwner,
       DropRow, Forget, CheckSetup, InsertParent, Publish, DeleteParent, Invalidate, DeleteChannel

LEMMA DeletedAreGoneStep == TypeOK /\ DeletedAreGone /\ [Next]_vars => DeletedAreGone'
<1>. SUFFICES ASSUME TypeOK, DeletedAreGone, [Next]_vars PROVE DeletedAreGone'
  OBVIOUS
<1>0. NoReuse /\ gateway \in Seq(Events)
  BY NoReuseStep DEF TypeOK, DataOK
<1>1. ASSUME UNCHANGED <<pc, arg>>
      PROVE  (\A s \in Handlers : pc[s] = "dropRow" => Gone(arg[s].chan))'
  BY <1>0, <1>1 DEF DeletedAreGone, NoReuse, Gone
<1>2. ASSUME NEW t \in Handlers, Plain(t)  PROVE DeletedAreGone'
  BY <1>0, <1>2, PlainSends, GatewayGone, PlainLeavesDrop, GotoGone DEF DeletedAreGone
<1>3. ASSUME NEW t \in Handlers, MakeChannel(t) \/ MakeParent(t)  PROVE DeletedAreGone'
  <2>1. SendsOK
    BY <1>0, <1>3, UnsentOK DEF MakeChannel, MakeParent
  <2>2. ASSUME NEW s \in Handlers, pc'[s] = "dropRow"
        PROVE  pc[s] = "dropRow" /\ arg'[s].chan = arg[s].chan
    BY <1>3, <2>2 DEF MakeChannel, MakeParent, Create, Goto, TypeOK, ControlOK, Args
  <2>3. (\A s \in Handlers : pc[s] = "dropRow" => Gone(arg[s].chan))'
    BY <1>0, <2>2 DEF DeletedAreGone, NoReuse, Gone
  <2>. QED  BY <1>0, <2>1, <2>3, GatewayGone DEF DeletedAreGone
<1>4. ASSUME NEW t \in Handlers, Deliver(t)  PROVE DeletedAreGone'
  <2>. DEFINE e == Head(gateway)
  <2>1. e \in Events /\ e = gateway[1] /\ 1 \in 1..Len(gateway)
    BY <1>0, <1>4 DEF Deliver
  <2>2. \A i \in 1..Len(gateway') : \E j \in 1..Len(gateway) : gateway'[i] = gateway[j]
    BY <1>0, <1>4 DEF Deliver
  <2>3. UNCHANGED <<live, used>>
    BY <1>4 DEF Deliver, discord
  <2>4. ASSUME NEW s \in Handlers, pc'[s] = "dropRow"  PROVE Gone(arg[s].chan)'
    <3>1. CASE s = t
      <4>1. e.kind = "delete" /\ arg'[t].chan = e.chan
        <5>1. CASE e.kind = "voice"
          BY <1>4, <2>4, <3>1, <5>1 DEF Deliver, Start, TypeOK, ControlOK
        <5>2. CASE e.kind \in {"remove", "setup"}
          BY <1>4, <2>4, <3>1, <5>2 DEF Deliver, Start, TypeOK, ControlOK
        <5>3. CASE e.kind = "delete"
          BY <1>4, <3>1, <5>3 DEF Deliver, Start, TypeOK, ControlOK
        <5>. QED  BY <2>1, <5>1, <5>2, <5>3 DEF Events
      <4>. QED  BY <2>1, <2>3, <3>1, <4>1 DEF DeletedAreGone, Gone
    <3>2. CASE s # t
      <4>1. pc[s] = "dropRow" /\ arg'[s] = arg[s]
        BY <1>4, <2>4, <3>2 DEF Deliver, TypeOK, ControlOK
      <4>. QED  BY <2>3, <4>1 DEF DeletedAreGone, Gone
    <3>. QED  BY <3>1, <3>2
  <2>5. ASSUME NEW i \in 1..Len(gateway'), gateway'[i].kind = "delete"
        PROVE  Gone(gateway[i].chan)'
    BY <2>2, <2>3, <2>5 DEF DeletedAreGone, Gone
  <2>. QED  BY <2>4, <2>5 DEF DeletedAreGone
<1>5. CASE World
  <2>1. CASE UNCHANGED <<pc, arg>>
    BY <1>0, <1>1, <1>5, <2>1, WorldSends, GatewayGone DEF DeletedAreGone
  <2>2. CASE Crash
    BY <2>2 DEF Crash, DeletedAreGone
  <2>3. UNCHANGED <<pc, arg>> \/ Crash
    BY <1>5 DEF World, UserMoves, UserMutes, Kick, AdminDeletes, AdminCommands, ApiAddParent,
                ApiDeleteParent, ApiUpdateModule, CacheExpires, Restart
  <2>. QED  BY <2>1, <2>2, <2>3
<1>6. CASE UNCHANGED vars
  BY <1>0, <1>1, <1>6, UnsentOK, GatewayGone DEF vars, DeletedAreGone
<1>. QED
  BY <1>2, <1>3, <1>4, <1>5, <1>6, HandleCases DEF Next

-----------------------------------------------------------------------------
(* The cleanup drops the row of a channel that is gone or known as lost.   *)

\* A goroutine that only moves on to another call than these three, and every
\* other goroutine, keeps what CleanedIsGone says of it.
Cleaned(t) ==
    /\ pc[t] = "insert" => arg[t].new \in used
    /\ pc[t] \in {"count", "deleteEmpty"} => arg[t].old \in used
    /\ pc[t] = "deleteRow" => Gone(arg[t].old) \/ arg[t].old \in lost

LEMMA CleanedKept ==
    ASSUME CleanedIsGone, NoReuse, lost \subseteq lost', NEW t \in Handlers,
           pc'[t] = pc[t], arg'[t] = arg[t]
    PROVE  Cleaned(t)'
BY DEF CleanedIsGone, NoReuse, Cleaned, Gone

LEMMA CleanedGoto ==
    ASSUME TypeOK, CleanedIsGone, NoReuse, lost \subseteq lost', NEW t \in Handlers, NEW l \in Labels,
           Goto(t, l),
           l \in {"count", "deleteEmpty"} => arg[t].old \in used,
           l = "deleteRow" => Gone(arg[t].old)' \/ arg[t].old \in lost',
           l # "insert"
    PROVE  \A s \in Handlers : Cleaned(s)'
<1>1. ASSUME NEW s \in Handlers, s # t  PROVE Cleaned(s)'
  <2>1. pc'[s] = pc[s] /\ arg'[s] = arg[s]
    BY <1>1 DEF Goto, TypeOK, ControlOK
  <2>. QED  BY <2>1, CleanedKept
<1>2. Cleaned(t)'
  BY DEF Goto, TypeOK, ControlOK, Cleaned, Gone, NoReuse
<1>. QED  BY <1>1, <1>2

LEMMA LeftBehind ==
    ASSUME NEW c \in used, LeaveBehind(c), UNCHANGED <<live, used>>
    PROVE  Gone(c)' \/ c \in lost'
BY DEF LeaveBehind, Gone

\* What a handler's next call is, as far as CleanedIsGone cares.
LEMMA PlainCleans ==
    ASSUME TypeOK, CleanedIsGone, NEW t \in Handlers, Plain(t)
    PROVE  \E l \in Labels :
              /\ Goto(t, l) /\ l # "insert" /\ lost \subseteq lost'
              /\ l \in {"count", "deleteEmpty"} => arg[t].old \in used
              /\ l = "deleteRow" => Gone(arg[t].old)' \/ arg[t].old \in lost'
<1>1. CASE CleanupLookup(t)
  BY <1>1 DEF CleanupLookup, CleanedIsGone, TypeOK, ControlOK, LocalOK, Args, Labels, AfterLeft
<1>2. CASE CountUsers(t)
  <2>1. arg[t].old \in used /\ UNCHANGED <<live, used>>
    BY <1>2 DEF CountUsers, CleanedIsGone, discord
  <2>2. CASE Goto(t, "deleteRow") /\ LeaveBehind(arg[t].old)
    <3>1. arg' = arg
      BY <2>2 DEF Goto
    <3>. QED  BY <2>1, <2>2, <3>1, LeftBehind DEF LeaveBehind, Labels
  <2>3. CASE Goto(t, "deleteEmpty") /\ lost' = lost
    BY <2>1, <2>3 DEF Labels
  <2>4. CASE AfterLeft(t) /\ lost' = lost
    BY <2>4 DEF AfterLeft, Labels
  <2>. QED  BY <1>2, <2>2, <2>3, <2>4 DEF CountUsers
<1>3. CASE DeleteEmpty(t)
  <2>1. arg[t].old \in used /\ used' = used /\ arg' = arg
    BY <1>3 DEF DeleteEmpty, Goto, CleanedIsGone
  <2>2. Gone(arg[t].old)' \/ arg[t].old \in lost'
    <3>1. CASE Delete(arg[t].old)
      BY <2>1, <3>1 DEF Delete, Gone
    <3>2. CASE arg[t].old \notin live /\ UNCHANGED live
      BY <2>1, <3>2 DEF Gone
    <3>3. CASE LeaveBehind(arg[t].old) /\ UNCHANGED live
      BY <2>1, <3>3, LeftBehind
    <3>. QED  BY <1>3, <3>1, <3>2, <3>3 DEF DeleteEmpty
  <2>3. lost \subseteq lost' /\ Goto(t, "deleteRow") /\ "deleteRow" \in Labels
    BY <1>3 DEF DeleteEmpty, LeaveBehind, Labels
  <2>. QED  BY <2>2, <2>3
<1>4. CASE UndoCreate(t)
  BY <1>4 DEF UndoCreate, LeaveBehind, Labels
<1>5. CASE DeleteParent(t)
  BY <1>5 DEF DeleteParent, DeleteJTCParentChannel, Labels
<1>6. \/ CleanupLookup(t) \/ CountUsers(t) \/ DeleteEmpty(t) \/ UndoCreate(t) \/ DeleteParent(t)
      \/ /\ \E l \in Labels \ {"insert", "count", "deleteEmpty", "deleteRow"} : Goto(t, l)
         /\ lost' = lost
  BY DEF Plain, Labels, AfterLeft, Found, Missing, DeleteRow, CacheLookup, QueryParent, StoreParent,
         CheckEnabled, InsertRow, MoveOwner, DropRow, Forget, CheckSetup, InsertParent, Publish,
         Invalidate, DeleteChannel
<1>. QED  BY <1>1, <1>2, <1>3, <1>4, <1>5, <1>6

LEMMA CleanedIsGoneStep == TypeOK /\ CleanedIsGone /\ [Next]_vars => CleanedIsGone'
<1>. SUFFICES ASSUME TypeOK, CleanedIsGone, [Next]_vars PROVE CleanedIsGone'
  OBVIOUS
<1>0. NoReuse
  BY NoReuseStep
<1>. DEFINE Rows == \A c \in Channels : parentOf[c] # None => c \in used
<1>1. ASSUME Rows', \A s \in Handlers : Cleaned(s)'  PROVE CleanedIsGone'
  BY <1>1 DEF CleanedIsGone, Cleaned
<1>2. ASSUME \A c \in Channels : parentOf'[c] # None => parentOf[c] # None  PROVE Rows'
  BY <1>0, <1>2 DEF CleanedIsGone, NoReuse
<1>3. ASSUME NEW t \in Handlers, Plain(t)  PROVE CleanedIsGone'
  <2>1. \A s \in Handlers : Cleaned(s)'
    BY <1>0, <1>3, PlainCleans, CleanedGoto
  <2>2. CASE InsertRow(t)
    <3>1. arg[t].new \in used /\ used' = used
      BY <2>2 DEF InsertRow, CleanedIsGone, discord
    <3>2. Rows'
      BY <2>2, <3>1 DEF InsertRow, CreateJTCActiveChannel, CleanedIsGone, TypeOK, DataOK
    <3>. QED  BY <1>1, <2>1, <3>2
  <2>3. ASSUME ~InsertRow(t)  PROVE \A c \in Channels : parentOf'[c] # None => parentOf[c] # None
    BY <1>3, <2>3 DEF Plain, db, CleanupLookup, CountUsers, DeleteEmpty, DeleteRow, CacheLookup,
       QueryParent, StoreParent, CheckEnabled, UndoCreate, MoveOwner, DropRow, Forget, CheckSetup,
       InsertParent, Publish, DeleteParent, Invalidate, DeleteChannel, DeleteJTCActiveChannel,
       DeleteJTCParentChannel, TypeOK, DataOK
  <2>. QED  BY <1>1, <1>2, <2>1, <2>2, <2>3
<1>4. ASSUME NEW t \in Handlers, MakeChannel(t) \/ MakeParent(t)  PROVE CleanedIsGone'
  <2>1. Rows'
    BY <1>2, <1>4 DEF MakeChannel, MakeParent, db
  <2>2. lost \subseteq lost'
    BY <1>4 DEF MakeChannel, MakeParent, Create
  <2>3. ASSUME NEW s \in Handlers, s # t  PROVE Cleaned(s)'
    <3>1. pc'[s] = pc[s] /\ arg'[s] = arg[s]
      BY <1>4, <2>3 DEF MakeChannel, MakeParent, Create, Goto, TypeOK, ControlOK
    <3>. QED  BY <1>0, <2>2, <3>1, CleanedKept
  <2>4. \/ pc'[t] = "idle" \/ pc'[t] = "insertParent"
        \/ pc'[t] = "insert" /\ \E n \in Temps : NewChannel(n) /\ arg'[t].new = n
    BY <1>4 DEF MakeChannel, MakeParent, Create, Goto, TypeOK, ControlOK, Args
  <2>5. Cleaned(t)'
    BY <2>4 DEF Cleaned, NewChannel
  <2>. QED  BY <1>1, <2>1, <2>3, <2>5
<1>5. ASSUME NEW t \in Handlers, Deliver(t)  PROVE CleanedIsGone'
  <2>1. Rows' /\ lost' = lost
    BY <1>2, <1>5 DEF Deliver, db
  <2>2. ASSUME NEW s \in Handlers, s # t  PROVE Cleaned(s)'
    <3>1. pc'[s] = pc[s] /\ arg'[s] = arg[s]
      BY <1>5, <2>2 DEF Deliver, TypeOK, ControlOK
    <3>. QED  BY <1>0, <2>1, <3>1, CleanedKept
  <2>3. pc'[t] \in {"tracked", "lookup", "idle", "dropRow", "checkSetup"}
    <3>1. Head(gateway) \in Events
      BY <1>5 DEF Deliver, TypeOK, DataOK
    <3>. QED  BY <1>5, <3>1 DEF Deliver, Start, Events, TypeOK, ControlOK
  <2>4. Cleaned(t)'
    BY <2>3 DEF Cleaned
  <2>. QED  BY <1>1, <2>1, <2>2, <2>4
<1>6. CASE World
  <2>1. Rows'
    <3>1. \A c \in Channels : parentOf'[c] # None => parentOf[c] # None
      BY <1>6 DEF World, db, UserMoves, UserMutes, Kick, AdminDeletes, AdminCommands, ApiAddParent,
                  ApiDeleteParent, DeleteJTCParentChannel, ApiUpdateModule, CacheExpires, Crash,
                  Restart, TypeOK, DataOK
    <3>. QED  BY <1>2, <3>1
  <2>2. CASE Crash
    BY <1>1, <2>1, <2>2 DEF Crash, Cleaned
  <2>3. CASE UNCHANGED <<pc, arg>> /\ (lost \subseteq lost')
    BY <1>0, <1>1, <2>1, <2>3, CleanedKept
  <2>4. Crash \/ (UNCHANGED <<pc, arg>> /\ lost \subseteq lost')
    BY <1>6 DEF World, UserMoves, UserMutes, Kick, AdminDeletes, AdminCommands, ApiAddParent,
                ApiDeleteParent, DeleteJTCParentChannel, ApiUpdateModule, CacheExpires, Restart
  <2>. QED  BY <2>2, <2>3, <2>4
<1>7. CASE UNCHANGED vars
  BY <1>0, <1>1, <1>2, <1>7, CleanedKept DEF vars, db
<1>. QED
  BY <1>3, <1>4, <1>5, <1>6, <1>7, HandleCases DEF Next

-----------------------------------------------------------------------------
(* No temporary channel is left without a row but those the history names. *)

Accounted(c) == parentOf[c] # None \/ c \in lost \/ \E t \in Handlers : Holds(t, c)

\* The goroutines that do not run keep what they hold.
LEMMA OthersHold ==
    ASSUME TypeOK, NEW t \in Handlers, NEW l \in Labels, Goto(t, l)
    PROVE  \A s \in Handlers \ {t}, c \in Channels : Holds(s, c) => Holds(s, c)'
BY DEF Goto, Holds, TypeOK, ControlOK

\* A goroutine at any other call than the insertion and its undoing holds nothing.
LEMMA HoldersKeep ==
    ASSUME TypeOK, NEW t \in Handlers, NEW l \in Labels, Goto(t, l), pc[t] \notin {"insert", "undo"}
    PROVE  \A c \in Channels : (\E s \in Handlers : Holds(s, c)) => (\E s \in Handlers : Holds(s, c))'
<1>1. \A c \in Channels : ~Holds(t, c)
  BY DEF Holds
<1>. QED  BY <1>1, OthersHold

LEMMA TrackedOrLostStep ==
    TypeOK /\ DeletedAreGone /\ CleanedIsGone /\ TrackedOrLost /\ [Next]_vars => TrackedOrLost'
<1>. SUFFICES ASSUME TypeOK, DeletedAreGone, CleanedIsGone, TrackedOrLost, [Next]_vars,
                     NEW c \in live' \cap Temps
              PROVE  Accounted(c)'
  BY DEF TrackedOrLost, Accounted
<1>0. NoReuse /\ c \in Channels /\ c \in used'
  BY NoReuseStep, TypeStep DEF TypeOK, DataOK, Channels
<1>1. ASSUME c \in used  PROVE c \in live /\ Accounted(c)
  BY <1>0, <1>1 DEF NoReuse, TrackedOrLost, Accounted
<1>2. ASSUME NEW p \in Channels, DeleteJTCParentChannel(p), c \in live, parentOf[c] # None
      PROVE  parentOf'[c] # None \/ c \in lost'
  BY <1>0, <1>2 DEF DeleteJTCParentChannel
<1>3. ASSUME NEW t \in Handlers, Plain(t)  PROVE Accounted(c)'
  <2>0. c \in live /\ Accounted(c) /\ Moves(t)
    BY <1>1, <1>0, <1>3, PlainMoves DEF Plain, discord, CleanupLookup, CountUsers, DeleteEmpty,
       DeleteRow, CacheLookup, QueryParent, StoreParent, CheckEnabled, InsertRow, UndoCreate,
       MoveOwner, DropRow, Forget, CheckSetup, InsertParent, Publish, DeleteParent, Invalidate,
       DeleteChannel
  <2>1. ASSUME pc[t] \notin {"insert", "undo"}, lost \subseteq lost',
               parentOf[c] # None => parentOf'[c] # None \/ c \in lost'
        PROVE  Accounted(c)'
    BY <1>0, <2>0, <2>1, HoldersKeep DEF Accounted, Moves
  <2>2. CASE DeleteRow(t)
    <3>1. arg[t].old # c \/ c \in lost
      BY <2>0, <2>2 DEF DeleteRow, CleanedIsGone, Gone
    <3>. QED  BY <1>0, <2>1, <2>2, <3>1 DEF DeleteRow, DeleteJTCActiveChannel, TypeOK, DataOK
  <2>3. CASE DropRow(t)
    <3>1. arg[t].chan # c
      BY <2>0, <2>3 DEF DropRow, DeletedAreGone, Gone
    <3>. QED  BY <1>0, <2>1, <2>3, <3>1 DEF DropRow, DeleteJTCActiveChannel, TypeOK, DataOK
  <2>4. CASE DeleteParent(t)
    <3>1. arg[t].chan \in Channels
      BY <2>4 DEF DeleteParent, TypeOK, ControlOK, LocalOK, ChanLabels, Args
    <3>2. \/ DeleteJTCParentChannel(arg[t].chan)
          \/ UNCHANGED <<parents, parentOf, lost>>
      BY <2>4 DEF DeleteParent
    <3>3. lost \subseteq lost'
      BY <3>2 DEF DeleteJTCParentChannel
    <3>. QED  BY <1>2, <2>0, <2>1, <2>4, <3>1, <3>2, <3>3 DEF DeleteParent
  <2>5. CASE InsertRow(t)
    <3>1. \/ arg[t].new \in Channels /\ parentOf'[arg[t].new] = arg[t].chan
          \/ UNCHANGED parentOf
      BY <2>5 DEF InsertRow, CreateJTCActiveChannel, TypeOK, DataOK, ControlOK, LocalOK, Channels
    <3>2. arg[t].chan # None
      BY <2>5 DEF InsertRow, TypeOK, ControlOK, LocalOK, ChanLabels
    <3>3. parentOf[c] # None => parentOf'[c] # None
      BY <1>0, <2>5, <3>2 DEF InsertRow, CreateJTCActiveChannel, TypeOK, DataOK
    <3>4. \A s \in Handlers \ {t} : Holds(s, c) => Holds(s, c)'
      BY <1>0, <2>0, OthersHold DEF Moves
    <3>5. Holds(t, c) => parentOf'[c] # None \/ Holds(t, c)'
      <4>1. CASE Goto(t, "undo")
        BY <4>1 DEF Goto, Holds, TypeOK, ControlOK
      <4>2. CASE CreateJTCActiveChannel(arg[t].new, arg[t].chan)
        BY <1>0, <3>2, <4>2 DEF CreateJTCActiveChannel, Holds, TypeOK, DataOK
      <4>. QED  BY <2>5, <4>1, <4>2 DEF InsertRow
    <3>6. lost' = lost
      BY <2>5 DEF InsertRow
    <3>. QED  BY <2>0, <3>3, <3>4, <3>5, <3>6 DEF Accounted
  <2>6. CASE UndoCreate(t)
    <3>1. \A s \in Handlers \ {t} : Holds(s, c) => Holds(s, c)'
      BY <1>0, <2>0, OthersHold DEF Moves
    <3>2. Holds(t, c) => c \in lost'
      BY <2>0, <2>6 DEF UndoCreate, LeaveBehind, Holds, Delete
    <3>3. lost \subseteq lost' /\ parentOf' = parentOf
      BY <2>6 DEF UndoCreate, LeaveBehind, db
    <3>. QED  BY <2>0, <3>1, <3>2, <3>3 DEF Accounted
  <2>7. \/ DeleteRow(t) \/ DropRow(t) \/ DeleteParent(t) \/ InsertRow(t) \/ UndoCreate(t)
        \/ pc[t] \notin {"insert", "undo"} /\ parentOf' = parentOf /\ lost \subseteq lost'
    BY <1>3 DEF Plain, db, CleanupLookup, CountUsers, LeaveBehind, DeleteEmpty, CacheLookup, QueryParent,
                StoreParent, CheckEnabled, MoveOwner, Forget, CheckSetup, InsertParent, Publish,
                Invalidate, DeleteChannel
  <2>. QED  BY <2>1, <2>2, <2>3, <2>4, <2>5, <2>6, <2>7
<1>4. ASSUME NEW t \in Handlers, MakeChannel(t) \/ MakeParent(t)  PROVE Accounted(c)'
  <2>0. parentOf' = parentOf /\ pc[t] \notin {"insert", "undo"}
    BY <1>4 DEF MakeChannel, MakeParent, db
  <2>1. CASE \E l \in Labels : Goto(t, l) /\ UNCHANGED <<live, used, lost>>
    BY <1>0, <1>1, <2>0, <2>1, HoldersKeep DEF Accounted
  <2>2. ASSUME NEW n \in Channels \ used, NewChannel(n), lost' = lost \cup {n}, Goto(t, "idle")
        PROVE  Accounted(c)'
    <3>1. CASE c = n
      BY <2>2, <3>1 DEF Accounted
    <3>2. CASE c # n
      <4>1. Accounted(c) /\ "idle" \in Labels
        BY <1>0, <1>1, <2>2, <3>2 DEF NewChannel, Labels
      <4>. QED  BY <1>0, <2>0, <2>2, <4>1, HoldersKeep DEF Accounted
    <3>. QED  BY <3>1, <3>2
  <2>3. ASSUME NEW ids \in {Temps, Lobbies}, NEW l \in Labels, ids = Temps => l = "insert",
               NEW n \in ids \ used, NewChannel(n), lost' = lost,
               arg' = [arg EXCEPT ![t].new = n], pc' = [pc EXCEPT ![t] = l]
        PROVE  Accounted(c)'
    <3>1. CASE c = n
      <4>1. ids = Temps
        BY <2>3, <3>1, Disjoint
      <4>2. Holds(t, c)'
        BY <2>3, <3>1, <4>1 DEF Holds, TypeOK, ControlOK, Args
      <4>. QED  BY <4>2 DEF Accounted
    <3>2. CASE c # n
      <4>1. Accounted(c)
        BY <1>0, <1>1, <2>3, <3>2 DEF NewChannel
      <4>2. \A s \in Handlers : Holds(s, c) => Holds(s, c)'
        BY <2>0, <2>3 DEF Holds, TypeOK, ControlOK
      <4>. QED  BY <2>0, <2>3, <4>1, <4>2 DEF Accounted
    <3>. QED  BY <3>1, <3>2
  <2>4. ASSUME NEW ids \in {Temps, Lobbies}, NEW l \in Labels, ids = Temps => l = "insert",
               Create(t, ids, l)
        PROVE  Accounted(c)'
    <3>1. CASE \E k \in Labels : Goto(t, k) /\ UNCHANGED <<live, used, lost>>
      BY <2>1, <3>1
    <3>2. CASE \E n \in ids \ used : Goto(t, "idle") /\ NewChannel(n) /\ lost' = lost \cup {n}
      BY <2>2, <3>2 DEF Channels
    <3>3. CASE \E n \in ids \ used : /\ NewChannel(n) /\ lost' = lost
                                     /\ arg' = [arg EXCEPT ![t].new = n]
                                     /\ pc' = [pc EXCEPT ![t] = l]
      BY <2>3, <2>4, <3>3
    <3>. QED  BY <2>4, <3>1, <3>2, <3>3 DEF Create, Labels
  <2>5. CASE MakeChannel(t)
    BY <2>1, <2>4, <2>5 DEF MakeChannel, Labels
  <2>6. CASE MakeParent(t)
    <3>1. Lobbies # Temps \/ Lobbies = {}
      BY Disjoint
    <3>2. "insertParent" \in Labels
      BY DEF Labels
    <3>3. CASE Lobbies # Temps
      BY <2>4, <2>6, <3>2, <3>3 DEF MakeParent
    <3>4. CASE Lobbies = {}
      BY <2>1, <2>6, <3>4 DEF MakeParent, Create, Labels
    <3>. QED  BY <3>1, <3>3, <3>4
  <2>. QED  BY <1>4, <2>5, <2>6
<1>5. ASSUME NEW t \in Handlers, Deliver(t)  PROVE Accounted(c)'
  <2>1. Accounted(c) /\ UNCHANGED <<parentOf, lost>> /\ pc[t] = "idle"
    BY <1>1, <1>5 DEF Deliver, discord, db, TypeOK, DataOK
  <2>2. \A s \in Handlers : Holds(s, c) => Holds(s, c)'
    BY <1>5, <2>1 DEF Deliver, Holds, TypeOK, ControlOK
  <2>. QED  BY <2>1, <2>2 DEF Accounted
<1>6. CASE World
  <2>0. c \in live /\ Accounted(c)
    BY <1>1, <1>0, <1>6 DEF World, discord, UserMoves, UserMutes, Kick, AdminDeletes, AdminCommands,
       Delete, ApiAddParent, ApiDeleteParent, ApiUpdateModule, CacheExpires, Crash, Restart
  <2>1. ASSUME UNCHANGED <<pc, arg, parentOf, lost>>  PROVE Accounted(c)'
    BY <2>0, <2>1 DEF Accounted, Holds
  <2>2. ASSUME NEW p \in Channels, ApiDeleteParent(p)  PROVE Accounted(c)'
    <3>1. lost \subseteq lost' /\ DeleteJTCParentChannel(p) /\ UNCHANGED <<pc, arg>>
      BY <2>2 DEF ApiDeleteParent, DeleteJTCParentChannel
    <3>. QED  BY <1>2, <2>0, <3>1 DEF Accounted, Holds
  <2>3. CASE Crash
    BY <2>0, <2>3 DEF Crash, Accounted, db
  <2>4. \/ UNCHANGED <<pc, arg, parentOf, lost>> \/ Crash
        \/ \E p \in Channels : ApiDeleteParent(p)
    BY <1>6 DEF World, db, UserMoves, UserMutes, Kick, AdminDeletes, AdminCommands, ApiAddParent,
                ApiUpdateModule, CacheExpires, Restart
  <2>. QED  BY <2>1, <2>2, <2>3, <2>4
<1>7. CASE UNCHANGED vars
  BY <1>1, <1>0, <1>7 DEF vars, discord, db, Accounted, Holds
<1>. QED
  BY <1>3, <1>4, <1>5, <1>6, <1>7, HandleCases DEF Next

\* No order of events, goroutines, faults and crashes leaves a temporary channel
\* without a row, but for the five causes the history names, each recorded at the
\* call or crash that brings it about: a creation reported as failed, the cascade,
\* a failed ChannelDelete, a cleanup that could fetch neither the users nor the
\* channel, a crash between the creation and the insertion.
THEOREM NoOtherLeak == Spec => []TrackedOrLost
<1>1. Init => IInv
  <2>1. Init => ActiveHasParent /\ DeletedAreGone /\ CleanedIsGone
    BY DEF Init, ActiveHasParent, DeletedAreGone, CleanedIsGone
  <2>2. Init => TrackedOrLost
    BY Disjoint DEF Init, TrackedOrLost
  <2>. QED  BY <2>1, <2>2, TypeInit DEF IInv
<1>2. IInv /\ [Next]_vars => IInv'
  BY TypeStep, ActiveHasParentStep, DeletedAreGoneStep, CleanedIsGoneStep, TrackedOrLostStep DEF IInv
<1>3. IInv => TrackedOrLost
  BY DEF IInv
<1>. QED  BY <1>1, <1>2, <1>3, PTL DEF Spec
=============================================================================
