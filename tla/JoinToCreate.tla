---------------------------- MODULE JoinToCreate ----------------------------
(***************************************************************************)
(* The JoinToCreate module of the bot: a user who joins a configured       *)
(* parent voice channel gets a temporary channel of its own, and that      *)
(* channel is deleted when the last user leaves it.                        *)
(*                                                                         *)
(* Three parties share the state.  Discord owns the channels and where the *)
(* users are.  PostgreSQL owns the configured parents, the rows of the     *)
(* temporary channels and the module switch.  The bot owns a TTL cache of  *)
(* parents, a copy of the voice states, and one goroutine per event.  The  *)
(* HTTP API is another process: it writes to PostgreSQL and never to the   *)
(* cache of the bot.                                                       *)
(*                                                                         *)
(* One guild.  A step is one call to Discord, to PostgreSQL or to the      *)
(* cache, and everything up to the next such call.                         *)
(***************************************************************************)
EXTENDS Naturals, Sequences

CONSTANTS
    Users,        \* members of the guild
    Lobbies,      \* ids of the channels users join: made by admins or by /setup
    Temps,        \* ids Discord gives to the channels made by handleVoiceStateUpdate
    Handlers,     \* goroutines that may run at the same time
    None,
    MaxQueue,     \* events under way before users and admins pause
    MaxFaults,    \* failed calls
    MaxCrashes,   \* crashes of the bot
    MaxAdmin,     \* admin and API operations
    MaxNoise      \* mutes and cache expiries, which change nothing by themselves

Channels == Lobbies \cup Temps

ASSUME Disjoint == Lobbies \cap Temps = {} /\ None \notin Channels \cup Users
ASSUME Bounds == {MaxQueue, MaxFaults, MaxCrashes, MaxAdmin, MaxNoise} \subseteq Nat

VARIABLES
    live,         \* channels that exist at Discord
    used,         \* ids Discord has ever given out: it never gives one twice
    voice,        \* where each user is, None when in no voice channel
    gateway,      \* events Discord has sent and the bot has not dispatched
    parents,      \* jtc_parent_channels
    parentOf,     \* jtc_active_channels: channel_id -> parent_id, None without a row
    enabled,      \* guild_modules.enabled for this module
    up,           \* the bot runs
    seen,         \* discordgo's State: where the bot believes each user is
    cache,        \* module.go's TTL cache: "absent", "nil" or "parent"
    pc,           \* the next call of each goroutine, "idle" when it has ended
    arg,          \* the local variables of each goroutine
    lost,         \* history: channels a failed call, a cascade or a crash left behind
    faults, crashes, admin, noise  \* history: how much of each bound is spent

discord == <<live, used, voice>>
db      == <<parents, parentOf, enabled>>
budget  == <<faults, crashes, admin, noise>>
vars    == <<discord, gateway, db, up, seen, cache, pc, arg, lost, budget>>

Kinds  == {"voice", "delete", "setup", "remove"}
Events == [kind : {"voice"}, user : Users, chan : Channels \cup {None}]
          \cup [kind : {"delete", "remove"}, user : {None}, chan : Channels]
          \cup [kind : {"setup"}, user : {None}, chan : {None}]
Labels == {"idle", "tracked", "count", "deleteEmpty", "deleteRow",
           "lookup", "query", "storeParent", "storeNil",
           "checkEnabled", "make", "insert", "undo", "move",
           "dropRow", "forget",
           "checkSetup", "makeParent", "insertParent", "publish",
           "deleteParent", "invalidate", "deleteChannel"}
Args   == [kind : Kinds \cup {None}, user : Users \cup {None},
           old : Channels \cup {None}, chan : Channels \cup {None},
           new : Channels \cup {None}]
Blank  == [kind |-> None, user |-> None, old |-> None, chan |-> None, new |-> None]

Init ==
    /\ live \in SUBSET Lobbies
    /\ used = live
    /\ voice = [u \in Users |-> None]
    /\ gateway = <<>>
    /\ parents \in SUBSET live
    /\ parentOf = [c \in Channels |-> None]
    /\ enabled \in BOOLEAN
    /\ up = TRUE
    /\ seen = voice
    /\ cache = [c \in Channels |-> "absent"]
    /\ pc = [t \in Handlers |-> "idle"]
    /\ arg = [t \in Handlers |-> Blank]
    /\ lost = {}
    /\ faults = 0 /\ crashes = 0 /\ admin = 0 /\ noise = 0

-----------------------------------------------------------------------------
(* Discord, as the code uses it.  Events reach the bot in the order sent;  *)
(* those sent while the bot is down never do.                              *)

Event(k, u, c) == [kind |-> k, user |-> u, chan |-> c]

Send(e) == gateway' = IF up THEN Append(gateway, e) ELSE gateway

Room == Len(gateway) < MaxQueue

\* A user joins, leaves or moves between voice channels.
UserMoves(u, c) ==
    /\ Room
    /\ c \in live \cup {None}
    /\ c # voice[u]
    /\ voice[u] \in live \cup {None}
    /\ voice' = [voice EXCEPT ![u] = c]
    /\ Send(Event("voice", u, c))
    /\ UNCHANGED <<live, used, db, up, seen, cache, pc, arg, lost, budget>>

SpendNoise == noise < MaxNoise /\ noise' = noise + 1 /\ UNCHANGED <<faults, crashes, admin>>

\* A user mutes or deafens: the same event, with the same channel.
UserMutes(u) ==
    /\ SpendNoise /\ Room /\ up
    /\ voice[u] \in live
    /\ Send(Event("voice", u, voice[u]))
    /\ UNCHANGED <<discord, db, up, seen, cache, pc, arg, lost>>

\* Discord disconnects a user whose channel was deleted.
Kick(u) ==
    /\ voice[u] \notin live \cup {None}
    /\ voice' = [voice EXCEPT ![u] = None]
    /\ Send(Event("voice", u, None))
    /\ UNCHANGED <<live, used, db, up, seen, cache, pc, arg, lost, budget>>

\* The effect of a ChannelDelete call, or of an admin's deletion.
Delete(c) ==
    /\ live' = live \ {c}
    /\ Send(Event("delete", None, c))

SpendAdmin == admin < MaxAdmin /\ admin' = admin + 1 /\ UNCHANGED <<faults, crashes, noise>>

AdminDeletes(c) ==
    /\ SpendAdmin /\ Room
    /\ c \in live
    /\ Delete(c)
    /\ UNCHANGED <<used, voice, db, up, seen, cache, pc, arg, lost>>

\* An administrator runs /jointocreate setup or /jointocreate remove.
AdminCommands(k, c) ==
    /\ SpendAdmin /\ Room /\ up
    /\ \/ k = "setup" /\ c = None
       \/ k = "remove" /\ c \in live
    /\ Send(Event(k, None, c))
    /\ UNCHANGED <<discord, db, up, seen, cache, pc, arg, lost>>

-----------------------------------------------------------------------------
(* The statements of internal/db/sqlc.                                     *)

CreateJTCActiveChannel(c, p) == parentOf' = [parentOf EXCEPT ![c] = p]

DeleteJTCActiveChannel(c) == parentOf' = [parentOf EXCEPT ![c] = None]

\* Faulty variant: the schema without the cascade.
DeleteParentKeepsRows(p) ==
    /\ parents' = parents \ {p}
    /\ UNCHANGED <<parentOf, lost>>

\* ON DELETE CASCADE takes the rows of the temporary channels with it.
DeleteJTCParentChannel(p) ==
    /\ parents' = parents \ {p}
    /\ parentOf' = [c \in Channels |-> IF parentOf[c] = p THEN None ELSE parentOf[c]]
    /\ lost' = lost \cup {c \in live : parentOf[c] = p}

(* The HTTP API.  It checks the form of an id, never that the channel is   *)
(* there.                                                                  *)

ApiAddParent(c) ==
    /\ SpendAdmin
    /\ c \in used \ parents
    /\ parents' = parents \cup {c}
    /\ UNCHANGED <<discord, gateway, parentOf, enabled, up, seen, cache, pc, arg, lost>>

ApiDeleteParent(c) ==
    /\ SpendAdmin
    /\ c \in parents
    /\ DeleteJTCParentChannel(c)
    /\ UNCHANGED <<discord, gateway, enabled, up, seen, cache, pc, arg>>

ApiUpdateModule ==
    /\ SpendAdmin
    /\ enabled' = ~enabled
    /\ UNCHANGED <<discord, gateway, parents, parentOf, up, seen, cache, pc, arg, lost>>

-----------------------------------------------------------------------------
(* Dispatch: discordgo updates its State, then starts the handler in a     *)
(* goroutine of its own.                                                   *)

\* Faulty variant: cleanup only for users who leave voice altogether.
StartOnDisconnect(e, was) ==
    CASE e.kind = "voice"  -> IF e.chan # None THEN "lookup"
                              ELSE IF was # None THEN "tracked" ELSE "idle"
      [] e.kind = "delete" -> "dropRow"
      [] e.kind = "setup"  -> "checkSetup"
      [] e.kind = "remove" -> "lookup"

Start(e, was) ==
    CASE e.kind = "voice"  -> IF was # None THEN "tracked"
                              ELSE IF e.chan # None THEN "lookup" ELSE "idle"
      [] e.kind = "delete" -> "dropRow"
      [] e.kind = "setup"  -> "checkSetup"
      [] e.kind = "remove" -> "lookup"

Goto(t, l) ==
    /\ pc' = [pc EXCEPT ![t] = l]
    /\ arg' = IF l = "idle" THEN [arg EXCEPT ![t] = Blank] ELSE arg

Deliver(t) ==
    /\ up /\ gateway # <<>>
    /\ pc[t] = "idle"
    /\ LET e   == Head(gateway)
           was == IF e.kind = "voice" THEN seen[e.user] ELSE None
           l   == Start(e, was)
       IN  /\ seen' = IF e.kind = "voice" THEN [seen EXCEPT ![e.user] = e.chan] ELSE seen
           /\ pc' = [pc EXCEPT ![t] = l]
           /\ arg' = [arg EXCEPT ![t] = IF l = "idle" THEN Blank ELSE
                         [kind |-> e.kind, user |-> e.user, old |-> was,
                          chan |-> e.chan, new |-> None]]
    /\ gateway' = Tail(gateway)
    /\ UNCHANGED <<discord, db, up, cache, lost, budget>>

Fault   == faults < MaxFaults /\ faults' = faults + 1 /\ UNCHANGED <<crashes, admin, noise>>
NoFault == UNCHANGED budget

-----------------------------------------------------------------------------
(* handleVoiceStateUpdate, first half: maybeCleanupChannel for the channel *)
(* the user left.                                                          *)

\* Faulty variant: without the early return for a user who left voice.
AfterLeftAlwaysLooks(t) == Goto(t, "lookup")

\* Faulty variant: the handler ends with the cleanup.
AfterLeftReturns(t) == Goto(t, "idle")

AfterLeft(t) == Goto(t, IF arg[t].chan = None THEN "idle" ELSE "lookup")

CleanupLookup(t) ==
    /\ pc[t] = "tracked"
    /\ \/ parentOf[arg[t].old] # None /\ NoFault /\ Goto(t, "count")
       \/ parentOf[arg[t].old] = None /\ NoFault /\ AfterLeft(t)
       \/ Fault /\ AfterLeft(t)
    /\ UNCHANGED <<discord, gateway, db, up, seen, cache, lost>>

SeenIn(c) == {u \in Users : seen[u] = c}

\* The channel c exists and nobody will delete it.
LeaveBehind(c) == lost' = lost \cup ({c} \cap live)

\* A guild missing from the State is fetched without its voice states, so the
\* count is 0; when that fails too and the channel cannot be fetched, only the
\* row goes, on the guess that the channel is gone.
CountUsers(t) ==
    /\ pc[t] = "count"
    /\ \/ SeenIn(arg[t].old) # {} /\ NoFault /\ AfterLeft(t) /\ UNCHANGED lost
       \/ SeenIn(arg[t].old) = {} /\ NoFault /\ Goto(t, "deleteEmpty") /\ UNCHANGED lost
       \/ Fault /\ Goto(t, "deleteEmpty") /\ UNCHANGED lost
       \/ Fault /\ Goto(t, "deleteRow") /\ LeaveBehind(arg[t].old)
    /\ UNCHANGED <<discord, gateway, db, up, seen, cache>>

\* ChannelDelete; its error is only logged.
DeleteEmpty(t) ==
    /\ pc[t] = "deleteEmpty"
    /\ \/ arg[t].old \in live /\ NoFault /\ Delete(arg[t].old) /\ UNCHANGED lost
       \/ arg[t].old \notin live /\ NoFault /\ UNCHANGED <<live, gateway, lost>>
       \/ Fault /\ LeaveBehind(arg[t].old) /\ UNCHANGED <<live, gateway>>
    /\ Goto(t, "deleteRow")
    /\ UNCHANGED <<used, voice, db, up, seen, cache>>

DeleteRow(t) ==
    /\ pc[t] = "deleteRow"
    /\ \/ NoFault /\ DeleteJTCActiveChannel(arg[t].old)
       \/ Fault /\ UNCHANGED parentOf
    /\ AfterLeft(t)
    /\ UNCHANGED <<discord, gateway, parents, enabled, up, seen, cache, lost>>

-----------------------------------------------------------------------------
(* getParentChannel, for a voice event and for /remove: the cache, then    *)
(* the database, then the cache again.  A failed query caches nil.         *)

Found(t)   == Goto(t, IF arg[t].kind = "remove" THEN "deleteParent" ELSE "checkEnabled")
Missing(t) == Goto(t, "idle")

CacheLookup(t) ==
    /\ pc[t] = "lookup"
    /\ \/ cache[arg[t].chan] = "parent" /\ Found(t)
       \/ cache[arg[t].chan] = "nil"    /\ Missing(t)
       \/ cache[arg[t].chan] = "absent" /\ Goto(t, "query")
    /\ UNCHANGED <<discord, gateway, db, up, seen, cache, lost, budget>>

QueryParent(t) ==
    /\ pc[t] = "query"
    /\ \/ arg[t].chan \in parents    /\ NoFault /\ Goto(t, "storeParent")
       \/ arg[t].chan \notin parents /\ NoFault /\ Goto(t, "storeNil")
       \/ Fault /\ Goto(t, "storeNil")
    /\ UNCHANGED <<discord, gateway, db, up, seen, cache, lost>>

StoreParent(t) ==
    /\ \/ pc[t] = "storeParent" /\ cache' = [cache EXCEPT ![arg[t].chan] = "parent"] /\ Found(t)
       \/ pc[t] = "storeNil"    /\ cache' = [cache EXCEPT ![arg[t].chan] = "nil"]    /\ Missing(t)
    /\ UNCHANGED <<discord, gateway, db, up, seen, lost, budget>>

CacheExpires(c) ==
    /\ SpendNoise
    /\ cache[c] # "absent"
    /\ cache' = [cache EXCEPT ![c] = "absent"]
    /\ UNCHANGED <<discord, gateway, db, up, seen, pc, arg, lost>>

-----------------------------------------------------------------------------
(* handleVoiceStateUpdate, second half: make the channel, record it, move  *)
(* the user.                                                               *)

CheckEnabled(t) ==
    /\ pc[t] = "checkEnabled"
    /\ \/ enabled  /\ NoFault /\ Goto(t, "make")
       \/ ~enabled /\ NoFault /\ Goto(t, "idle")
       \/ Fault /\ Goto(t, "idle")
    /\ UNCHANGED <<discord, gateway, db, up, seen, cache, lost>>

\* Discord makes the channel c, under an id it has never given.
NewChannel(c) == live' = live \cup {c} /\ used' = used \cup {c}

\* GuildChannelCreateComplex: Discord takes an unused id, or refuses (it does
\* when the guild has all the channels it may have).  A call that fails after
\* Discord has acted on it leaves a channel whose id nobody has.
Create(t, ids, l) ==
    \/ /\ NoFault
       /\ \E c \in ids \ used : NewChannel(c) /\ arg' = [arg EXCEPT ![t].new = c]
       /\ pc' = [pc EXCEPT ![t] = l]
       /\ UNCHANGED lost
    \/ ids \subseteq used /\ NoFault /\ Goto(t, "idle") /\ UNCHANGED <<live, used, lost>>
    \/ Fault /\ Goto(t, "idle") /\ UNCHANGED <<live, used, lost>>
    \/ /\ Fault /\ Goto(t, "idle")
       /\ \E c \in ids \ used : NewChannel(c) /\ lost' = lost \cup {c}

\* s.Channel(parent), which fails once the parent is deleted, then the creation.
MakeChannel(t) ==
    /\ pc[t] = "make"
    /\ \/ arg[t].chan \in live /\ Create(t, Temps, "insert")
       \/ arg[t].chan \notin live /\ NoFault /\ Goto(t, "idle") /\ UNCHANGED <<live, used, lost>>
    /\ UNCHANGED <<voice, gateway, db, up, seen, cache>>

\* The foreign key refuses the row once the parent's is gone.  A connection
\* lost after the commit makes WithRetry insert twice: the second insertion
\* fails on the primary key, with the row in place.
InsertRow(t) ==
    /\ pc[t] = "insert"
    /\ \/ /\ arg[t].chan \in parents /\ NoFault
          /\ CreateJTCActiveChannel(arg[t].new, arg[t].chan)
          /\ Goto(t, "move")
       \/ /\ arg[t].chan \in parents /\ Fault
          /\ CreateJTCActiveChannel(arg[t].new, arg[t].chan)
          /\ Goto(t, "undo")
       \/ arg[t].chan \notin parents /\ NoFault /\ Goto(t, "undo") /\ UNCHANGED parentOf
       \/ Fault /\ Goto(t, "undo") /\ UNCHANGED parentOf
    /\ UNCHANGED <<discord, gateway, parents, enabled, up, seen, cache, lost>>

\* Faulty variant: the error path returns without deleting the channel.
UndoCreateReturns(t) ==
    /\ pc[t] = "undo"
    /\ Goto(t, "idle")
    /\ UNCHANGED <<discord, gateway, db, up, seen, cache, lost, budget>>

\* ChannelDelete of the channel just made, its error ignored.
UndoCreate(t) ==
    /\ pc[t] = "undo"
    /\ \/ arg[t].new \in live /\ NoFault /\ Delete(arg[t].new) /\ UNCHANGED lost
       \/ arg[t].new \notin live /\ NoFault /\ UNCHANGED <<live, gateway, lost>>
       \/ Fault /\ LeaveBehind(arg[t].new) /\ UNCHANGED <<live, gateway>>
    /\ Goto(t, "idle")
    /\ UNCHANGED <<used, voice, db, up, seen, cache>>

\* GuildMemberMove, which Discord refuses for a user in no voice channel; the
\* error is only logged.
MoveOwner(t) ==
    /\ pc[t] = "move"
    /\ LET u == arg[t].user
           c == arg[t].new
       IN  \/ /\ voice[u] # None /\ c \in live /\ NoFault
              /\ voice' = [voice EXCEPT ![u] = c]
              /\ Send(Event("voice", u, c))
           \/ (voice[u] = None \/ c \notin live) /\ NoFault /\ UNCHANGED <<voice, gateway>>
           \/ Fault /\ UNCHANGED <<voice, gateway>>
    /\ Goto(t, "idle")
    /\ UNCHANGED <<live, used, db, up, seen, cache, lost>>

-----------------------------------------------------------------------------
(* handleChannelDelete: the row, then the cache.                           *)

DropRow(t) ==
    /\ pc[t] = "dropRow"
    /\ \/ NoFault /\ DeleteJTCActiveChannel(arg[t].chan)
       \/ Fault /\ UNCHANGED parentOf
    /\ Goto(t, "forget")
    /\ UNCHANGED <<discord, gateway, parents, enabled, up, seen, cache, lost>>

Forget(t) ==
    /\ pc[t] = "forget"
    /\ cache' = [cache EXCEPT ![arg[t].chan] = "absent"]
    /\ Goto(t, "idle")
    /\ UNCHANGED <<discord, gateway, db, up, seen, lost, budget>>

-----------------------------------------------------------------------------
(* handleSetup: check the switch, make the channel, record it, cache it.   *)

CheckSetup(t) ==
    /\ pc[t] = "checkSetup"
    /\ \/ enabled  /\ NoFault /\ Goto(t, "makeParent")
       \/ ~enabled /\ NoFault /\ Goto(t, "idle")
       \/ Fault /\ Goto(t, "idle")
    /\ UNCHANGED <<discord, gateway, db, up, seen, cache, lost>>

MakeParent(t) ==
    /\ pc[t] = "makeParent"
    /\ Create(t, Lobbies, "insertParent")
    /\ UNCHANGED <<voice, gateway, db, up, seen, cache>>

\* UNIQUE(channel_id) refuses an id the API has added in the meantime.  A
\* connection lost after the commit is an error with the row in place.
InsertParent(t) ==
    /\ pc[t] = "insertParent"
    /\ \/ /\ arg[t].new \notin parents /\ NoFault
          /\ parents' = parents \cup {arg[t].new}
          /\ Goto(t, "publish")
       \/ /\ arg[t].new \notin parents /\ Fault
          /\ parents' = parents \cup {arg[t].new}
          /\ Goto(t, "undo")
       \/ arg[t].new \in parents /\ NoFault /\ Goto(t, "undo") /\ UNCHANGED parents
       \/ Fault /\ Goto(t, "undo") /\ UNCHANGED parents
    /\ UNCHANGED <<discord, gateway, parentOf, enabled, up, seen, cache, lost>>

Publish(t) ==
    /\ pc[t] = "publish"
    /\ cache' = [cache EXCEPT ![arg[t].new] = "parent"]
    /\ Goto(t, "idle")
    /\ UNCHANGED <<discord, gateway, db, up, seen, lost, budget>>

-----------------------------------------------------------------------------
(* handleRemove, after getParentChannel: the row, the cache, the channel.  *)

\* An error, be the rows gone or not, leaves the cache and the channel alone.
DeleteParent(t) ==
    /\ pc[t] = "deleteParent"
    /\ \/ NoFault /\ DeleteJTCParentChannel(arg[t].chan) /\ Goto(t, "invalidate")
       \/ Fault /\ DeleteJTCParentChannel(arg[t].chan) /\ Goto(t, "idle")
       \/ Fault /\ Goto(t, "idle") /\ UNCHANGED <<parents, parentOf, lost>>
    /\ UNCHANGED <<discord, gateway, enabled, up, seen, cache>>

Invalidate(t) ==
    /\ pc[t] = "invalidate"
    /\ cache' = [cache EXCEPT ![arg[t].chan] = "absent"]
    /\ Goto(t, "deleteChannel")
    /\ UNCHANGED <<discord, gateway, db, up, seen, lost, budget>>

DeleteChannel(t) ==
    /\ pc[t] = "deleteChannel"
    /\ \/ arg[t].chan \in live /\ NoFault /\ Delete(arg[t].chan)
       \/ arg[t].chan \notin live /\ NoFault /\ UNCHANGED <<live, gateway>>
       \/ Fault /\ UNCHANGED <<live, gateway>>
    /\ Goto(t, "idle")
    /\ UNCHANGED <<used, voice, db, up, seen, cache, lost>>

-----------------------------------------------------------------------------
(* The process: everything in memory goes; READY brings the voice states   *)
(* back, and nothing sweeps the rows or the channels.                      *)

Holds(t, c) == arg[t].new = c /\ pc[t] \in {"insert", "undo"}

Crash ==
    /\ up /\ crashes < MaxCrashes /\ crashes' = crashes + 1
    /\ up' = FALSE
    /\ gateway' = <<>>
    /\ cache' = [c \in Channels |-> "absent"]
    /\ pc' = [t \in Handlers |-> "idle"]
    /\ arg' = [t \in Handlers |-> Blank]
    /\ lost' = lost \cup {c \in live : \E t \in Handlers : Holds(t, c)}
    /\ UNCHANGED <<discord, db, seen, faults, admin, noise>>

Restart ==
    /\ ~up
    /\ up' = TRUE
    /\ seen' = voice
    /\ UNCHANGED <<discord, gateway, db, cache, pc, arg, lost, budget>>

-----------------------------------------------------------------------------

HandleVoiceStateUpdate(t) ==
    \/ CleanupLookup(t) \/ CountUsers(t) \/ DeleteEmpty(t) \/ DeleteRow(t)
    \/ CacheLookup(t) \/ QueryParent(t) \/ StoreParent(t)
    \/ CheckEnabled(t) \/ MakeChannel(t) \/ InsertRow(t) \/ UndoCreate(t) \/ MoveOwner(t)

HandleChannelDelete(t) == DropRow(t) \/ Forget(t)

HandleInteraction(t) ==
    \/ CheckSetup(t) \/ MakeParent(t) \/ InsertParent(t) \/ Publish(t)
    \/ DeleteParent(t) \/ Invalidate(t) \/ DeleteChannel(t)

Handle(t) == HandleVoiceStateUpdate(t) \/ HandleChannelDelete(t) \/ HandleInteraction(t)

World ==
    \/ \E u \in Users, c \in Channels \cup {None} : UserMoves(u, c)
    \/ \E u \in Users : UserMutes(u) \/ Kick(u)
    \/ \E c \in Channels : AdminDeletes(c) \/ ApiAddParent(c) \/ ApiDeleteParent(c)
    \/ \E c \in Channels \cup {None}, k \in {"setup", "remove"} : AdminCommands(k, c)
    \/ ApiUpdateModule
    \/ \E c \in Channels : CacheExpires(c)
    \/ Crash
    \/ Restart

Next == World \/ \E t \in Handlers : Deliver(t) \/ Handle(t)

Spec == Init /\ [][Next]_vars

(* Goroutines run, events arrive, Discord drops users of deleted channels  *)
(* and docker restarts the bot.  Users, admins and faults owe nothing.     *)
Fairness ==
    /\ WF_vars(\E t \in Handlers : Deliver(t))
    /\ \A t \in Handlers : WF_vars(Handle(t))
    /\ \A u \in Users : WF_vars(Kick(u))
    /\ WF_vars(Restart)

FairSpec == Spec /\ Fairness

-----------------------------------------------------------------------------
(* Properties                                                              *)

VoiceLabels  == {"tracked", "count", "deleteEmpty", "deleteRow",
                 "checkEnabled", "make", "insert", "move"}
LookupLabels == {"lookup", "query", "storeParent", "storeNil"}
ChanLabels   == LookupLabels \cup {"checkEnabled", "make", "insert", "move", "dropRow",
                 "forget", "deleteParent", "invalidate", "deleteChannel"}

\* What the call at label l reads is there: the channel left, the channel of the
\* event, the user to move, the channel just made.
LocalOK(t, l) ==
    /\ l \in VoiceLabels => arg[t].kind = "voice" /\ arg[t].user # None
    /\ l \in LookupLabels =>
          \/ arg[t].kind = "remove"
          \/ arg[t].kind = "voice" /\ arg[t].user # None
    /\ l \in ChanLabels => arg[t].chan # None
    /\ l \in {"tracked", "count", "deleteEmpty", "deleteRow"} => arg[t].old # None
    /\ l \in {"insert", "move"} => arg[t].new \in Temps
    /\ l \in {"insertParent", "publish"} => arg[t].new \in Lobbies
    /\ l = "undo" => arg[t].new # None

ControlOK ==
    /\ pc \in [Handlers -> Labels]
    /\ arg \in [Handlers -> Args]
    /\ \A t \in Handlers : LocalOK(t, pc[t])

DataOK ==
    /\ live \subseteq used /\ used \subseteq Channels
    /\ voice \in [Users -> Channels \cup {None}]
    /\ gateway \in Seq(Events)
    /\ parents \subseteq Channels
    /\ parentOf \in [Channels -> Channels \cup {None}]
    /\ enabled \in BOOLEAN /\ up \in BOOLEAN
    /\ seen \in [Users -> Channels \cup {None}]
    /\ cache \in [Channels -> {"absent", "nil", "parent"}]
    /\ lost \subseteq Channels
    /\ faults \in Nat /\ crashes \in Nat /\ admin \in Nat /\ noise \in Nat

\* The type of every variable, and that a goroutine never reads a local it has
\* not set: handleVoiceStateUpdate returns before the parent lookup when the
\* user left voice altogether, and before the cleanup when there was no channel.
TypeOK == DataOK /\ ControlOK

\* Every row of a temporary channel names a configured parent and a channel the
\* bot made as temporary, whatever a cached, already deleted parent made a
\* goroutine do (handleVoiceStateUpdate against handleRemove and the API).
ActiveHasParent == \A c \in Channels :
    parentOf[c] # None => parentOf[c] \in parents /\ c \in Temps

\* A temporary channel that exists has a row, or a goroutine is about to write
\* the row or delete the channel, or one of five things happened to it, each
\* recorded when it happened: Discord made it and the creation was reported as
\* failed; its row went with its parent's; its ChannelDelete failed; neither the
\* users nor the channel could be fetched; the bot crashed between the creation
\* and the row.  No order of handlers takes the row of a channel otherwise.
TrackedOrLost == \A c \in live \cap Temps :
    parentOf[c] # None \/ c \in lost \/ \E t \in Handlers : Holds(t, c)

In(c) == {u \in Users : voice[u] = c}
Tracked(c) == c \in live /\ parentOf[c] # None

\* The goroutine of u's join is about to move u into the channel it recorded.
Served(u, p) == \E t \in Handlers :
    pc[t] = "move" /\ arg[t].user = u /\ arg[t].chan = p /\ parentOf[arg[t].new] = p

\* Discord has no channel left to give to the goroutine of u's join.
Refused(u, p) == Temps \subseteq used /\ \E t \in Handlers :
    pc[t] = "make" /\ arg[t].user = u /\ arg[t].chan = p

\* The event of u's join to p is on its way to the bot.
Joining(u, p) == voice[u] = p /\ \E i \in 1..Len(gateway) : gateway[i] = Event("voice", u, p)

\* A user who joins a configured parent of an enabled guild gets a recorded
\* channel and a move to it, or leaves, unless Discord refuses this creation: as
\* long as no call fails, no order of events, goroutines and cache fills loses a
\* join, a later one no more than the first.
JoinServed == \A u \in Users, p \in Lobbies :
    (Joining(u, p) /\ p \in parents /\ enabled) ~>
        (voice[u] # p \/ Served(u, p) \/ Refused(u, p))

\* A temporary channel that somebody sat in while it had its row never stays
\* empty: it is occupied again or deleted (maybeCleanupChannel, whoever leaves
\* last and in whatever order the goroutines count).
EmptiedIsRemoved == \A c \in Temps :
    [](Tracked(c) /\ In(c) # {} => []<>(In(c) # {} \/ c \notin live))

\* events.go: "Only delete if the channel is truly empty".
TrulyEmpty == [][\A t \in Handlers :
    pc[t] = "deleteEmpty" /\ arg[t].old \in live \ live' => In(arg[t].old) = {}]_vars
=============================================================================
