---------------------------- MODULE ReactionRoles ----------------------------
(***************************************************************************)
(* The ReactionRoles module: a member who reacts to a message with a       *)
(* configured emoji gets a role and loses it with the reaction.  Commands  *)
(* add, remove and repair the configuration of the message.                *)
(*                                                                         *)
(* discordgo starts a goroutine per event, so the events of one member are *)
(* handled in any order.  A goroutine that has not made its first call is  *)
(* counted in "pending"; Handlers are those that have.  A step is one call *)
(* to PostgreSQL or Discord.  One guild, one message.  A reaction made     *)
(* while the bot is down is one whose goroutine a crash ended.             *)
(***************************************************************************)
EXTENDS Naturals

CONSTANTS
    Users,        \* people, in the guild or not: one who left has no roles
    Bot,          \* the bot's own user
    Emojis, Roles,
    Handlers,     \* goroutines of the bot that may run at the same time
    None,
    MaxRequests,  \* reactions added or removed, commands, API requests, roles
                  \* changed by hand: what people do
    MaxFaults     \* failed calls and crashes of the bot

ASSUME NoneAssumption == None \notin Users \cup {Bot} \cup Emojis \cup Roles \cup Handlers
ASSUME BotAssumption == Bot \notin Users
ASSUME BoundAssumption == {MaxRequests, MaxFaults} \subseteq Nat

VARIABLES
    enabled,      \* guild_modules.enabled
    rows,         \* reaction_roles: role of each emoji and who inserted the row
    reacted,      \* Discord: pairs of a user and an emoji
    has,          \* Discord: pairs of a user and a role
    pending,      \* goroutines started for each event and yet to make a call
    pc,           \* the next call of each goroutine, "idle" when it has ended
    arg,          \* its local variables
    wiping,       \* requests of the API between the switch and OnDisable
    requests, faults,  \* history: how much of each bound is spent
    settled,      \* history: pairs whose last event is or was handled alone
    spoiled,      \* history: emojis whose row may be without the bot's reaction
    calm,         \* history: the fix that nothing else has disturbed
    cut           \* history: emojis whose page, in the last fix, left somebody out

discord == <<reacted, has, pending>>
threads == <<pc, arg>>
budget  == <<requests, faults>>
history == <<settled, spoiled, calm, cut>>
vars    == <<enabled, rows, discord, threads, wiping, budget, history>>

Reactors == Users \cup {Bot}
Pairs    == Reactors \X Emojis
Events   == {"add", "remove"} \X Pairs
Row      == [role : Roles, by : Handlers \cup {None}]
NoRow    == [role |-> None, by |-> None]
Labels   == {"idle", "lookup", "assign", "revert", "revoke",
             "addEnabled", "addExists", "addCreate", "addReact", "undo",
             "removeEnabled", "removeFind", "removeRow", "unreact",
             "fixEnabled", "fixList", "fixMessage", "fixMembers",
             "fixUsers", "fixRemove", "fixBot"}
Blank    == [kind |-> None, user |-> None, emoji |-> None, role |-> None,
             valid |-> [e \in Emojis |-> None], on |-> {}, me |-> {}, had |-> {}, todo |-> {}]

\* An orderly message: the bot has reacted with each configured emoji, and who
\* has reacted with one has its role.
Init ==
    /\ enabled \in BOOLEAN
    /\ rows \in [Emojis -> {NoRow} \cup [role : Roles, by : {None}]]
    /\ enabled \/ \A e \in Emojis : rows[e] = NoRow
    /\ \E p \in SUBSET (Users \X Emojis) :
          reacted = p \cup {<<Bot, e>> : e \in {e \in Emojis : rows[e] # NoRow}}
    /\ has = {<<p[1], rows[p[2]].role>> :
                 p \in {p \in reacted : p[1] # Bot /\ rows[p[2]] # NoRow}}
    /\ pending = [v \in Events |-> 0]
    /\ pc = [t \in Handlers |-> "idle"]
    /\ arg = [t \in Handlers |-> Blank]
    /\ wiping = 0
    /\ requests = 0 /\ faults = 0
    /\ settled = {} /\ spoiled = {} /\ calm = None /\ cut = {}

Goto(t, l) ==
    /\ pc' = [pc EXCEPT ![t] = l]
    /\ arg' = IF l = "idle" THEN [arg EXCEPT ![t] = Blank] ELSE arg

NoFault == UNCHANGED <<budget, calm, cut>>
Fault ==
    /\ faults < MaxFaults /\ faults' = faults + 1 /\ UNCHANGED requests
    /\ calm' = None /\ UNCHANGED cut

Configured(e) == rows[e] # NoRow

\* The goroutines under way for a reaction, t left out.
EventLabels == {"lookup", "assign", "revert", "revoke"}
Pair(t) == <<arg[t].user, arg[t].emoji>>
BusyBut(p, t) ==
    \/ \E k \in {"add", "remove"} : pending[<<k, p>>] > 0
    \/ \E s \in Handlers \ {t} : pc[s] \in EventLabels /\ Pair(s) = p
Busy(p) == BusyBut(p, None)

Quiet ==
    /\ \A v \in Events : pending[v] = 0
    /\ \A t \in Handlers : pc[t] = "idle"
    /\ wiping = 0

-----------------------------------------------------------------------------
(* Discord.                                                                *)

\* A goroutine is started for the event; t is the one whose call caused it.
Arrive(k, p, t) ==
    /\ pending' = [pending EXCEPT ![<<k, p>>] = @ + 1]
    /\ settled' = IF p[1] \in Users /\ enabled /\ Configured(p[2]) /\ ~BusyBut(p, t)
                  THEN settled \cup {p} ELSE settled \ {p}

Unreacts(p, t) ==
    /\ reacted' = reacted \ {p}
    /\ Arrive("remove", p, t)
    /\ spoiled' = IF p[1] = Bot /\ Configured(p[2]) THEN spoiled \cup {p[2]} ELSE spoiled

\* MessageReactionRemove, which fails when the reaction is not there.
MessageReactionRemove(p, t) ==
    \/ p \in reacted /\ Unreacts(p, t)
    \/ p \notin reacted /\ UNCHANGED <<reacted, pending, settled, spoiled>>

\* MessageReactionAdd: the bot reacts; handleReactionAdd ignores bots.
MessageReactionAdd(e) ==
    /\ reacted' = reacted \cup {<<Bot, e>>}
    /\ spoiled' = spoiled \ {e}

Request == requests < MaxRequests /\ requests' = requests + 1 /\ UNCHANGED <<faults, cut>>

UserReacts(u, e) ==
    /\ Request /\ calm' = None
    /\ <<u, e>> \notin reacted
    /\ reacted' = reacted \cup {<<u, e>>}
    /\ Arrive("add", <<u, e>>, None)
    /\ UNCHANGED <<enabled, rows, has, threads, wiping, spoiled>>

\* A user, or a moderator, removes a reaction.
UserUnreacts(p) ==
    /\ Request /\ calm' = None
    /\ p \in reacted
    /\ Unreacts(p, None)
    /\ UNCHANGED <<enabled, rows, has, threads, wiping>>

\* What the pairs of u with another emoji than e were promised about role r.
Shaken(u, r, e) == {<<u, d>> : d \in {d \in Emojis \ {e} : rows[d].role = r}}

\* A moderator gives or takes a role by hand.
RoleByHand(u, r) ==
    /\ Request /\ calm' = None
    /\ has' = IF <<u, r>> \in has THEN has \ {<<u, r>>} ELSE has \cup {<<u, r>>}
    /\ settled' = settled \ Shaken(u, r, None)
    /\ UNCHANGED <<enabled, rows, reacted, pending, threads, wiping, spoiled>>

-----------------------------------------------------------------------------
(* handleReactionAdd and handleReactionRemove.                             *)

\* Neither filter depends on the state: handleReactionAdd ignores bots, and no
\* event for the bot's own reaction is ever pending.  IsModuleEnabled.
StartEvent(t, k, p) ==
    /\ pc[t] = "idle"
    /\ pending[<<k, p>>] > 0
    /\ pending' = [pending EXCEPT ![<<k, p>>] = @ - 1]
    /\ \/ /\ enabled /\ NoFault /\ UNCHANGED settled
          /\ pc' = [pc EXCEPT ![t] = "lookup"]
          /\ arg' = [arg EXCEPT ![t] = [Blank EXCEPT !.kind = k, !.user = p[1], !.emoji = p[2]]]
       \/ ~enabled /\ NoFault /\ UNCHANGED <<threads, settled>>
       \/ Fault /\ UNCHANGED threads /\ settled' = settled \ {p}
    /\ UNCHANGED <<enabled, rows, reacted, has, wiping, spoiled>>

\* Faulty variant: a missing row does not end the handler.
LookupNoReturn(t) ==
    /\ pc[t] = "lookup"
    /\ NoFault
    /\ pc' = [pc EXCEPT ![t] = IF arg[t].kind = "add" THEN "assign" ELSE "revoke"]
    /\ arg' = [arg EXCEPT ![t].role = rows[arg[t].emoji].role]
    /\ UNCHANGED <<enabled, rows, discord, wiping, settled, spoiled>>

\* GetReactionRoleByMessageAndEmoji.
Lookup(t) ==
    /\ pc[t] = "lookup"
    /\ \/ /\ Configured(arg[t].emoji) /\ NoFault /\ UNCHANGED settled
          /\ pc' = [pc EXCEPT ![t] = IF arg[t].kind = "add" THEN "assign" ELSE "revoke"]
          /\ arg' = [arg EXCEPT ![t].role = rows[arg[t].emoji].role]
       \/ ~Configured(arg[t].emoji) /\ NoFault /\ Goto(t, "idle") /\ UNCHANGED settled
       \/ Fault /\ Goto(t, "idle") /\ settled' = settled \ {Pair(t)}
    /\ UNCHANGED <<enabled, rows, discord, wiping, spoiled>>

GiveRole(t) ==
    /\ has' = has \cup {<<arg[t].user, arg[t].role>>}
    /\ settled' = settled \ Shaken(arg[t].user, arg[t].role, arg[t].emoji)

\* GuildMemberRoleAdd, which may be applied and reported as failed.
Assign(t) ==
    /\ pc[t] = "assign"
    /\ \/ NoFault /\ Goto(t, "idle") /\ GiveRole(t)
       \/ Fault /\ Goto(t, "revert") /\ (GiveRole(t) \/ UNCHANGED <<has, settled>>)
    /\ UNCHANGED <<enabled, rows, reacted, pending, wiping, spoiled>>

\* Faulty variant: the reaction stays when the role could not be given.
RevertNothing(t) ==
    /\ pc[t] = "revert"
    /\ Goto(t, "idle")
    /\ UNCHANGED <<enabled, rows, discord, wiping, budget, history>>

\* "Try to remove the reaction since we couldn't add the role".
Revert(t) ==
    /\ pc[t] = "revert"
    /\ Goto(t, "idle")
    /\ \/ NoFault /\ MessageReactionRemove(Pair(t), t)
       \/ Fault /\ settled' = settled \ {Pair(t)} /\ UNCHANGED <<reacted, pending, spoiled>>
    /\ UNCHANGED <<enabled, rows, has, wiping>>

\* GuildMemberRoleRemove; its error is only logged.
Revoke(t) ==
    /\ pc[t] = "revoke"
    /\ Goto(t, "idle")
    /\ \/ /\ NoFault
          /\ has' = has \ {<<arg[t].user, arg[t].role>>}
          /\ settled' = settled \ Shaken(arg[t].user, arg[t].role, arg[t].emoji)
       \/ Fault /\ UNCHANGED has /\ settled' = settled \ {Pair(t)}
    /\ UNCHANGED <<enabled, rows, reacted, pending, wiping, spoiled>>

-----------------------------------------------------------------------------
(* The commands: handleInteraction, then handleAdd, handleRemove or        *)
(* handleFix.                                                              *)

\* The row of an emoji is written or deleted.
SetRow(e, row) ==
    /\ rows' = [rows EXCEPT ![e] = row]
    /\ settled' = settled \ (Users \X {e})

Command(t, l, e, r) ==
    /\ Request
    /\ pc[t] = "idle"
    /\ l \in {"addEnabled", "removeEnabled", "fixEnabled"}
    /\ pc' = [pc EXCEPT ![t] = l]
    /\ arg' = [arg EXCEPT ![t] = IF l = "fixEnabled" THEN Blank
                                 ELSE [Blank EXCEPT !.emoji = e, !.role = r]]
    /\ calm' = IF l = "fixEnabled" /\ Quiet THEN t ELSE None
    /\ UNCHANGED <<enabled, rows, discord, wiping, settled, spoiled>>

\* IsModuleEnabled, the deferred response and, for add, the message.
CheckCommand(t) ==
    /\ \E l \in {<<"addEnabled", "addExists">>, <<"removeEnabled", "removeFind">>,
                 <<"fixEnabled", "fixList">>} :
          /\ pc[t] = l[1]
          /\ \/ enabled  /\ NoFault /\ Goto(t, l[2])
             \/ ~enabled /\ NoFault /\ Goto(t, "idle")
             \/ Fault /\ Goto(t, "idle")
    /\ UNCHANGED <<enabled, rows, discord, wiping, settled, spoiled>>

\* Any error counts as "does not exist".
AddExists(t) ==
    /\ pc[t] = "addExists"
    /\ \/ Configured(arg[t].emoji)  /\ NoFault /\ Goto(t, "idle")
       \/ ~Configured(arg[t].emoji) /\ NoFault /\ Goto(t, "addCreate")
       \/ Fault /\ Goto(t, "addCreate")
    /\ UNCHANGED <<enabled, rows, discord, wiping, settled, spoiled>>

\* CreateReactionRole; UNIQUE (message_id, emoji) refuses a second row.  An
\* insertion that is applied and reported as failed leaves its row.
AddCreate(t) ==
    /\ pc[t] = "addCreate"
    /\ LET e == arg[t].emoji
           row == [role |-> arg[t].role, by |-> t]
       IN  \/ ~Configured(e) /\ NoFault /\ SetRow(e, row) /\ Goto(t, "addReact")
              /\ UNCHANGED spoiled
           \/ ~Configured(e) /\ Fault /\ SetRow(e, row) /\ Goto(t, "idle")
              /\ spoiled' = spoiled \cup {e}
           \/ Configured(e) /\ NoFault /\ Goto(t, "idle") /\ UNCHANGED <<rows, settled, spoiled>>
           \/ Fault /\ Goto(t, "idle") /\ UNCHANGED <<rows, settled, spoiled>>
    /\ UNCHANGED <<enabled, discord, wiping>>

\* MessageReactionAdd, which may be applied and reported as failed.
AddReact(t) ==
    /\ pc[t] = "addReact"
    /\ \/ NoFault /\ MessageReactionAdd(arg[t].emoji) /\ Goto(t, "idle")
       \/ Fault /\ Goto(t, "undo")
          /\ (MessageReactionAdd(arg[t].emoji) \/ UNCHANGED <<reacted, spoiled>>)
    /\ UNCHANGED <<enabled, rows, has, pending, wiping, settled>>

\* Faulty variant: the row of an add that failed is not deleted.
UndoReturns(t) ==
    /\ pc[t] = "undo"
    /\ Goto(t, "idle")
    /\ UNCHANGED <<enabled, rows, discord, wiping, budget, history>>

\* DeleteReactionRole by the id of the row, its error ignored.
Undo(t) ==
    /\ pc[t] = "undo"
    /\ Goto(t, "idle")
    /\ LET e == arg[t].emoji
       IN  \/ rows[e].by = t /\ NoFault /\ SetRow(e, NoRow) /\ UNCHANGED spoiled
           \/ rows[e].by # t /\ NoFault /\ UNCHANGED <<rows, settled, spoiled>>
           \/ Fault /\ UNCHANGED <<rows, settled>>
              /\ spoiled' = IF rows[e].by = t THEN spoiled \cup {e} ELSE spoiled
    /\ UNCHANGED <<enabled, discord, wiping>>

RemoveFind(t) ==
    /\ pc[t] = "removeFind"
    /\ \/ Configured(arg[t].emoji)  /\ NoFault /\ Goto(t, "removeRow")
       \/ ~Configured(arg[t].emoji) /\ NoFault /\ Goto(t, "idle")
       \/ Fault /\ Goto(t, "idle")
    /\ UNCHANGED <<enabled, rows, discord, wiping, settled, spoiled>>

\* DeleteReactionRoleByMessageAndEmoji: whichever row is there by now.
RemoveRow(t) ==
    /\ pc[t] = "removeRow"
    /\ \/ NoFault /\ SetRow(arg[t].emoji, NoRow) /\ Goto(t, "unreact")
       \/ Fault /\ Goto(t, "idle")
          /\ (SetRow(arg[t].emoji, NoRow) \/ UNCHANGED <<rows, settled>>)
    /\ UNCHANGED <<enabled, discord, wiping, spoiled>>

Unreact(t) ==
    /\ pc[t] = "unreact"
    /\ Goto(t, "idle")
    /\ \/ NoFault /\ MessageReactionRemove(<<Bot, arg[t].emoji>>, t)
       \/ Fault /\ UNCHANGED <<reacted, pending, settled, spoiled>>
    /\ UNCHANGED <<enabled, rows, has, wiping>>

-----------------------------------------------------------------------------
(* handleFix: three snapshots (rows, reactions of the message, members),   *)
(* then one page of users per emoji, then the bot's own reactions.         *)

FixList(t) ==
    /\ pc[t] = "fixList"
    /\ \/ /\ NoFault
          /\ \E e \in Emojis : Configured(e)
          /\ pc' = [pc EXCEPT ![t] = "fixMessage"]
          /\ arg' = [arg EXCEPT ![t].valid = [e \in Emojis |-> rows[e].role]]
       \/ NoFault /\ (\A e \in Emojis : ~Configured(e)) /\ Goto(t, "idle")
       \/ Fault /\ Goto(t, "idle")
    /\ UNCHANGED <<enabled, rows, discord, wiping, settled, spoiled>>

FixMessage(t) ==
    /\ pc[t] = "fixMessage"
    /\ \/ /\ NoFault
          /\ pc' = [pc EXCEPT ![t] = "fixMembers"]
          /\ arg' = [arg EXCEPT ![t].on = {p[2] : p \in reacted},
                                ![t].me = {e \in Emojis : <<Bot, e>> \in reacted}]
       \/ Fault /\ Goto(t, "idle")
    /\ UNCHANGED <<enabled, rows, discord, wiping, settled, spoiled>>

\* The emojis to react with: configured, and not yet the bot's.
Missing(a) == {e \in Emojis : a.valid[e] # None /\ e \notin a.me}

\* The next call of a fix with the locals a; what is not read again is dropped.
FixNext(t, a) ==
    LET l == CASE a.todo # {} -> "fixRemove"
               [] a.todo = {} /\ a.on # {} -> "fixUsers"
               [] a.todo = {} /\ a.on = {} /\ Missing(a) # {} -> "fixBot"
               [] OTHER -> "idle"
    IN  /\ pc' = [pc EXCEPT ![t] = l]
        /\ arg' = [arg EXCEPT ![t] =
              CASE l = "fixRemove" -> a
                [] l = "fixUsers"  -> [a EXCEPT !.emoji = None]
                [] l = "fixBot"    -> [a EXCEPT !.emoji = None, !.had = {}]
                [] OTHER           -> Blank]

\* GuildMembers, the first 1000: any part of Users.
FixMembers(t) ==
    /\ pc[t] = "fixMembers"
    /\ \/ \E page \in SUBSET Users :
             /\ UNCHANGED <<budget, calm>> /\ cut' = {}
             /\ FixNext(t, [arg[t] EXCEPT !.had = {p \in has : p[1] \in page}])
       \/ Fault /\ Goto(t, "idle")
    /\ UNCHANGED <<enabled, rows, discord, wiping, settled, spoiled>>

\* Faulty variant: an emoji without a row is left alone.
OfDueConfigured(a, e) ==
    {u \in Users : a.valid[e] # None /\ <<u, a.valid[e]>> \notin a.had /\ <<u, e>> \in reacted}

\* Who of an emoji's users is to be removed: everybody when it has no row, and
\* otherwise the people not known to have the role.
OfDue(a, e) == {u \in Reactors :
    /\ <<u, e>> \in reacted
    /\ a.valid[e] = None \/ (u # Bot /\ <<u, a.valid[e]>> \notin a.had)}

\* MessageReactions, the first 100 users of an emoji: any part of them.
UsersOf(e) == {u \in Reactors : <<u, e>> \in reacted}
Pages(e) == SUBSET UsersOf(e)

\* One page for the next emoji of the message, never a second; an error skips
\* the emoji.
FixUsers(t) ==
    /\ pc[t] = "fixUsers"
    /\ \E e \in arg[t].on :
          LET a == [arg[t] EXCEPT !.on = @ \ {e}]
          IN  \/ \E page \in Pages(e) :
                    /\ UNCHANGED <<budget, calm>>
                    /\ cut' = IF page = UsersOf(e) THEN cut ELSE cut \cup {e}
                    /\ FixNext(t, [a EXCEPT !.emoji = e, !.todo = page \cap OfDue(a, e)])
              \/ Fault /\ FixNext(t, a)
    /\ UNCHANGED <<enabled, rows, discord, wiping, settled, spoiled>>

FixRemove(t) ==
    /\ pc[t] = "fixRemove"
    /\ \E u \in arg[t].todo :
          /\ \/ NoFault /\ MessageReactionRemove(<<u, arg[t].emoji>>, t)
             \/ Fault /\ UNCHANGED <<reacted, pending, settled, spoiled>>
          /\ FixNext(t, [arg[t] EXCEPT !.todo = @ \ {u}])
    /\ UNCHANGED <<enabled, rows, has, wiping>>

FixBot(t) ==
    /\ pc[t] = "fixBot"
    /\ \E e \in Missing(arg[t]) :
          /\ \/ NoFault /\ MessageReactionAdd(e)
             \/ Fault /\ UNCHANGED <<reacted, spoiled>>
          /\ FixNext(t, [arg[t] EXCEPT !.me = @ \cup {e}])
    /\ UNCHANGED <<enabled, rows, has, pending, wiping, settled>>

-----------------------------------------------------------------------------
(* UpdateGuildModule in the API, and the process.                          *)

Enable ==
    /\ Request /\ calm' = None
    /\ enabled' = TRUE
    /\ UNCHANGED <<rows, discord, threads, wiping, settled, spoiled>>

\* UpsertGuildModule, without OnDisable when it is applied and reported as failed.
Disable ==
    /\ \/ Request /\ calm' = None /\ wiping' = wiping + 1
       \/ Fault /\ UNCHANGED wiping
    /\ enabled' = FALSE
    /\ settled' = {}
    /\ UNCHANGED <<rows, discord, threads, spoiled>>

\* OnDisable: DeleteAllReactionRolesForGuild, whose error is only logged.
Wipe ==
    /\ wiping > 0
    /\ wiping' = wiping - 1
    /\ \/ NoFault /\ rows' = [e \in Emojis |-> NoRow] /\ settled' = {}
       \/ Fault /\ UNCHANGED <<rows, settled>>
    /\ UNCHANGED <<enabled, discord, threads, spoiled>>

\* The row of the add that t is about to finish or to undo.
Adding(t, e) == pc[t] \in {"addReact", "undo"} /\ arg[t].emoji = e /\ rows[e].by = t

Crash ==
    /\ Fault
    /\ pending' = [v \in Events |-> 0]
    /\ pc' = [t \in Handlers |-> "idle"]
    /\ arg' = [t \in Handlers |-> Blank]
    /\ settled' = {p \in settled : ~Busy(p)}
    /\ spoiled' = spoiled \cup {e \in Emojis : \E t \in Handlers : Adding(t, e)}
    /\ UNCHANGED <<enabled, rows, reacted, has, wiping>>

-----------------------------------------------------------------------------

HandleReaction(t) == Lookup(t) \/ Assign(t) \/ Revert(t) \/ Revoke(t)

HandleInteraction(t) ==
    \/ CheckCommand(t)
    \/ AddExists(t) \/ AddCreate(t) \/ AddReact(t) \/ Undo(t)
    \/ RemoveFind(t) \/ RemoveRow(t) \/ Unreact(t)
    \/ FixList(t) \/ FixMessage(t) \/ FixMembers(t) \/ FixUsers(t) \/ FixRemove(t) \/ FixBot(t)

Next ==
    \/ \E u \in Users, e \in Emojis : UserReacts(u, e)
    \/ \E p \in Pairs : UserUnreacts(p)
    \/ \E u \in Users, r \in Roles : RoleByHand(u, r)
    \/ \E t \in Handlers :
          \/ \E k \in {"add", "remove"}, p \in Pairs : StartEvent(t, k, p)
          \/ \E l \in Labels, e \in Emojis, r \in Roles : Command(t, l, e, r)
          \/ HandleReaction(t) \/ HandleInteraction(t)
    \/ Enable \/ Disable \/ Wipe \/ Crash

Spec == Init /\ [][Next]_vars

-----------------------------------------------------------------------------
(* Properties                                                              *)

\* Types, and that a goroutine holds the locals its next call reads.
TypeOK ==
    /\ enabled \in BOOLEAN /\ wiping \in Nat
    /\ rows \in [Emojis -> Row \cup {NoRow}]
    /\ reacted \subseteq Pairs /\ has \subseteq Reactors \X Roles
    /\ pending \in [Events -> Nat]
    /\ pc \in [Handlers -> Labels]
    /\ \A t \in Handlers :
          /\ pc[t] \in EventLabels => Pair(t) \in Pairs
          /\ pc[t] \in {"assign", "revoke"} => arg[t].role \in Roles
          /\ pc[t] \in {"addCreate", "addReact", "undo", "removeRow", "unreact", "fixRemove"}
                => arg[t].emoji \in Emojis
          /\ pc[t] = "fixRemove" => arg[t].todo # {} /\ arg[t].todo \subseteq Reactors
          /\ pc[t] = "fixUsers" => arg[t].on # {}
    /\ settled \subseteq Users \X Emojis /\ spoiled \subseteq Emojis
    /\ calm \in Handlers \cup {None} /\ cut \subseteq Emojis

\* A member whose last reaction to a configured emoji, or removal of one, was
\* handled without another event of the same pair in between, has the role if
\* and only if the reaction is there, unless the role or its row was changed by
\* somebody else or a call failed past repair.  A role that Discord refuses does
\* not count: handleReactionAdd takes the reaction back.
InSync == \A u \in Users, e \in Emojis :
    (<<u, e>> \in settled /\ ~Busy(<<u, e>>)) =>
        (<<u, e>> \in reacted <=> <<u, rows[e].role>> \in has)

\* A row has the bot's reaction on the message, or handleAdd is about to react or
\* to delete the row, or the history names it: an insertion or its undoing
\* failed, the bot crashed between the two, or the reaction was removed while
\* the row was there (by hand, by a handleRemove that overlapped the add, or by
\* a fix that began before it).
ShownOrSpoiled == \A e \in Emojis : Configured(e) =>
    \/ <<Bot, e>> \in reacted
    \/ e \in spoiled
    \/ \E t \in Handlers : Adding(t, e)

\* Every configured emoji has the bot's reaction, and nobody reacts with another
\* one, or without the role; the latter but for the emojis of S.
TidyBut(S) ==
    /\ \A e \in Emojis : Configured(e) => <<Bot, e>> \in reacted
    /\ \A u \in Reactors, e \in Emojis \ S :
          <<u, e>> \in reacted => Configured(e) /\ (u = Bot \/ <<u, rows[e].role>> \in has)

\* The last call of a fix that nothing else has disturbed and no call of which has
\* failed.
FixEnds(t) ==
    /\ calm = t /\ pc[t] \in {"fixMembers", "fixUsers", "fixRemove", "fixBot"}
    /\ pc'[t] = "idle" /\ faults' = faults

\* /reactionrole fix, when nothing else happens on the message and no call
\* fails, leaves every configured emoji with the bot's reaction and, among the
\* emojis whose users fit into one page, no reaction with one that is not
\* configured or of a member who has not the role.
FixRestores == [][\A t \in Handlers : FixEnds(t) => TidyBut(cut)']_vars
=============================================================================
