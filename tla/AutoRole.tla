------------------------------ MODULE AutoRole ------------------------------
(***************************************************************************)
(* The AutoRole module: a member who joins, writes a first message or      *)
(* reacts for the first time gets the roles configured for that trigger,   *)
(* and a row that says so.                                                 *)
(*                                                                         *)
(* The bot runs one goroutine per event and per slash command.  The HTTP   *)
(* API switches the module on and off from another process; DisableForGuild *)
(* clears the switch first and deletes the guild's rows afterwards.  A     *)
(* step is one call to PostgreSQL or Discord.  One guild.                  *)
(***************************************************************************)
EXTENDS Naturals, FiniteSets

CONSTANTS
    Users, Roles,
    Triggers,     \* join, first_message, first_reaction
    Reaction,     \* the trigger whose handler fetches the member first
    Handlers,     \* goroutines of the bot that may run at the same time
    Requests,     \* PATCH requests the API may serve at the same time
    None,
    MaxFaults     \* failed calls and crashes of the bot

ASSUME FiniteAssumption == IsFiniteSet(Handlers)
ASSUME NoneAssumption == None \notin Users \cup Roles \cup Triggers
ASSUME FaultsAssumption == MaxFaults \in Nat

VARIABLES
    enabled,      \* guild_modules.enabled
    roles,        \* auto_roles: pairs of a role and a trigger
    fired,        \* autorole_user_triggers: pairs of a user and a trigger
    pc,           \* the next call of each goroutine, "idle" when it has ended
    arg,          \* its local variables
    req,          \* the next call of each API request
    faults,       \* history: failures so far
    given,        \* history: pairs of a user and a trigger that got a role
    rounds,       \* history: goroutines that assigned roles for a pair since
                  \* the rows of the guild were last deleted
    off,          \* history: requests whose disable nobody has undone
    clean         \* history: one of them has deleted all the rows

db      == <<enabled, roles, fired>>
threads == <<pc, arg>>
history == <<given, rounds, off, clean>>
vars    == <<db, threads, req, faults, history>>

Pairs  == Users \X Triggers
Rows   == Roles \X Triggers
Labels == {"idle", "member", "enabled", "triggered", "list", "assign", "record",
           "addEnabled", "addExists", "addCreate", "removeEnabled", "removeRow"}
Blank  == [user |-> None, role |-> None, trigger |-> None, todo |-> {}]

Init ==
    /\ enabled = FALSE /\ roles = {} /\ fired = {}
    /\ pc = [t \in Handlers |-> "idle"]
    /\ arg = [t \in Handlers |-> Blank]
    /\ req = [q \in Requests |-> "idle"]
    /\ faults = 0
    /\ given = {} /\ rounds = [p \in Pairs |-> 0]
    /\ off = {} /\ clean = FALSE

Pair(t) == <<arg[t].user, arg[t].trigger>>
Row(t)  == <<arg[t].role, arg[t].trigger>>

Goto(t, l) ==
    /\ pc' = [pc EXCEPT ![t] = l]
    /\ arg' = IF l = "idle" THEN [arg EXCEPT ![t] = Blank] ELSE arg

Fault   == faults < MaxFaults /\ faults' = faults + 1
NoFault == UNCHANGED faults

\* The statement is applied, and its answer may be lost on the way back.
Applied == NoFault \/ Fault

-----------------------------------------------------------------------------
(* handleGuildMemberAdd, handleMessageCreate, handleMessageReactionAdd.    *)

\* A member joins, writes or reacts, as often as they like.
Event(t, u, trigger) ==
    /\ pc[t] = "idle"
    /\ pc' = [pc EXCEPT ![t] = IF trigger = Reaction THEN "member" ELSE "enabled"]
    /\ arg' = [arg EXCEPT ![t] = [Blank EXCEPT !.user = u, !.trigger = trigger]]
    /\ UNCHANGED <<db, req, faults, history>>

\* The reaction handler fetches the member, and gives up when it cannot.
FetchMember(t) ==
    /\ pc[t] = "member"
    /\ \/ NoFault /\ Goto(t, "enabled")
       \/ Fault /\ Goto(t, "idle")
    /\ UNCHANGED <<db, req, history>>

CheckEnabled(t) ==
    /\ pc[t] = "enabled"
    /\ \/ enabled  /\ NoFault /\ Goto(t, "triggered")
       \/ ~enabled /\ NoFault /\ Goto(t, "idle")
       \/ Fault /\ Goto(t, "idle")
    /\ UNCHANGED <<db, req, history>>

\* Any error counts as "not triggered yet".
CheckTriggered(t) ==
    /\ pc[t] = "triggered"
    /\ \/ Pair(t) \in fired    /\ NoFault /\ Goto(t, "idle")
       \/ Pair(t) \notin fired /\ NoFault /\ Goto(t, "list")
       \/ Fault /\ Goto(t, "list")
    /\ UNCHANGED <<db, req, history>>

Configured(trigger) == {r \in Roles : <<r, trigger>> \in roles}

\* Faulty variant: the trigger is recorded even without a role to assign.
ListRolesNoReturn(t) ==
    /\ pc[t] = "list"
    /\ NoFault
    /\ pc' = [pc EXCEPT ![t] = IF Configured(arg[t].trigger) = {} THEN "record" ELSE "assign"]
    /\ arg' = [arg EXCEPT ![t].todo = Configured(arg[t].trigger)]
    /\ UNCHANGED <<db, req, history>>

ListRoles(t) ==
    /\ pc[t] = "list"
    /\ \/ /\ Configured(arg[t].trigger) # {} /\ NoFault
          /\ pc' = [pc EXCEPT ![t] = "assign"]
          /\ arg' = [arg EXCEPT ![t].todo = Configured(arg[t].trigger)]
          /\ rounds' = [rounds EXCEPT ![Pair(t)] = @ + 1]
       \/ Configured(arg[t].trigger) = {} /\ NoFault /\ Goto(t, "idle") /\ UNCHANGED rounds
       \/ Fault /\ Goto(t, "idle") /\ UNCHANGED rounds
    /\ UNCHANGED <<db, req, given, off, clean>>

\* Faulty variant: the loop goes on after the last role.
AssignRolePastEnd(t) ==
    /\ pc[t] = "assign"
    /\ \E r \in arg[t].todo : arg' = [arg EXCEPT ![t].todo = @ \ {r}]
    /\ NoFault
    /\ UNCHANGED <<db, pc, req, history>>

\* GuildMemberRoleAdd, one role after the other; an error is logged.
AssignRole(t) ==
    /\ pc[t] = "assign"
    /\ \E r \in arg[t].todo :
          /\ \/ NoFault /\ given' = given \cup {Pair(t)}
             \/ Fault /\ UNCHANGED given
          /\ arg' = [arg EXCEPT ![t].todo = @ \ {r}]
          /\ pc' = [pc EXCEPT ![t] = IF arg[t].todo = {r} THEN "record" ELSE "assign"]
    /\ UNCHANGED <<db, req, rounds, off, clean>>

\* Faulty variant: the trigger is not recorded.
RecordNothing(t) ==
    /\ pc[t] = "record"
    /\ NoFault
    /\ Goto(t, "idle")
    /\ UNCHANGED <<db, req, history>>

\* CreateUserTrigger, ON CONFLICT DO NOTHING; it may be applied and fail.
RecordTrigger(t) ==
    /\ pc[t] = "record"
    /\ \/ NoFault /\ fired' = fired \cup {Pair(t)}
       \/ Fault /\ fired' \in {fired, fired \cup {Pair(t)}}
    /\ Goto(t, "idle")
    /\ UNCHANGED <<enabled, roles, req, history>>

-----------------------------------------------------------------------------
(* handleInteraction, handleAdd, handleRemove.                             *)

Command(t, l, r, trigger) ==
    /\ pc[t] = "idle"
    /\ l \in {"addEnabled", "removeEnabled"}
    /\ pc' = [pc EXCEPT ![t] = l]
    /\ arg' = [arg EXCEPT ![t] = [Blank EXCEPT !.role = r, !.trigger = trigger]]
    /\ UNCHANGED <<db, req, faults, history>>

CheckCommand(t) ==
    /\ pc[t] \in {"addEnabled", "removeEnabled"}
    /\ \/ /\ enabled /\ NoFault
          /\ Goto(t, IF pc[t] = "addEnabled" THEN "addExists" ELSE "removeRow")
       \/ ~enabled /\ NoFault /\ Goto(t, "idle")
       \/ Fault /\ Goto(t, "idle")
    /\ UNCHANGED <<db, req, history>>

\* The deferred response, whose failure ends the command, and the query, whose
\* failure counts as "does not exist".
AddExists(t) ==
    /\ pc[t] = "addExists"
    /\ \/ Row(t) \in roles    /\ NoFault /\ Goto(t, "idle")
       \/ Row(t) \notin roles /\ NoFault /\ Goto(t, "addCreate")
       \/ Fault /\ (Goto(t, "idle") \/ Goto(t, "addCreate"))
    /\ UNCHANGED <<db, req, history>>

\* UNIQUE (guild_id, role_id, trigger) makes a second row an error.
AddCreate(t) ==
    /\ pc[t] = "addCreate"
    /\ \/ NoFault /\ roles' = roles \cup {Row(t)}
       \/ Fault /\ roles' \in {roles, roles \cup {Row(t)}}
    /\ Goto(t, "idle")
    /\ UNCHANGED <<enabled, fired, req, history>>

RemoveRow(t) ==
    /\ pc[t] = "removeRow"
    /\ \/ NoFault /\ roles' = roles \ {Row(t)}
       \/ Fault /\ roles' \in {roles, roles \ {Row(t)}}
    /\ Goto(t, "idle")
    /\ UNCHANGED <<enabled, fired, req, history>>

-----------------------------------------------------------------------------
(* UpdateGuildModule: EnableForGuild, DisableForGuild with OnDisable.      *)

Answer(q, l) == req' = [req EXCEPT ![q] = l]

Patch(q, l) ==
    /\ req[q] = "idle"
    /\ l \in {"enable", "disable"}
    /\ Answer(q, l)
    /\ UNCHANGED <<db, threads, faults, history>>

\* UpsertGuildModule; OnEnable does nothing.
Enable(q) ==
    /\ req[q] = "enable"
    /\ \/ Applied /\ enabled' = TRUE /\ off' = {} /\ clean' = FALSE
       \/ Fault /\ UNCHANGED <<enabled, off, clean>>
    /\ Answer(q, "idle")
    /\ UNCHANGED <<roles, fired, threads, given, rounds>>

\* UpsertGuildModule; after an error OnDisable does not run.
Disable(q) ==
    /\ req[q] = "disable"
    /\ \/ NoFault /\ enabled' = FALSE /\ off' = off \cup {q} /\ Answer(q, "wipeRoles")
       \/ Fault /\ enabled' \in {enabled, FALSE} /\ Answer(q, "idle") /\ UNCHANGED off
    /\ UNCHANGED <<roles, fired, threads, given, rounds, clean>>

\* DeleteAllAutoRolesForGuild; its error ends OnDisable.
WipeRoles(q) ==
    /\ req[q] = "wipeRoles"
    /\ \/ NoFault /\ roles' = {} /\ Answer(q, "wipeTriggers") /\ UNCHANGED off
       \/ Fault /\ Answer(q, "idle") /\ off' = off \ {q} /\ roles' \in {roles, {}}
    /\ UNCHANGED <<enabled, fired, threads, given, rounds, clean>>

\* Faulty variant: OnDisable ends after the roles.
WipeRolesOnly(q) ==
    /\ req[q] = "wipeTriggers"
    /\ NoFault /\ clean' = (clean \/ q \in off)
    /\ off' = off \ {q}
    /\ Answer(q, "idle")
    /\ UNCHANGED <<db, threads, given, rounds>>

\* DeleteUserTriggersForGuild.
WipeTriggers(q) ==
    /\ req[q] = "wipeTriggers"
    /\ \/ /\ Applied /\ fired' = {} /\ clean' = (clean \/ q \in off)
          /\ rounds' = [p \in Pairs |-> 0]
       \/ Fault /\ UNCHANGED <<fired, clean, rounds>>
    /\ off' = off \ {q}
    /\ Answer(q, "idle")
    /\ UNCHANGED <<enabled, roles, threads, given>>

\* The bot goes down with its goroutines and comes back; the API goes on.
Crash ==
    /\ Fault
    /\ pc' = [t \in Handlers |-> "idle"]
    /\ arg' = [t \in Handlers |-> Blank]
    /\ UNCHANGED <<db, req, history>>

-----------------------------------------------------------------------------

Handle(t) ==
    \/ FetchMember(t) \/ CheckEnabled(t) \/ CheckTriggered(t)
    \/ ListRoles(t) \/ AssignRole(t) \/ RecordTrigger(t)
    \/ CheckCommand(t) \/ AddExists(t) \/ AddCreate(t) \/ RemoveRow(t)

Serve(q) == Enable(q) \/ Disable(q) \/ WipeRoles(q) \/ WipeTriggers(q)

Next ==
    \/ \E t \in Handlers, trigger \in Triggers :
          \/ \E u \in Users : Event(t, u, trigger)
          \/ \E r \in Roles, l \in Labels : Command(t, l, r, trigger)
    \/ \E t \in Handlers : Handle(t)
    \/ \E q \in Requests : Serve(q) \/ \E l \in {"enable", "disable"} : Patch(q, l)
    \/ Crash

Spec == Init /\ [][Next]_vars

-----------------------------------------------------------------------------
(* Properties                                                              *)

EventLabels   == {"member", "enabled", "triggered", "list", "assign", "record"}
CommandLabels == {"addEnabled", "addExists", "addCreate", "removeEnabled", "removeRow"}

\* Types, and that a goroutine holds the locals its next call reads.
TypeOK ==
    /\ enabled \in BOOLEAN /\ roles \subseteq Rows /\ fired \subseteq Pairs
    /\ pc \in [Handlers -> Labels]
    /\ arg \in [Handlers -> [user : Users \cup {None}, role : Roles \cup {None},
                             trigger : Triggers \cup {None}, todo : SUBSET Roles]]
    /\ \A t \in Handlers :
          /\ pc[t] \in EventLabels => Pair(t) \in Pairs
          /\ pc[t] \in CommandLabels => Row(t) \in Rows
          /\ pc[t] = "assign" => arg[t].todo # {}
    /\ req \in [Requests -> {"idle", "enable", "disable", "wipeRoles", "wipeTriggers"}]
    /\ faults \in Nat /\ given \subseteq Pairs /\ rounds \in [Pairs -> Nat]
    /\ off \subseteq Requests /\ clean \in BOOLEAN

\* However often a member triggers and however the events interleave with the
\* switch, the roles for a trigger are assigned at most once per goroutine that
\* can run at the same time, and as often again per failure (a crash ends them
\* all before they write the row): the row ends it.
RoundsBounded == \A p \in Pairs : rounds[p] <= Cardinality(Handlers) * (faults + 1)

\* A member whose trigger is recorded got a role for it, unless a call failed:
\* the row never stands for roles that were configured later.
FiredWasServed == faults = 0 => fired \subseteq given

\* A goroutine that has seen the module enabled and may still write a row.
Writers == {t \in Handlers : pc[t] \in
    {"triggered", "list", "assign", "record", "addExists", "addCreate"}}

\* Once DisableForGuild has deleted the rows, and until the module is enabled
\* again, those left were written by goroutines that had passed their check
\* before the switch: never more than can run at the same time.
LeftoverBounded == clean =>
    Cardinality(roles) + Cardinality(fired) + Cardinality(Writers) <= Cardinality(Handlers)
=============================================================================
