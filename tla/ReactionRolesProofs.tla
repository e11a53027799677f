------------------------ MODULE ReactionRolesProofs ------------------------
(***************************************************************************)
(* What ReactionRoles promises for any number of members, emojis, roles,   *)
(* goroutines, requests and failures.                                      *)
(***************************************************************************)
EXTENDS ReactionRoles, TLAPS

Locals == [kind : {"add", "remove", None}, user : Reactors \cup {None},
           emoji : Emojis \cup {None}, role : Roles \cup {None},
           valid : [Emojis -> Roles \cup {None}], on : SUBSET Emojis,
           me : SUBSET Emojis, had : SUBSET (Reactors \X Roles), todo : SUBSET Reactors]

AddRemove == {"addEnabled", "addExists", "addCreate", "addReact", "undo",
              "removeEnabled", "removeFind", "removeRow", "unreact"}

\* The locals a call needs.
Fits(l, a) ==
    /\ l \in Labels /\ a \in Locals
    /\ l \in EventLabels => /\ <<a.user, a.emoji>> \in Pairs
                            /\ a.kind \in {"add", "remove"}
    /\ l \in {"assign", "revoke"} => a.role \in Roles
    /\ l \in AddRemove => a.emoji \in Emojis /\ a.role \in Roles
    /\ l = "fixRemove" => a.emoji \in Emojis /\ a.todo # {}
    /\ l # "fixRemove" => a.todo = {}
    /\ l = "fixUsers" => a.on # {}

ThreadTypes ==
    /\ pc \in [Handlers -> Labels] /\ arg \in [Handlers -> Locals]
    /\ \A t \in Handlers : Fits(pc[t], arg[t])

RowTypes == rows \in [Emojis -> Row \cup {NoRow}]

DiscordTypes ==
    /\ reacted \subseteq Pairs /\ has \subseteq Reactors \X Roles
    /\ pending \in [Events -> Nat]
    /\ settled \subseteq Users \X Emojis /\ spoiled \subseteq Emojis

Typed == ThreadTypes /\ RowTypes /\ DiscordTypes

LEMMA Names ==
    /\ None \notin Users /\ None # Bot /\ None \notin Emojis
    /\ None \notin Roles /\ None \notin Handlers /\ Bot \notin Users
BY NoneAssumption, BotAssumption

LEMMA BlankFits == Blank \in Locals /\ Fits("idle", Blank)
<1>1. Blank \in Locals
  BY DEF Blank, Locals
<1>. QED  BY <1>1 DEF Blank, Fits, Labels, EventLabels, AddRemove

\* Each step of a goroutine is one label and one set of locals.
Moves(t, l, a) ==
    /\ pc' = [pc EXCEPT ![t] = l]
    /\ arg' = [arg EXCEPT ![t] = a]

LEMMA MovesTypes ==
    ASSUME ThreadTypes, NEW t \in Handlers, NEW l, NEW a, Fits(l, a), Moves(t, l, a)
    PROVE  ThreadTypes'
<1>1. l \in Labels /\ a \in Locals
  BY DEF Fits
<1>2. pc' \in [Handlers -> Labels]
  BY <1>1 DEF Moves, ThreadTypes
<1>3. arg' \in [Handlers -> Locals]
  BY <1>1 DEF Moves, ThreadTypes
<1>4. \A s \in Handlers : Fits(pc'[s], arg'[s])
  BY DEF Moves, ThreadTypes
<1>. QED  BY <1>2, <1>3, <1>4 DEF ThreadTypes

\* What a step of t that has ended or gone on does to the others: nothing.
LEMMA MovesOthers ==
    ASSUME ThreadTypes, NEW t \in Handlers, NEW l, NEW a, Moves(t, l, a)
    PROVE  /\ pc'[t] = l /\ arg'[t] = a
           /\ \A s \in Handlers \ {t} : pc'[s] = pc[s] /\ arg'[s] = arg[s]
BY DEF Moves, ThreadTypes

LEMMA GotoIdle ==
    ASSUME NEW t \in Handlers, Goto(t, "idle")
    PROVE  Moves(t, "idle", Blank)
BY DEF Goto, Moves

LEMMA GotoOn ==
    ASSUME ThreadTypes, NEW t \in Handlers, NEW l, l # "idle", Goto(t, l)
    PROVE  Moves(t, l, arg[t])
BY DEF Goto, Moves, ThreadTypes

-----------------------------------------------------------------------------
(* Where each step of a goroutine leads.                                   *)

LEMMA EventMoves ==
    ASSUME NEW t \in Handlers, NEW k \in {"add", "remove"}, NEW p \in Pairs
    PROVE  LET a == [Blank EXCEPT !.kind = k, !.user = p[1], !.emoji = p[2]] IN
           /\ Fits("lookup", a) /\ <<a.user, a.emoji>> = p /\ a.kind = k
<1>. DEFINE a == [Blank EXCEPT !.kind = k, !.user = p[1], !.emoji = p[2]]
<1>1. p[1] \in Reactors /\ p[2] \in Emojis /\ p = <<p[1], p[2]>>
  BY DEF Pairs
<1>2. /\ a \in Locals /\ a.kind = k /\ a.user = p[1] /\ a.emoji = p[2] /\ a.todo = {}
  BY <1>1 DEF Blank, Locals
<1>3. Fits("lookup", a)
  BY <1>1, <1>2 DEF Fits, Labels, EventLabels, AddRemove, Pairs
<1>. QED  BY <1>1, <1>2, <1>3

LEMMA LookupMoves ==
    ASSUME Typed, NEW t \in Handlers, Lookup(t)
    PROVE  \/ Moves(t, "idle", Blank)
           \/ \E a \in Locals :
                 /\ Configured(arg[t].emoji) /\ UNCHANGED <<rows, settled>>
                 /\ a.user = arg[t].user /\ a.emoji = arg[t].emoji
                 /\ a.role = rows[arg[t].emoji].role
                 /\ \/ /\ arg[t].kind = "add" /\ Moves(t, "assign", a) /\ Fits("assign", a)
                    \/ /\ arg[t].kind = "remove" /\ Moves(t, "revoke", a) /\ Fits("revoke", a)
<1>1. /\ pc[t] = "lookup" /\ arg[t] \in Locals /\ Fits(pc[t], arg[t])
      /\ rows \in [Emojis -> Row \cup {NoRow}]
  BY DEF Lookup, Typed, ThreadTypes, RowTypes
<1>2. <<arg[t].user, arg[t].emoji>> \in Pairs /\ arg[t].kind \in {"add", "remove"}
  BY <1>1 DEF Fits, EventLabels
<1>3. CASE Goto(t, "idle")
  BY <1>3, GotoIdle
<1>4. CASE /\ Configured(arg[t].emoji) /\ UNCHANGED <<rows, settled>>
           /\ pc' = [pc EXCEPT ![t] = IF arg[t].kind = "add" THEN "assign" ELSE "revoke"]
           /\ arg' = [arg EXCEPT ![t].role = rows[arg[t].emoji].role]
  <2>. DEFINE r == rows[arg[t].emoji].role
              a == [arg[t] EXCEPT !.role = r]
  <2>1. arg[t].emoji \in Emojis
    BY <1>2 DEF Pairs
  <2>2. r \in Roles
    BY <1>1, <1>4, <2>1 DEF Row, NoRow, Configured
  <2>3. /\ a \in Locals /\ a.user = arg[t].user /\ a.emoji = arg[t].emoji
        /\ a.role = r /\ a.kind = arg[t].kind /\ a.todo = {}
    <3>. HIDE DEF r
    <3>. QED  BY <1>1, <2>2 DEF Locals, Fits
  <2>4. Fits("assign", a) /\ Fits("revoke", a)
    <3>. HIDE DEF r, a
    <3>. QED  BY <1>2, <2>2, <2>3 DEF Fits, Labels, EventLabels, AddRemove
  <2>5. arg' = [arg EXCEPT ![t] = a]
    BY <1>4 DEF Typed, ThreadTypes
  <2>. HIDE DEF a
  <2>. QED  BY <1>2, <1>4, <2>3, <2>4, <2>5 DEF Moves
<1>. QED  BY <1>3, <1>4 DEF Lookup

\* The locals after a page of a fix.
LEMMA FixNextMoves ==
    ASSUME NEW t \in Handlers, NEW a \in Locals, FixNext(t, a),
           a.todo # {} => a.emoji \in Emojis
    PROVE  \E l \in {"fixRemove", "fixUsers", "fixBot", "idle"}, b \in Locals :
               Fits(l, b) /\ Moves(t, l, b)
<1>1. CASE a.todo # {}
  <2>1. Moves(t, "fixRemove", a)
    BY <1>1 DEF FixNext, Moves
  <2>2. Fits("fixRemove", a)
    BY <1>1 DEF Fits, Labels, EventLabels, AddRemove
  <2>. QED  BY <2>1, <2>2
<1>2. CASE a.todo = {} /\ a.on # {}
  <2>. DEFINE b == [a EXCEPT !.emoji = None]
  <2>1. Moves(t, "fixUsers", b)
    BY <1>2 DEF FixNext, Moves
  <2>2. b \in Locals /\ b.on = a.on /\ b.todo = {}
    BY <1>2 DEF Locals
  <2>3. Fits("fixUsers", b)
    <3>. HIDE DEF b
    <3>. QED  BY <1>2, <2>2 DEF Fits, Labels, EventLabels, AddRemove
  <2>. QED  BY <2>1, <2>2, <2>3
<1>3. CASE a.todo = {} /\ a.on = {} /\ Missing(a) # {}
  <2>. DEFINE b == [a EXCEPT !.emoji = None, !.had = {}]
  <2>1. Moves(t, "fixBot", b)
    BY <1>3 DEF FixNext, Moves
  <2>2. b \in Locals /\ b.todo = {}
    BY <1>3 DEF Locals
  <2>3. Fits("fixBot", b)
    <3>. HIDE DEF b
    <3>. QED  BY <2>2 DEF Fits, Labels, EventLabels, AddRemove
  <2>. QED  BY <2>1, <2>2, <2>3
<1>4. CASE a.todo = {} /\ a.on = {} /\ Missing(a) = {}
  <2>1. Moves(t, "idle", Blank)
    BY <1>4 DEF FixNext, Moves
  <2>. QED  BY <2>1, BlankFits
<1>. QED  BY <1>1, <1>2, <1>3, <1>4

FixLabels == {"fixEnabled", "fixList", "fixMessage", "fixMembers",
              "fixUsers", "fixRemove", "fixBot"}

FixSteps(t) == FixList(t) \/ FixMessage(t) \/ FixMembers(t) \/ FixUsers(t) \/ FixRemove(t) \/ FixBot(t)

LEMMA FixMoves ==
    ASSUME Typed, NEW t \in Handlers, FixSteps(t)
    PROVE  /\ pc[t] \in FixLabels
           /\ \E l \in FixLabels \cup {"idle"}, b \in Locals : Fits(l, b) /\ Moves(t, l, b)
<1>0. /\ arg[t] \in Locals /\ Fits(pc[t], arg[t]) /\ arg[t].todo \subseteq Reactors
      /\ reacted \subseteq Pairs /\ has \subseteq Reactors \X Roles
      /\ rows \in [Emojis -> Row \cup {NoRow}] /\ arg \in [Handlers -> Locals]
  BY DEF Typed, ThreadTypes, DiscordTypes, RowTypes, Locals
<1>1. pc[t] \in FixLabels
  BY DEF FixSteps, FixList, FixMessage, FixMembers, FixUsers, FixRemove, FixBot, FixLabels
<1>2. {"fixRemove", "fixUsers", "fixBot", "idle", "fixMessage", "fixMembers"}
          \subseteq FixLabels \cup {"idle"}
  BY DEF FixLabels
<1>3. CASE Goto(t, "idle")
  BY <1>1, <1>3, GotoIdle, BlankFits
<1>4. ASSUME NEW a \in Locals, FixNext(t, a), a.todo # {} => a.emoji \in Emojis
      PROVE  \E l \in FixLabels \cup {"idle"}, b \in Locals : Fits(l, b) /\ Moves(t, l, b)
  BY <1>2, <1>4, FixNextMoves
<1>5. CASE FixList(t)
  <2>1. CASE /\ pc' = [pc EXCEPT ![t] = "fixMessage"]
             /\ arg' = [arg EXCEPT ![t].valid = [e \in Emojis |-> rows[e].role]]
    <3>. DEFINE v == [e \in Emojis |-> rows[e].role]
                a == [arg[t] EXCEPT !.valid = v]
    <3>1. v \in [Emojis -> Roles \cup {None}]
      BY <1>0 DEF Row, NoRow
    <3>2. a \in Locals
      <4>. HIDE DEF v
      <4>. QED  BY <1>0, <3>1 DEF Locals
    <3>3. Fits("fixMessage", a)
      BY <1>0, <1>5, <3>2 DEF FixList, Fits, Labels, EventLabels, AddRemove
    <3>4. Moves(t, "fixMessage", a)
      BY <1>0, <2>1 DEF Moves
    <3>. QED  BY <1>1, <1>2, <3>2, <3>3, <3>4
  <2>. QED  BY <1>1, <1>3, <1>5, <2>1 DEF FixList
<1>6. CASE FixMessage(t)
  <2>1. CASE /\ pc' = [pc EXCEPT ![t] = "fixMembers"]
             /\ arg' = [arg EXCEPT ![t].on = {p[2] : p \in reacted},
                                   ![t].me = {e \in Emojis : <<Bot, e>> \in reacted}]
    <3>. DEFINE on == {p[2] : p \in reacted}
                me == {e \in Emojis : <<Bot, e>> \in reacted}
                a  == [arg[t] EXCEPT !.on = on, !.me = me]
    <3>1. on \subseteq Emojis /\ me \subseteq Emojis
      BY <1>0 DEF Pairs
    <3>2. a \in Locals
      <4>. HIDE DEF on, me
      <4>. QED  BY <1>0, <3>1 DEF Locals
    <3>3. Fits("fixMembers", a)
      BY <1>0, <1>6, <3>2 DEF FixMessage, Fits, Labels, EventLabels, AddRemove
    <3>4. Moves(t, "fixMembers", a)
      BY <1>0, <2>1 DEF Moves
    <3>. QED  BY <1>1, <1>2, <3>2, <3>3, <3>4
  <2>. QED  BY <1>1, <1>3, <1>6, <2>1 DEF FixMessage
<1>7. CASE FixMembers(t)
  <2>1. ASSUME NEW page \in SUBSET Users,
               FixNext(t, [arg[t] EXCEPT !.had = {p \in has : p[1] \in page}])
        PROVE  \E l \in FixLabels \cup {"idle"}, b \in Locals : Fits(l, b) /\ Moves(t, l, b)
    <3>. DEFINE h == {p \in has : p[1] \in page}
                a == [arg[t] EXCEPT !.had = h]
    <3>1. h \subseteq Reactors \X Roles
      BY <1>0
    <3>2. a \in Locals /\ a.todo = {}
      <4>. HIDE DEF h
      <4>. QED  BY <1>0, <1>7, <3>1 DEF Locals, Fits, FixMembers
    <3>. HIDE DEF a
    <3>. QED  BY <1>4, <2>1, <3>2 DEF a
  <2>. QED  BY <1>1, <1>3, <1>7, <2>1 DEF FixMembers
<1>8. CASE FixUsers(t)
  <2>1. PICK e \in arg[t].on :
            LET a == [arg[t] EXCEPT !.on = @ \ {e}] IN
            \/ \E page : FixNext(t, [a EXCEPT !.emoji = e, !.todo = page \cap OfDue(a, e)])
            \/ FixNext(t, a)
    BY <1>8 DEF FixUsers
  <2>. DEFINE a == [arg[t] EXCEPT !.on = @ \ {e}]
  <2>2. a \in Locals /\ a.todo = {} /\ e \in Emojis
    BY <1>0, <1>8 DEF Locals, Fits, FixUsers
  <2>3. OfDue(a, e) \subseteq Reactors
    BY DEF OfDue
  <2>4. PICK page :
            \/ FixNext(t, [a EXCEPT !.emoji = e, !.todo = page \cap OfDue(a, e)])
            \/ FixNext(t, a)
    BY <2>1
  <2>. HIDE DEF a
  <2>. DEFINE d == page \cap OfDue(a, e)
              b == [a EXCEPT !.emoji = e, !.todo = d]
  <2>5. b \in Locals /\ b.emoji \in Emojis
    <3>1. d \subseteq Reactors
      BY <2>3
    <3>. HIDE DEF d
    <3>. QED  BY <2>2, <3>1 DEF Locals
  <2>6. FixNext(t, b) \/ FixNext(t, a)
    BY <2>4
  <2>. HIDE DEF b
  <2>. QED  BY <1>1, <1>4, <2>2, <2>5, <2>6
<1>9. CASE FixRemove(t)
  <2>1. PICK u \in arg[t].todo : FixNext(t, [arg[t] EXCEPT !.todo = @ \ {u}])
    BY <1>9 DEF FixRemove
  <2>. DEFINE a == [arg[t] EXCEPT !.todo = @ \ {u}]
  <2>2. a \in Locals /\ a.emoji \in Emojis
    BY <1>0, <1>9 DEF Locals, Fits, FixRemove
  <2>. HIDE DEF a
  <2>. QED  BY <1>1, <1>4, <2>1, <2>2 DEF a
<1>10. CASE FixBot(t)
  <2>1. PICK e \in Missing(arg[t]) : FixNext(t, [arg[t] EXCEPT !.me = @ \cup {e}])
    BY <1>10 DEF FixBot
  <2>. DEFINE a == [arg[t] EXCEPT !.me = @ \cup {e}]
  <2>2. a \in Locals /\ a.todo = {}
    BY <1>0, <1>10 DEF Locals, Fits, FixBot, Missing
  <2>. HIDE DEF a
  <2>. QED  BY <1>1, <1>4, <2>1, <2>2 DEF a
<1>. QED  BY <1>5, <1>6, <1>7, <1>8, <1>9, <1>10 DEF FixSteps

AddRemoveSteps(t) ==
    \/ CheckCommand(t) \/ AddExists(t) \/ AddCreate(t) \/ AddReact(t) \/ Undo(t)
    \/ RemoveFind(t) \/ RemoveRow(t) \/ Unreact(t)

LEMMA AddRemoveMoves ==
    ASSUME Typed, NEW t \in Handlers, AddRemoveSteps(t)
    PROVE  /\ pc[t] \in AddRemove \cup {"fixEnabled"}
           /\ \E l \in AddRemove \cup {"fixList", "idle"}, b \in Locals :
                 Fits(l, b) /\ Moves(t, l, b) /\ (l = "idle" \/ b = arg[t])
<1>0. ThreadTypes /\ arg[t] \in Locals /\ Fits(pc[t], arg[t])
  BY DEF Typed, ThreadTypes
<1>1. pc[t] \in AddRemove \cup {"fixEnabled"}
  BY DEF AddRemoveSteps, CheckCommand, AddExists, AddCreate, AddReact, Undo, RemoveFind,
         RemoveRow, Unreact, AddRemove
<1>2. CASE Goto(t, "idle")
  BY <1>1, <1>2, GotoIdle, BlankFits
<1>3. ASSUME NEW l \in AddRemove \cup {"fixList"}, Goto(t, l),
             (pc[t] \in AddRemove /\ l \in AddRemove) \/ (pc[t] = "fixEnabled" /\ l = "fixList")
      PROVE  \E m \in AddRemove \cup {"fixList", "idle"}, b \in Locals :
                 Fits(m, b) /\ Moves(t, m, b) /\ (m = "idle" \/ b = arg[t])
  <2>1. Fits(l, arg[t])
    BY <1>0, <1>3 DEF Fits, Labels, EventLabels, AddRemove
  <2>2. l # "idle"
    BY DEF AddRemove
  <2>. QED  BY <1>0, <1>3, <2>1, <2>2, GotoOn
<1>4. \E l \in AddRemove \cup {"fixList", "idle"} :
          /\ Goto(t, l)
          /\ \/ l = "idle"
             \/ pc[t] \in AddRemove /\ l \in AddRemove
             \/ pc[t] = "fixEnabled" /\ l = "fixList"
  <2>1. CASE CheckCommand(t)
    BY <2>1 DEF CheckCommand, AddRemove
  <2>2. CASE AddExists(t)
    BY <2>2 DEF AddExists, AddRemove
  <2>3. CASE AddCreate(t)
    BY <2>3 DEF AddCreate, AddRemove
  <2>4. CASE AddReact(t)
    BY <2>4 DEF AddReact, AddRemove
  <2>5. CASE RemoveFind(t)
    BY <2>5 DEF RemoveFind, AddRemove
  <2>6. CASE RemoveRow(t)
    BY <2>6 DEF RemoveRow, AddRemove
  <2>7. CASE Undo(t) \/ Unreact(t)
    BY <2>7 DEF Undo, Unreact
  <2>. QED  BY <2>1, <2>2, <2>3, <2>4, <2>5, <2>6, <2>7 DEF AddRemoveSteps
<1>5. PICK l \in AddRemove \cup {"fixList", "idle"} :
          /\ Goto(t, l)
          /\ \/ l = "idle"
             \/ pc[t] \in AddRemove /\ l \in AddRemove
             \/ pc[t] = "fixEnabled" /\ l = "fixList"
  BY <1>4
<1>6. CASE l = "idle"
  BY <1>1, <1>2, <1>5, <1>6
<1>7. CASE l # "idle"
  <2>1. l \in AddRemove \cup {"fixList"} /\ Goto(t, l)
    BY <1>5, <1>7
  <2>2. (pc[t] \in AddRemove /\ l \in AddRemove) \/ (pc[t] = "fixEnabled" /\ l = "fixList")
    BY <1>5, <1>7
  <2>3. \E m \in AddRemove \cup {"fixList", "idle"}, b \in Locals :
                 Fits(m, b) /\ Moves(t, m, b) /\ (m = "idle" \/ b = arg[t])
    BY <1>3, <2>1, <2>2
  <2>. QED  BY <1>1, <2>3
<1>. QED  BY <1>6, <1>7

LEMMA ReactionMoves ==
    ASSUME Typed, NEW t \in Handlers, HandleReaction(t)
    PROVE  /\ pc[t] \in EventLabels
           /\ \E l \in EventLabels \cup {"idle"}, b \in Locals : Fits(l, b) /\ Moves(t, l, b)
<1>0. ThreadTypes /\ arg[t] \in Locals /\ Fits(pc[t], arg[t])
  BY DEF Typed, ThreadTypes
<1>1. pc[t] \in EventLabels
  BY DEF HandleReaction, Lookup, Assign, Revert, Revoke, EventLabels
<1>2. CASE Goto(t, "idle")
  BY <1>1, <1>2, GotoIdle, BlankFits
<1>3. CASE Lookup(t)
  <2>1. {"assign", "revoke"} \subseteq EventLabels
    BY DEF EventLabels
  <2>. QED  BY <1>1, <1>3, <2>1, LookupMoves, BlankFits
<1>4. CASE Goto(t, "revert")
  <2>1. Moves(t, "revert", arg[t])
    BY <1>0, <1>4, GotoOn
  <2>2. Fits("revert", arg[t])
    BY <1>0, <1>1 DEF Fits, Labels, EventLabels, AddRemove
  <2>3. "revert" \in EventLabels
    BY DEF EventLabels
  <2>. QED  BY <1>0, <1>1, <2>1, <2>2, <2>3
<1>. QED  BY <1>2, <1>3, <1>4 DEF HandleReaction, Assign, Revert, Revoke

LEMMA InteractionIs ==
    ASSUME NEW t
    PROVE  HandleInteraction(t) <=> AddRemoveSteps(t) \/ FixSteps(t)
BY DEF HandleInteraction, AddRemoveSteps, FixSteps

LEMMA CommandMoves ==
    ASSUME NEW t \in Handlers, NEW l, NEW e \in Emojis, NEW r \in Roles, Command(t, l, e, r)
    PROVE  /\ pc[t] = "idle"
           /\ l \in {"addEnabled", "removeEnabled", "fixEnabled"}
           /\ \E b \in Locals : Fits(l, b) /\ Moves(t, l, b)
<1>. DEFINE a == [Blank EXCEPT !.emoji = e, !.role = r]
<1>1. pc[t] = "idle" /\ l \in {"addEnabled", "removeEnabled", "fixEnabled"}
  BY DEF Command
<1>2. a \in Locals /\ a.emoji = e /\ a.role = r /\ a.todo = {}
  BY DEF Blank, Locals
<1>3. Blank \in Locals /\ Blank.todo = {}
  BY BlankFits DEF Blank
<1>4. CASE l = "fixEnabled"
  <2>1. Moves(t, l, Blank)
    BY <1>4 DEF Command, Moves
  <2>2. Fits(l, Blank)
    BY <1>3, <1>4 DEF Fits, Labels, EventLabels, AddRemove
  <2>. QED  BY <1>1, <1>3, <2>1, <2>2
<1>5. CASE l # "fixEnabled"
  <2>1. Moves(t, l, a)
    BY <1>5 DEF Command, Moves
  <2>2. Fits(l, a)
    <3>. HIDE DEF a
    <3>. QED  BY <1>1, <1>2, <1>5 DEF Fits, Labels, EventLabels, AddRemove
  <2>. QED  BY <1>1, <1>2, <2>1, <2>2
<1>. QED  BY <1>4, <1>5

-----------------------------------------------------------------------------
(* Types.                                                                  *)

LEMMA PairIs == ASSUME NEW p \in Pairs
                PROVE  /\ p = <<p[1], p[2]>> /\ p[1] \in Reactors /\ p[2] \in Emojis
                       /\ p[1] \in Users => p \in Users \X Emojis
                       /\ \A k \in {"add", "remove"} : <<k, p>> \in Events
BY DEF Pairs, Events

LEMMA ArriveTypes ==
    ASSUME DiscordTypes, NEW k \in {"add", "remove"}, NEW p \in Pairs, NEW t, Arrive(k, p, t)
    PROVE  pending' \in [Events -> Nat] /\ settled' \subseteq Users \X Emojis
<1>1. <<k, p>> \in Events /\ (p[1] \in Users => p \in Users \X Emojis)
  BY PairIs
<1>. QED  BY <1>1 DEF Arrive, DiscordTypes

LEMMA UnreactsTypes ==
    ASSUME DiscordTypes, NEW p \in Pairs, NEW t, Unreacts(p, t), UNCHANGED has
    PROVE  DiscordTypes'
<1>1. pending' \in [Events -> Nat] /\ settled' \subseteq Users \X Emojis
  BY ArriveTypes DEF Unreacts
<1>2. reacted' \subseteq Pairs /\ spoiled' \subseteq Emojis
  BY PairIs DEF Unreacts, DiscordTypes
<1>. QED  BY <1>1, <1>2 DEF DiscordTypes

LEMMA RemovalTypes ==
    ASSUME DiscordTypes, NEW p \in Pairs, NEW t, MessageReactionRemove(p, t), UNCHANGED has
    PROVE  DiscordTypes'
<1>1. CASE UNCHANGED <<reacted, pending, settled, spoiled>>
  BY <1>1 DEF DiscordTypes
<1>. QED  BY <1>1, UnreactsTypes DEF MessageReactionRemove

LEMMA SetRowTypes ==
    ASSUME RowTypes, DiscordTypes, NEW e, NEW row \in Row \cup {NoRow}, SetRow(e, row)
    PROVE  RowTypes' /\ settled' \subseteq Users \X Emojis
BY DEF RowTypes, DiscordTypes, SetRow

LEMMA ReactionTables ==
    ASSUME Typed, NEW t \in Handlers, HandleReaction(t)
    PROVE  RowTypes' /\ DiscordTypes'
<1>0. RowTypes /\ DiscordTypes /\ arg[t] \in Locals /\ Fits(pc[t], arg[t])
  BY DEF Typed, ThreadTypes
<1>1. RowTypes'
  BY <1>0 DEF HandleReaction, Lookup, Assign, Revert, Revoke, RowTypes
<1>2. pc[t] \in EventLabels => Pair(t) \in Pairs
  BY <1>0 DEF Fits, Pair
<1>3. CASE Lookup(t)
  BY <1>0, <1>1, <1>3 DEF Lookup, DiscordTypes, discord
<1>4. CASE Assign(t)
  <2>1. arg[t].user \in Reactors /\ arg[t].role \in Roles
    BY <1>0, <1>4 DEF Assign, Fits, EventLabels, Pairs
  <2>2. has' \subseteq Reactors \X Roles /\ settled' \subseteq Users \X Emojis
    BY <1>0, <1>4, <2>1 DEF Assign, GiveRole, DiscordTypes
  <2>. QED  BY <1>0, <1>1, <1>4, <2>2 DEF Assign, DiscordTypes
<1>5. CASE Revert(t)
  <2>1. Pair(t) \in Pairs /\ UNCHANGED has
    BY <1>2, <1>5 DEF Revert, EventLabels
  <2>2. CASE MessageReactionRemove(Pair(t), t)
    BY <1>0, <1>1, <2>1, <2>2, RemovalTypes
  <2>3. CASE settled' = settled \ {Pair(t)} /\ UNCHANGED <<reacted, pending, spoiled>>
    BY <1>0, <1>1, <2>1, <2>3 DEF DiscordTypes
  <2>. QED  BY <1>5, <2>2, <2>3 DEF Revert
<1>6. CASE Revoke(t)
  BY <1>0, <1>1, <1>6 DEF Revoke, DiscordTypes
<1>. QED  BY <1>1, <1>3, <1>4, <1>5, <1>6 DEF HandleReaction

LEMMA AddRemoveTables ==
    ASSUME Typed, NEW t \in Handlers, AddRemoveSteps(t)
    PROVE  RowTypes' /\ DiscordTypes'
<1>0. RowTypes /\ DiscordTypes /\ arg[t] \in Locals /\ Fits(pc[t], arg[t])
  BY DEF Typed, ThreadTypes
<1>1. pc[t] \in AddRemove => arg[t].emoji \in Emojis /\ arg[t].role \in Roles
  BY <1>0 DEF Fits
<1>2. ASSUME UNCHANGED <<rows, reacted, has, pending, settled, spoiled>>
      PROVE  RowTypes' /\ DiscordTypes'
  BY <1>0, <1>2 DEF RowTypes, DiscordTypes
<1>3. CASE CheckCommand(t) \/ AddExists(t) \/ RemoveFind(t)
  BY <1>2, <1>3 DEF CheckCommand, AddExists, RemoveFind, discord
<1>4. ASSUME NEW e, NEW row \in Row \cup {NoRow}, SetRow(e, row),
             UNCHANGED <<reacted, has, pending>>, spoiled' \subseteq Emojis
      PROVE  RowTypes' /\ DiscordTypes'
  BY <1>0, <1>4, SetRowTypes DEF DiscordTypes
<1>5. ASSUME UNCHANGED <<rows, has, pending, settled>>,
             reacted' \subseteq Pairs, spoiled' \subseteq Emojis
      PROVE  RowTypes' /\ DiscordTypes'
  BY <1>0, <1>5 DEF RowTypes, DiscordTypes
<1>6. CASE AddCreate(t)
  <2>1. pc[t] \in AddRemove /\ UNCHANGED <<reacted, has, pending>>
    BY <1>6 DEF AddCreate, AddRemove, discord
  <2>2. [role |-> arg[t].role, by |-> t] \in Row
    BY <1>1, <2>1 DEF Row
  <2>3. spoiled' = spoiled \/ spoiled' = spoiled \cup {arg[t].emoji}
    BY <1>6 DEF AddCreate
  <2>4. spoiled' \subseteq Emojis
    BY <1>0, <1>1, <2>1, <2>3 DEF DiscordTypes
  <2>5. \/ SetRow(arg[t].emoji, [role |-> arg[t].role, by |-> t])
        \/ UNCHANGED <<rows, settled, spoiled>>
    BY <1>6 DEF AddCreate
  <2>. QED  BY <1>2, <1>4, <2>1, <2>2, <2>4, <2>5
<1>7. CASE AddReact(t)
  <2>1. pc[t] \in AddRemove /\ UNCHANGED <<rows, has, pending, settled>>
    BY <1>7 DEF AddReact, AddRemove
  <2>2. CASE MessageReactionAdd(arg[t].emoji)
    <3>1. reacted' \subseteq Pairs /\ spoiled' \subseteq Emojis
      BY <1>0, <1>1, <2>1, <2>2 DEF MessageReactionAdd, DiscordTypes, Pairs, Reactors
    <3>. QED  BY <1>5, <2>1, <3>1
  <2>3. CASE UNCHANGED <<reacted, spoiled>>
    BY <1>2, <2>1, <2>3
  <2>. QED  BY <1>7, <2>2, <2>3 DEF AddReact
<1>8. CASE Undo(t)
  <2>1. pc[t] \in AddRemove /\ UNCHANGED <<reacted, has, pending>>
    BY <1>8 DEF Undo, AddRemove, discord
  <2>2. spoiled' = spoiled \/ spoiled' = spoiled \cup {arg[t].emoji}
    BY <1>8 DEF Undo
  <2>3. spoiled' \subseteq Emojis
    BY <1>0, <1>1, <2>1, <2>2 DEF DiscordTypes
  <2>4. CASE SetRow(arg[t].emoji, NoRow)
    BY <1>4, <2>1, <2>3, <2>4
  <2>5. CASE UNCHANGED <<rows, settled>>
    BY <1>0, <2>1, <2>3, <2>5 DEF RowTypes, DiscordTypes
  <2>. QED  BY <1>8, <2>4, <2>5 DEF Undo
<1>9. CASE RemoveRow(t)
  <2>1. UNCHANGED <<reacted, has, pending, spoiled>>
    BY <1>9 DEF RemoveRow, discord
  <2>2. spoiled' \subseteq Emojis
    BY <1>0, <2>1 DEF DiscordTypes
  <2>3. SetRow(arg[t].emoji, NoRow) \/ UNCHANGED <<rows, settled>>
    BY <1>9 DEF RemoveRow
  <2>. QED  BY <1>2, <1>4, <2>1, <2>2, <2>3
<1>10. CASE Unreact(t)
  <2>1. pc[t] \in AddRemove /\ UNCHANGED <<rows, has>>
    BY <1>10 DEF Unreact, AddRemove
  <2>2. <<Bot, arg[t].emoji>> \in Pairs
    BY <1>1, <2>1 DEF Pairs, Reactors
  <2>3. RowTypes'
    BY <1>0, <2>1 DEF RowTypes
  <2>4. CASE MessageReactionRemove(<<Bot, arg[t].emoji>>, t)
    BY <1>0, <2>1, <2>2, <2>3, <2>4, RemovalTypes
  <2>5. CASE UNCHANGED <<reacted, pending, settled, spoiled>>
    BY <1>2, <2>1, <2>5
  <2>. QED  BY <1>10, <2>4, <2>5 DEF Unreact
<1>. QED  BY <1>3, <1>6, <1>7, <1>8, <1>9, <1>10 DEF AddRemoveSteps

LEMMA FixTables ==
    ASSUME Typed, NEW t \in Handlers, FixSteps(t)
    PROVE  RowTypes' /\ DiscordTypes'
<1>0. /\ RowTypes /\ DiscordTypes /\ arg[t] \in Locals /\ Fits(pc[t], arg[t])
      /\ arg[t].todo \subseteq Reactors
  BY DEF Typed, ThreadTypes, Locals
<1>1. UNCHANGED <<rows, has>>
  BY DEF FixSteps, FixList, FixMessage, FixMembers, FixUsers, FixRemove, FixBot, discord
<1>2. RowTypes'
  BY <1>0, <1>1 DEF RowTypes
<1>3. ASSUME UNCHANGED <<reacted, pending, settled, spoiled>>
      PROVE  DiscordTypes'
  BY <1>0, <1>1, <1>3 DEF DiscordTypes
<1>4. CASE FixList(t) \/ FixMessage(t) \/ FixMembers(t) \/ FixUsers(t)
  BY <1>2, <1>3, <1>4 DEF FixList, FixMessage, FixMembers, FixUsers, discord
<1>5. CASE FixRemove(t)
  <2>1. PICK u \in arg[t].todo :
            \/ MessageReactionRemove(<<u, arg[t].emoji>>, t)
            \/ UNCHANGED <<reacted, pending, settled, spoiled>>
    BY <1>5 DEF FixRemove
  <2>2. <<u, arg[t].emoji>> \in Pairs
    BY <1>0, <1>5 DEF FixRemove, Fits, Pairs
  <2>. QED  BY <1>0, <1>1, <1>2, <1>3, <2>1, <2>2, RemovalTypes
<1>6. CASE FixBot(t)
  <2>1. PICK e \in Missing(arg[t]) : MessageReactionAdd(e) \/ UNCHANGED <<reacted, spoiled>>
    BY <1>6 DEF FixBot
  <2>2. reacted' \subseteq Pairs /\ spoiled' \subseteq Emojis
    BY <1>0, <2>1 DEF MessageReactionAdd, DiscordTypes, Pairs, Reactors, Missing
  <2>3. UNCHANGED <<has, pending, settled>>
    BY <1>6 DEF FixBot
  <2>. QED  BY <1>0, <1>2, <2>2, <2>3 DEF DiscordTypes
<1>. QED  BY <1>4, <1>5, <1>6 DEF FixSteps

Flags == /\ enabled \in BOOLEAN /\ wiping \in Nat
         /\ calm \in Handlers \cup {None} /\ cut \subseteq Emojis

LEMMA InitTyped == Init => Typed
<1>. SUFFICES ASSUME Init PROVE Typed
  OBVIOUS
<1>1. rows \in [Emojis -> Row \cup {NoRow}]
  BY DEF Init, Row
<1>2. PICK p \in SUBSET (Users \X Emojis) :
          reacted = p \cup {<<Bot, e>> : e \in {e \in Emojis : rows[e] # NoRow}}
  BY DEF Init
<1>3. reacted \subseteq Pairs
  BY <1>2 DEF Pairs, Reactors
<1>4. ASSUME NEW q \in reacted, q[1] # Bot, rows[q[2]] # NoRow
      PROVE  <<q[1], rows[q[2]].role>> \in Reactors \X Roles
  <2>1. q[1] \in Reactors /\ q[2] \in Emojis
    BY <1>3 DEF Pairs
  <2>. QED  BY <1>1, <1>4, <2>1 DEF Row
<1>5. has \subseteq Reactors \X Roles
  BY <1>4 DEF Init
<1>6. pending \in [Events -> Nat] /\ settled = {} /\ spoiled = {}
  BY DEF Init
<1>7. ThreadTypes
  BY BlankFits DEF Init, ThreadTypes, Labels
<1>. QED  BY <1>1, <1>3, <1>5, <1>6, <1>7 DEF Typed, RowTypes, DiscordTypes

LEMMA HandlerTyped ==
    ASSUME Typed, NEW t \in Handlers, HandleReaction(t) \/ HandleInteraction(t)
    PROVE  Typed'
<1>1. ThreadTypes
  BY DEF Typed
<1>2. ASSUME NEW l, NEW b, Fits(l, b), Moves(t, l, b), RowTypes', DiscordTypes'
      PROVE  Typed'
  BY <1>1, <1>2, MovesTypes DEF Typed
<1>3. CASE HandleReaction(t)
  BY <1>2, <1>3, ReactionMoves, ReactionTables
<1>4. CASE AddRemoveSteps(t)
  BY <1>2, <1>4, AddRemoveMoves, AddRemoveTables
<1>5. CASE FixSteps(t)
  BY <1>2, <1>5, FixMoves, FixTables
<1>. QED  BY <1>3, <1>4, <1>5, InteractionIs

LEMMA StartTyped ==
    ASSUME Typed, NEW t \in Handlers, NEW k \in {"add", "remove"}, NEW p \in Pairs,
           StartEvent(t, k, p)
    PROVE  Typed'
<1>. DEFINE a == [Blank EXCEPT !.kind = k, !.user = p[1], !.emoji = p[2]]
<1>1. <<k, p>> \in Events /\ pending[<<k, p>>] > 0
  BY PairIs DEF StartEvent
<1>2. pending' \in [Events -> Nat]
  BY <1>1 DEF StartEvent, Typed, DiscordTypes
<1>3. UNCHANGED rows /\ UNCHANGED reacted /\ UNCHANGED has /\ UNCHANGED spoiled
  BY DEF StartEvent
<1>4. settled' = settled \/ settled' = settled \ {p}
  BY DEF StartEvent
<1>5. RowTypes' /\ DiscordTypes'
  BY <1>2, <1>3, <1>4 DEF Typed, RowTypes, DiscordTypes
<1>6. ThreadTypes'
  <2>1. CASE UNCHANGED threads
    BY <2>1 DEF threads, Typed, ThreadTypes
  <2>2. CASE Moves(t, "lookup", a)
    <3>1. Fits("lookup", a)
      BY EventMoves
    <3>. QED  BY <2>2, <3>1, MovesTypes DEF Typed
  <2>3. Moves(t, "lookup", a) \/ UNCHANGED threads
    BY DEF StartEvent, Moves
  <2>. QED  BY <2>1, <2>2, <2>3
<1>. QED  BY <1>5, <1>6 DEF Typed

LEMMA CommandTyped ==
    ASSUME Typed, NEW t \in Handlers, NEW l, NEW e \in Emojis, NEW r \in Roles,
           Command(t, l, e, r)
    PROVE  Typed'
<1>1. RowTypes' /\ DiscordTypes'
  BY DEF Command, discord, Typed, RowTypes, DiscordTypes
<1>. QED  BY <1>1, CommandMoves, MovesTypes DEF Typed

LEMMA PeopleTyped ==
    ASSUME Typed
    PROVE  /\ \A u \in Users, e \in Emojis : UserReacts(u, e) => Typed'
           /\ \A p \in Pairs : UserUnreacts(p) => Typed'
           /\ \A u \in Users, r \in Roles : RoleByHand(u, r) => Typed'
<1>1. ASSUME UNCHANGED <<rows, threads>>, DiscordTypes'
      PROVE  Typed'
  BY <1>1 DEF Typed, RowTypes, ThreadTypes, threads
<1>2. ASSUME NEW u \in Users, NEW e \in Emojis, UserReacts(u, e)
      PROVE  Typed'
  <2>1. <<u, e>> \in Pairs
    BY DEF Pairs, Reactors
  <2>2. pending' \in [Events -> Nat] /\ settled' \subseteq Users \X Emojis
    BY <1>2, <2>1, ArriveTypes DEF UserReacts, Typed
  <2>. QED  BY <1>1, <1>2, <2>1, <2>2 DEF UserReacts, Typed, DiscordTypes
<1>3. ASSUME NEW p \in Pairs, UserUnreacts(p)
      PROVE  Typed'
  BY <1>1, <1>3, UnreactsTypes DEF UserUnreacts, Typed
<1>4. ASSUME NEW u \in Users, NEW r \in Roles, RoleByHand(u, r)
      PROVE  Typed'
  <2>1. has' \subseteq Reactors \X Roles /\ settled' \subseteq Users \X Emojis
    BY <1>4 DEF RoleByHand, Typed, DiscordTypes, Reactors
  <2>. QED  BY <1>1, <1>4, <2>1 DEF RoleByHand, Typed, DiscordTypes
<1>. QED  BY <1>2, <1>3, <1>4

LEMMA SwitchTyped ==
    ASSUME Typed, Enable \/ Disable \/ Wipe \/ Crash
    PROVE  Typed'
<1>1. CASE Enable \/ Disable
  BY <1>1 DEF Enable, Disable, Typed, ThreadTypes, RowTypes, DiscordTypes, discord, threads
<1>2. CASE Wipe
  BY <1>2 DEF Wipe, Typed, ThreadTypes, RowTypes, DiscordTypes, discord, threads
<1>3. CASE Crash
  <2>1. ThreadTypes'
    BY <1>3, BlankFits DEF Crash, ThreadTypes, Labels
  <2>2. RowTypes' /\ DiscordTypes'
    BY <1>3 DEF Crash, Typed, RowTypes, DiscordTypes
  <2>. QED  BY <2>1, <2>2 DEF Typed
<1>. QED  BY <1>1, <1>2, <1>3

LEMMA NextTyped == Typed /\ [Next]_vars => Typed'
<1>1. ASSUME Typed, UNCHANGED vars PROVE Typed'
  BY <1>1 DEF vars, discord, threads, history, Typed, ThreadTypes, RowTypes, DiscordTypes
<1>2. ASSUME Typed, Next PROVE Typed'
  BY <1>2, HandlerTyped, StartTyped, CommandTyped, PeopleTyped, SwitchTyped DEF Next
<1>. QED  BY <1>1, <1>2

LEMMA InitFlags == Init => Flags
<1>. SUFFICES ASSUME Init PROVE Flags
  OBVIOUS
<1>1. enabled \in BOOLEAN /\ wiping = 0 /\ calm = None /\ cut = {}
  BY DEF Init
<1>. QED  BY <1>1 DEF Flags

LEMMA FlagsKept == Typed /\ Flags /\ [Next]_vars => Flags'
<1>. SUFFICES ASSUME Typed, Flags, [Next]_vars PROVE Flags'
  OBVIOUS
<1>1. ASSUME UNCHANGED <<enabled, wiping, cut>>, calm' \in {calm, None} PROVE Flags'
  BY <1>1 DEF Flags
<1>2. ASSUME NEW t \in Handlers, HandleReaction(t) PROVE Flags'
  BY <1>1, <1>2 DEF HandleReaction, Lookup, Assign, Revert, Revoke, NoFault, Fault, budget
<1>3. ASSUME NEW t \in Handlers, AddRemoveSteps(t) PROVE Flags'
  BY <1>1, <1>3 DEF AddRemoveSteps, CheckCommand, AddExists, AddCreate, AddReact, Undo,
       RemoveFind, RemoveRow, Unreact, NoFault, Fault, budget
<1>4. ASSUME NEW t \in Handlers, FixSteps(t) PROVE Flags'
  <2>1. CASE FixList(t) \/ FixMessage(t) \/ FixRemove(t) \/ FixBot(t)
    BY <1>1, <2>1 DEF FixList, FixMessage, FixRemove, FixBot, NoFault, Fault, budget
  <2>2. UNCHANGED <<enabled, wiping>> /\ calm' \in {calm, None} /\ cut' \subseteq Emojis => Flags'
    BY DEF Flags
  <2>3. CASE FixMembers(t)
    BY <1>1, <2>2, <2>3 DEF FixMembers, NoFault, Fault, budget
  <2>4. CASE FixUsers(t)
    <3>1. \A e \in arg[t].on : e \in Emojis
      BY DEF Typed, ThreadTypes, Locals
    <3>2. cut' \subseteq Emojis /\ calm' \in {calm, None} /\ UNCHANGED <<enabled, wiping>>
      BY <2>4, <3>1 DEF FixUsers, Flags, Fault
    <3>. QED  BY <2>2, <3>2
  <2>. QED  BY <1>4, <2>1, <2>3, <2>4 DEF FixSteps
<1>5. ASSUME NEW t, NEW k, NEW p, StartEvent(t, k, p) PROVE Flags'
  BY <1>1, <1>5 DEF StartEvent, NoFault, Fault, budget
<1>6. ASSUME NEW t \in Handlers, NEW l, NEW e, NEW r, Command(t, l, e, r) PROVE Flags'
  BY <1>6 DEF Command, Request, Flags
<1>7. ASSUME NEW u, NEW e, UserReacts(u, e) \/ RoleByHand(u, e) \/ UserUnreacts(e) PROVE Flags'
  BY <1>1, <1>7 DEF UserReacts, UserUnreacts, RoleByHand, Request
<1>8. CASE Enable \/ Disable
  <2>1. calm' = None /\ cut' = cut /\ enabled' \in BOOLEAN /\ wiping' \in {wiping, wiping + 1}
    BY <1>8 DEF Enable, Disable, Request, Fault
  <2>. QED  BY <2>1 DEF Flags
<1>9. CASE Wipe
  BY <1>9 DEF Wipe, Flags, NoFault, Fault
<1>10. CASE Crash
  BY <1>1, <1>10 DEF Crash, Fault
<1>11. CASE UNCHANGED vars
  BY <1>1, <1>11 DEF vars, history
<1>. QED  BY <1>2, <1>3, <1>4, <1>5, <1>6, <1>7, <1>8, <1>9, <1>10, <1>11, InteractionIs
          DEF Next

TypeInv == Typed /\ Flags

LEMMA TypeInvProved == Spec => []TypeInv
<1>1. Init => TypeInv
  BY InitTyped, InitFlags DEF TypeInv
<1>2. TypeInv /\ [Next]_vars => TypeInv'
  BY NextTyped, FlagsKept DEF TypeInv
<1>. QED  BY <1>1, <1>2, PTL DEF Spec

\* TypeOK: of the tables, and of the goroutines of the bot, each of which has
\* read what its next call passes on.
THEOREM TypeCorrect == Spec => []TypeOK
<1>1. TypeInv => TypeOK
  <2>. SUFFICES ASSUME TypeInv PROVE TypeOK
    OBVIOUS
  <2>1. ASSUME NEW t \in Handlers
        PROVE  /\ pc[t] \in EventLabels => Pair(t) \in Pairs
               /\ pc[t] \in {"assign", "revoke"} => arg[t].role \in Roles
               /\ pc[t] \in {"addCreate", "addReact", "undo", "removeRow", "unreact", "fixRemove"}
                     => arg[t].emoji \in Emojis
               /\ pc[t] = "fixRemove" => arg[t].todo # {} /\ arg[t].todo \subseteq Reactors
               /\ pc[t] = "fixUsers" => arg[t].on # {}
    <3>1. Fits(pc[t], arg[t]) /\ arg[t] \in Locals
      BY DEF TypeInv, Typed, ThreadTypes
    <3>. QED  BY <3>1 DEF Fits, AddRemove, Pair, Locals
  <2>2. /\ rows \in [Emojis -> Row \cup {NoRow}]
        /\ reacted \subseteq Pairs /\ has \subseteq Reactors \X Roles
        /\ pending \in [Events -> Nat]
        /\ pc \in [Handlers -> Labels]
        /\ settled \subseteq Users \X Emojis /\ spoiled \subseteq Emojis
    BY DEF TypeInv, Typed, ThreadTypes, RowTypes, DiscordTypes
  <2>. QED  BY <2>1, <2>2 DEF TypeOK, TypeInv, Flags
<1>. QED  BY <1>1, TypeInvProved, PTL

-----------------------------------------------------------------------------
(* ShownOrSpoiled.                                                         *)

Seen(e) == <<Bot, e>> \in reacted \/ e \in spoiled
Shown(e) == Configured(e) => Seen(e) \/ \E t \in Handlers : Adding(t, e)

\* A step that leaves the row of e, and what makes up for a missing reaction.
LEMMA StillShown ==
    ASSUME NEW e \in Emojis, Shown(e), rows'[e] = rows[e], Configured(e) /\ Seen(e) => Seen(e)',
           \A t \in Handlers : Adding(t, e) => Adding(t, e)'
    PROVE  Shown(e)'
BY DEF Shown, Configured

\* A step of a goroutine that is not about to react or to delete a row.
LEMMA OthersAdd ==
    ASSUME ThreadTypes, NEW t \in Handlers, NEW l, NEW a, Moves(t, l, a),
           pc[t] \notin {"addReact", "undo"}, NEW e \in Emojis, rows'[e] = rows[e]
    PROVE  \A s \in Handlers : Adding(s, e) => Adding(s, e)'
BY MovesOthers DEF Adding

LEMMA RemovalSeen ==
    ASSUME NEW p, NEW t, MessageReactionRemove(p, t), NEW e \in Emojis, Configured(e), Seen(e)
    PROVE  Seen(e)'
BY DEF MessageReactionRemove, Unreacts, Seen

LEMMA ReactSeen ==
    ASSUME NEW d, MessageReactionAdd(d), NEW e \in Emojis, Seen(e)
    PROVE  Seen(e)'
BY DEF MessageReactionAdd, Seen

LEMMA ReactionShows ==
    ASSUME Typed, NEW t \in Handlers, HandleReaction(t), NEW e \in Emojis, Shown(e)
    PROVE  Shown(e)'
<1>1. rows' = rows
  BY DEF HandleReaction, Lookup, Assign, Revert, Revoke
<1>2. Configured(e) /\ Seen(e) => Seen(e)'
  BY RemovalSeen DEF HandleReaction, Lookup, Assign, Revert, Revoke, discord, Seen
<1>3. pc[t] \notin {"addReact", "undo"}
  BY ReactionMoves DEF EventLabels
<1>. QED  BY <1>1, <1>2, <1>3, ReactionMoves, OthersAdd, StillShown DEF Typed

LEMMA FixShows ==
    ASSUME Typed, NEW t \in Handlers, FixSteps(t), NEW e \in Emojis, Shown(e)
    PROVE  Shown(e)'
<1>1. rows' = rows
  BY DEF FixSteps, FixList, FixMessage, FixMembers, FixUsers, FixRemove, FixBot
<1>2. Configured(e) /\ Seen(e) => Seen(e)'
  <2>1. CASE UNCHANGED <<reacted, spoiled>>
    BY <2>1 DEF Seen
  <2>. QED  BY <2>1, RemovalSeen, ReactSeen
            DEF FixSteps, FixList, FixMessage, FixMembers, FixUsers, FixRemove, FixBot, discord
<1>3. pc[t] \notin {"addReact", "undo"}
  BY FixMoves DEF FixLabels
<1>. QED  BY <1>1, <1>2, <1>3, FixMoves, OthersAdd, StillShown DEF Typed

LEMMA AddRemoveShows ==
    ASSUME Typed, NEW t \in Handlers, AddRemoveSteps(t), NEW e \in Emojis, Shown(e)
    PROVE  Shown(e)'
<1>0. ThreadTypes /\ RowTypes
  BY DEF Typed
<1>1. PICK l \in AddRemove \cup {"fixList", "idle"}, b \in Locals :
          Moves(t, l, b) /\ (l = "idle" \/ b = arg[t])
  BY AddRemoveMoves
<1>2. /\ pc'[t] = l /\ arg'[t] = b
      /\ \A s \in Handlers \ {t} : pc'[s] = pc[s] /\ arg'[s] = arg[s]
  BY <1>0, <1>1, MovesOthers
<1>3. ASSUME rows'[e] = rows[e]
      PROVE  \A s \in Handlers \ {t} : Adding(s, e) => Adding(s, e)'
  BY <1>2, <1>3 DEF Adding
<1>4. ASSUME rows'[e] = rows[e], ~Adding(t, e), Configured(e) /\ Seen(e) => Seen(e)'
      PROVE  Shown(e)'
  <2>1. \A s \in Handlers : Adding(s, e) => Adding(s, e)'
    BY <1>3, <1>4
  <2>. QED  BY <1>4, <2>1, StillShown
<1>5. ASSUME Seen(e)' \/ ~Configured(e)'
      PROVE  Shown(e)'
  BY <1>5 DEF Shown
<1>6. CASE CheckCommand(t) \/ AddExists(t) \/ RemoveFind(t)
  <2>1. UNCHANGED <<rows, reacted, spoiled>> /\ ~Adding(t, e)
    BY <1>6 DEF CheckCommand, AddExists, RemoveFind, discord, Adding
  <2>. QED  BY <1>4, <2>1 DEF Seen
<1>7. CASE Unreact(t)
  <2>1. UNCHANGED rows /\ ~Adding(t, e)
    BY <1>7 DEF Unreact, Adding
  <2>2. Configured(e) /\ Seen(e) => Seen(e)'
    BY <1>7, RemovalSeen DEF Unreact, Seen
  <2>. QED  BY <1>4, <2>1, <2>2
<1>8. ASSUME NEW d, NEW row, SetRow(d, row)
      PROVE  /\ d # e => rows'[e] = rows[e]
             /\ d = e => rows'[e] = row
  BY <1>0, <1>8 DEF SetRow, RowTypes
<1>9. CASE RemoveRow(t)
  <2>1. UNCHANGED <<reacted, spoiled>> /\ ~Adding(t, e)
    BY <1>9 DEF RemoveRow, discord, Adding
  <2>2. CASE SetRow(arg[t].emoji, NoRow)
    BY <1>4, <1>5, <1>8, <2>1, <2>2 DEF Seen, Configured
  <2>3. CASE UNCHANGED rows
    BY <1>4, <2>1, <2>3 DEF Seen
  <2>. QED  BY <1>9, <2>2, <2>3 DEF RemoveRow
<1>10. CASE AddCreate(t)
  <2>. DEFINE d == arg[t].emoji
              row == [role |-> arg[t].role, by |-> t]
  <2>1. UNCHANGED reacted /\ ~Adding(t, e)
    BY <1>10 DEF AddCreate, discord, Adding
  <2>2. CASE UNCHANGED <<rows, spoiled>>
    BY <1>4, <2>1, <2>2 DEF Seen
  <2>3. CASE SetRow(d, row) /\ Goto(t, "addReact") /\ UNCHANGED spoiled
    <3>1. CASE d # e
      BY <1>4, <1>8, <2>1, <2>3, <3>1 DEF Seen
    <3>2. CASE d = e
      <4>1. Moves(t, "addReact", arg[t])
        BY <1>0, <2>3, GotoOn
      <4>2. pc'[t] = "addReact" /\ arg'[t] = arg[t]
        BY <1>0, <4>1, MovesOthers
      <4>3. rows'[e].by = t
        BY <1>8, <2>3, <3>2
      <4>. QED  BY <3>2, <4>2, <4>3 DEF Adding, Shown
    <3>. QED  BY <3>1, <3>2
  <2>4. CASE SetRow(d, row) /\ spoiled' = spoiled \cup {d}
    <3>1. CASE d # e
      BY <1>4, <1>8, <2>1, <2>4, <3>1 DEF Seen
    <3>2. CASE d = e
      BY <1>5, <2>4, <3>2 DEF Seen
    <3>. QED  BY <3>1, <3>2
  <2>. QED  BY <1>10, <2>2, <2>3, <2>4 DEF AddCreate
<1>11. CASE AddReact(t)
  <2>1. UNCHANGED rows /\ pc[t] = "addReact"
    BY <1>11 DEF AddReact
  <2>2. CASE MessageReactionAdd(arg[t].emoji)
    <3>1. CASE arg[t].emoji = e
      BY <1>5, <2>2, <3>1 DEF MessageReactionAdd, Seen
    <3>2. CASE arg[t].emoji # e
      BY <1>4, <2>1, <2>2, <3>2, ReactSeen DEF Adding
    <3>. QED  BY <3>1, <3>2
  <2>3. CASE Goto(t, "undo") /\ UNCHANGED <<reacted, spoiled>>
    <3>1. Moves(t, "undo", arg[t])
      BY <1>0, <2>3, GotoOn
    <3>2. pc'[t] = "undo" /\ arg'[t] = arg[t]
      BY <1>0, <3>1, MovesOthers
    <3>3. Adding(t, e) => Adding(t, e)'
      BY <2>1, <3>2 DEF Adding
    <3>4. \A s \in Handlers : Adding(s, e) => Adding(s, e)'
      BY <1>3, <2>1, <3>3
    <3>. QED  BY <2>1, <2>3, <3>4, StillShown DEF Seen
  <2>. QED  BY <1>11, <2>2, <2>3 DEF AddReact
<1>12. CASE Undo(t)
  <2>. DEFINE d == arg[t].emoji
  <2>1. UNCHANGED reacted
    BY <1>12 DEF Undo, discord
  <2>2. CASE SetRow(d, NoRow) /\ UNCHANGED spoiled
    <3>1. CASE d = e
      BY <1>5, <1>8, <2>2, <3>1 DEF Configured
    <3>2. CASE d # e
      BY <1>4, <1>8, <2>1, <2>2, <3>2 DEF Adding, Seen
    <3>. QED  BY <3>1, <3>2
  <2>3. CASE rows[d].by # t /\ UNCHANGED <<rows, spoiled>>
    BY <1>4, <2>1, <2>3 DEF Adding, Seen
  <2>4. CASE UNCHANGED rows /\ spoiled' = IF rows[d].by = t THEN spoiled \cup {d} ELSE spoiled
    <3>1. CASE d = e /\ rows[d].by = t
      BY <1>5, <2>4, <3>1 DEF Seen
    <3>2. CASE ~(d = e /\ rows[d].by = t)
      BY <1>4, <2>1, <2>4, <3>2 DEF Adding, Seen
    <3>. QED  BY <3>1, <3>2
  <2>. QED  BY <1>12, <2>2, <2>3, <2>4 DEF Undo
<1>. QED  BY <1>6, <1>7, <1>9, <1>10, <1>11, <1>12 DEF AddRemoveSteps

LEMMA OutsideShows ==
    ASSUME Typed, NEW e \in Emojis, Shown(e),
           \/ \E u \in Users, d \in Emojis : UserReacts(u, d)
           \/ \E p \in Pairs : UserUnreacts(p)
           \/ \E u \in Users, r \in Roles : RoleByHand(u, r)
           \/ Enable \/ Disable \/ Wipe \/ Crash \/ UNCHANGED vars
    PROVE  Shown(e)'
<1>1. ASSUME UNCHANGED <<rows, threads>>, Configured(e) /\ Seen(e) => Seen(e)'
      PROVE  Shown(e)'
  <2>1. \A t \in Handlers : Adding(t, e) => Adding(t, e)'
    BY <1>1 DEF Adding, threads
  <2>. QED  BY <1>1, <2>1, StillShown
<1>2. ASSUME NEW u \in Users, NEW d \in Emojis, UserReacts(u, d)
      PROVE  Shown(e)'
  BY <1>1, <1>2 DEF UserReacts, Seen
<1>3. ASSUME NEW p \in Pairs, UserUnreacts(p)
      PROVE  Shown(e)'
  BY <1>1, <1>3 DEF UserUnreacts, Unreacts, Seen
<1>4. ASSUME NEW u \in Users, NEW r \in Roles, RoleByHand(u, r)
      PROVE  Shown(e)'
  BY <1>1, <1>4 DEF RoleByHand, Seen
<1>5. CASE Enable \/ Disable \/ UNCHANGED vars
  BY <1>1, <1>5 DEF Enable, Disable, vars, history, discord, Seen
<1>6. CASE Wipe
  <2>1. CASE rows' = [d \in Emojis |-> NoRow]
    BY <2>1 DEF Shown, Configured
  <2>2. CASE UNCHANGED rows
    BY <1>1, <1>6, <2>2 DEF Wipe, discord, Seen
  <2>. QED  BY <1>6, <2>1, <2>2 DEF Wipe
<1>7. CASE Crash
  BY <1>7 DEF Crash, Shown, Configured, Seen
<1>. QED  BY <1>2, <1>3, <1>4, <1>5, <1>6, <1>7

LEMMA ShownKept ==
    ASSUME Typed, [Next]_vars, NEW e \in Emojis, Shown(e)
    PROVE  Shown(e)'
<1>1. ASSUME NEW t \in Handlers, NEW l, NEW a, Moves(t, l, a),
             pc[t] = "idle", UNCHANGED <<rows, reacted, spoiled>>
      PROVE  Shown(e)'
  <2>1. \A s \in Handlers : Adding(s, e) => Adding(s, e)'
    BY <1>1, OthersAdd DEF Typed
  <2>. QED  BY <1>1, <2>1, StillShown DEF Seen
<1>2. ASSUME NEW t \in Handlers, NEW k \in {"add", "remove"}, NEW p \in Pairs,
             StartEvent(t, k, p)
      PROVE  Shown(e)'
  <2>1. pc[t] = "idle" /\ UNCHANGED <<rows, reacted, spoiled>>
    BY <1>2 DEF StartEvent
  <2>2. CASE UNCHANGED threads
    <3>1. \A s \in Handlers : Adding(s, e) => Adding(s, e)'
      BY <2>1, <2>2 DEF threads, Adding
    <3>. QED  BY <2>1, <3>1, StillShown DEF Seen
  <2>3. UNCHANGED threads \/ Moves(t, "lookup",
            [Blank EXCEPT !.kind = k, !.user = p[1], !.emoji = p[2]])
    BY <1>2 DEF StartEvent, Moves
  <2>. QED  BY <1>1, <2>1, <2>2, <2>3
<1>3. ASSUME NEW t \in Handlers, NEW l, NEW d \in Emojis, NEW r \in Roles, Command(t, l, d, r)
      PROVE  Shown(e)'
  <2>1. UNCHANGED <<rows, reacted, spoiled>>
    BY <1>3 DEF Command, discord
  <2>. QED  BY <1>1, <1>3, <2>1, CommandMoves
<1>4. ASSUME NEW t \in Handlers, HandleReaction(t) \/ HandleInteraction(t)
      PROVE  Shown(e)'
  BY <1>4, InteractionIs, ReactionShows, FixShows, AddRemoveShows
<1>. QED  BY <1>2, <1>3, <1>4, OutsideShows DEF Next

\* ShownOrSpoiled: no row is left without the bot's reaction unless a call
\* failed, the bot crashed, or somebody took the reaction away.
THEOREM ShownCorrect == Spec => []ShownOrSpoiled
<1>. DEFINE All == \A e \in Emojis : Shown(e)
<1>1. All <=> ShownOrSpoiled
  BY DEF Shown, Seen, ShownOrSpoiled
<1>2. Init => All
  BY DEF Init, Shown, Seen, Configured
<1>3. TypeInv /\ All /\ [Next]_vars => All'
  BY ShownKept DEF TypeInv
<1>. HIDE DEF All
<1>. QED  BY <1>1, <1>2, <1>3, TypeInvProved, PTL DEF Spec

-----------------------------------------------------------------------------
(* InSync.  The last event of a settled pair is over, waits, or is being   *)
(* handled; in each case nothing else of the pair is under way, and what   *)
(* the event says agrees with the reaction.                                *)

Kinds == {"add", "remove"}
On(s, p) == pc[s] \in EventLabels /\ Pair(s) = p
NonePending(p) == \A k \in Kinds : pending[<<k, p>>] = 0
NoneOn(p) == \A s \in Handlers : ~On(s, p)

Agrees(p) == NonePending(p) /\ NoneOn(p) /\ (p \in reacted <=> <<p[1], rows[p[2]].role>> \in has)

Waits(p, k) ==
    /\ pending[<<k, p>>] = 1
    /\ \A j \in Kinds \ {k} : pending[<<j, p>>] = 0
    /\ NoneOn(p)
    /\ p \in reacted <=> k = "add"

Handled(p, t) ==
    /\ NonePending(p) /\ On(t, p)
    /\ \A s \in Handlers \ {t} : ~On(s, p)
    /\ \/ pc[t] = "lookup" /\ (p \in reacted <=> arg[t].kind = "add")
       \/ pc[t] = "assign" /\ p \in reacted /\ arg[t].role = rows[p[2]].role
       \/ pc[t] = "revert" /\ p \in reacted
       \/ pc[t] = "revoke" /\ p \notin reacted /\ arg[t].role = rows[p[2]].role

Ready(p) == enabled /\ Configured(p[2])
Sync(p) ==
    /\ Ready(p)
    /\ Agrees(p) \/ (\E k \in Kinds : Waits(p, k)) \/ (\E t \in Handlers : Handled(p, t))

\* The goroutines on p, and the rest of what Sync(p) reads, as they were.
SameOn(p) == \A s \in Handlers : /\ On(s, p) => pc'[s] = pc[s] /\ arg'[s] = arg[s]
                                 /\ ~On(s, p) => ~On(s, p)'
SamePending(p) == \A k \in Kinds : pending'[<<k, p>>] = pending[<<k, p>>]
SameRow(p) == rows'[p[2]] = rows[p[2]]
SameReacted(p) == p \in reacted' <=> p \in reacted
SameHas(p) == <<p[1], rows[p[2]].role>> \in has' <=> <<p[1], rows[p[2]].role>> \in has

LEMMA SyncSame ==
    ASSUME NEW p, Sync(p), enabled => enabled',
           SameOn(p), SamePending(p), SameRow(p), SameReacted(p), SameHas(p)
    PROVE  Sync(p)'
<1>1. Ready(p)'
  BY DEF Sync, Ready, Configured, SameRow
<1>2. \A s \in Handlers : On(s, p) <=> On(s, p)'
  BY DEF On, Pair, SameOn
<1>3. CASE Agrees(p)
  <2>1. NonePending(p)' /\ NoneOn(p)'
    BY <1>2, <1>3 DEF Agrees, NonePending, NoneOn, SamePending
  <2>2. (p \in reacted <=> <<p[1], rows[p[2]].role>> \in has)'
    BY <1>3 DEF Agrees, SameRow, SameReacted, SameHas
  <2>. QED  BY <1>1, <2>1, <2>2 DEF Agrees, Sync
<1>4. ASSUME NEW k \in Kinds, Waits(p, k)
      PROVE  Sync(p)'
  <2>1. Waits(p, k)'
    BY <1>2, <1>4 DEF Waits, NoneOn, SamePending, SameReacted
  <2>. QED  BY <1>1, <2>1 DEF Sync
<1>5. ASSUME NEW t \in Handlers, Handled(p, t)
      PROVE  Sync(p)'
  <2>1. On(t, p)' /\ (\A s \in Handlers \ {t} : ~On(s, p)') /\ NonePending(p)'
    BY <1>2, <1>5 DEF Handled, NonePending, SamePending
  <2>2. pc'[t] = pc[t] /\ arg'[t] = arg[t]
    BY <1>5 DEF Handled, SameOn
  <2>3. Handled(p, t)'
    BY <1>5, <2>1, <2>2 DEF Handled, SameReacted, SameRow
  <2>. QED  BY <1>1, <2>3 DEF Sync
<1>. QED  BY <1>3, <1>4, <1>5 DEF Sync

\* A goroutine on no pair, before and after its step, or on another pair.
LEMMA OthersOn ==
    ASSUME ThreadTypes, NEW t \in Handlers, NEW l, NEW a, Moves(t, l, a), NEW p,
           pc[t] \in EventLabels => Pair(t) # p,
           l \in EventLabels => <<a.user, a.emoji>> # p
    PROVE  SameOn(p)
BY MovesOthers DEF SameOn, On, Pair

LEMMA SameThreads == ASSUME UNCHANGED threads, NEW p PROVE SameOn(p)
BY DEF threads, SameOn, On, Pair

LEMMA BusyIs ==
    ASSUME DiscordTypes, NEW p \in Pairs, NEW t, ~BusyBut(p, t)
    PROVE  NonePending(p) /\ \A s \in Handlers \ {t} : ~On(s, p)
<1>1. ASSUME NEW k \in Kinds PROVE pending[<<k, p>>] = 0
  <2>1. <<k, p>> \in Events
    BY PairIs DEF Kinds
  <2>2. pending[<<k, p>>] \in Nat /\ ~(pending[<<k, p>>] > 0)
    BY <2>1 DEF BusyBut, DiscordTypes, Kinds
  <2>. QED  BY <2>2
<1>. QED  BY <1>1 DEF BusyBut, NonePending, On

\* A new event of p, handled alone so far.
LEMMA ArriveSync ==
    ASSUME DiscordTypes, NEW k \in Kinds, NEW p \in Pairs, NEW t, Arrive(k, p, t), p \in settled',
           p \in reacted' <=> k = "add", enabled => enabled', UNCHANGED rows,
           \A s \in Handlers : On(s, p)' => s # t /\ On(s, p)
    PROVE  Sync(p)'
<1>1. ~BusyBut(p, t) /\ enabled /\ Configured(p[2])
  BY DEF Arrive
<1>2. NonePending(p) /\ \A s \in Handlers \ {t} : ~On(s, p)
  BY <1>1, BusyIs
<1>3. NoneOn(p)'
  BY <1>2 DEF NoneOn
<1>4. pending' = [pending EXCEPT ![<<k, p>>] = @ + 1] /\ pending \in [Events -> Nat]
  BY DEF Arrive, DiscordTypes
<1>5. \A j \in Kinds : <<j, p>> \in Events /\ pending[<<j, p>>] = 0
  BY <1>2, PairIs DEF Kinds, NonePending
<1>6. pending'[<<k, p>>] = 1 /\ \A j \in Kinds \ {k} : pending'[<<j, p>>] = 0
  BY <1>4, <1>5
<1>7. Waits(p, k)'
  BY <1>3, <1>6 DEF Waits
<1>. QED  BY <1>1, <1>7 DEF Sync, Ready, Configured

\* A new event of another pair.
LEMMA ArriveOther ==
    ASSUME DiscordTypes, NEW k \in Kinds, NEW q \in Pairs, NEW t, Arrive(k, q, t),
           NEW p \in settled', p # q
    PROVE  p \in settled /\ SamePending(p)
BY DEF Arrive, SamePending, DiscordTypes

\* A reaction is removed in a step of t that leaves the rest as it was.
LEMMA RemovalSync ==
    ASSUME Typed, \A d \in settled : Sync(d), NEW p \in settled',
           NEW q \in Pairs, NEW t, MessageReactionRemove(q, t), UNCHANGED <<enabled, rows, has>>,
           \A s \in Handlers : On(s, p)' => On(s, p) /\ (p = q => s # t),
           p # q \/ q \notin reacted => SameOn(p)
    PROVE  Sync(p)'
<1>0. DiscordTypes
  BY DEF Typed
<1>1. SameRow(p) /\ SameHas(p) /\ (enabled => enabled')
  BY DEF SameRow, SameHas
<1>2. CASE UNCHANGED <<reacted, pending, settled, spoiled>> /\ q \notin reacted
  <2>1. SamePending(p) /\ SameReacted(p) /\ p \in settled
    BY <1>2 DEF SamePending, SameReacted
  <2>. QED  BY <1>1, <1>2, <2>1, SyncSame
<1>3. CASE Unreacts(q, t) /\ p # q
  <2>1. p \in settled /\ SamePending(p)
    BY <1>0, <1>3, ArriveOther DEF Unreacts, Kinds
  <2>2. SameReacted(p)
    BY <1>3 DEF Unreacts, SameReacted
  <2>. QED  BY <1>1, <1>3, <2>1, <2>2, SyncSame
<1>4. CASE Unreacts(q, t) /\ p = q
  <2>1. ~(p \in reacted') /\ "remove" \in Kinds /\ Arrive("remove", p, t)
    BY <1>4 DEF Unreacts, Kinds
  <2>. QED  BY <1>0, <1>1, <1>4, <2>1, ArriveSync
<1>. QED  BY <1>2, <1>3, <1>4 DEF MessageReactionRemove

\* The steps of people.
LEMMA PeopleSync ==
    ASSUME Typed, \A d \in settled : Sync(d), NEW p \in settled',
           \/ \E u \in Users, e \in Emojis : UserReacts(u, e)
           \/ \E q \in Pairs : UserUnreacts(q)
           \/ \E u \in Users, r \in Roles : RoleByHand(u, r)
    PROVE  Sync(p)'
<1>0. DiscordTypes
  BY DEF Typed
<1>1. ASSUME NEW u \in Users, NEW e \in Emojis, UserReacts(u, e)
      PROVE  Sync(p)'
  <2>. DEFINE q == <<u, e>>
  <2>1. /\ q \in Pairs /\ Arrive("add", q, None) /\ reacted' = reacted \cup {q}
        /\ "add" \in Kinds /\ UNCHANGED <<enabled, rows, has, threads>>
    BY <1>1 DEF UserReacts, Pairs, Reactors, Kinds
  <2>2. SameOn(p)
    BY <2>1, SameThreads
  <2>. HIDE DEF q
  <2>3. CASE p = q
    <3>1. p \in reacted'
      BY <2>1, <2>3
    <3>2. \A s \in Handlers : On(s, p)' => s # None /\ On(s, p)
      BY <2>2, Names DEF SameOn
    <3>. QED  BY <1>0, <2>1, <2>3, <3>1, <3>2, ArriveSync
  <2>4. CASE p # q
    <3>1. p \in settled /\ SamePending(p)
      BY <1>0, <2>1, <2>4, ArriveOther
    <3>2. SameReacted(p) /\ SameRow(p) /\ SameHas(p)
      BY <2>1, <2>4 DEF SameReacted, SameRow, SameHas
    <3>. QED  BY <2>1, <2>2, <3>1, <3>2, SyncSame
  <2>. QED  BY <2>3, <2>4
<1>2. ASSUME NEW q \in Pairs, UserUnreacts(q)
      PROVE  Sync(p)'
  <2>1. UNCHANGED <<enabled, rows, has, threads>> /\ MessageReactionRemove(q, None)
    BY <1>2 DEF UserUnreacts, MessageReactionRemove
  <2>2. SameOn(p)
    BY <2>1, SameThreads
  <2>3. \A s \in Handlers : On(s, p)' => On(s, p) /\ s # None
    BY <2>2, Names DEF SameOn
  <2>. QED  BY <2>1, <2>2, <2>3, RemovalSync
<1>3. ASSUME NEW u \in Users, NEW r \in Roles, RoleByHand(u, r)
      PROVE  Sync(p)'
  <2>1. /\ UNCHANGED <<enabled, rows, reacted, pending, threads>>
        /\ p \in settled /\ p \notin Shaken(u, r, None)
        /\ \A v \in Users, s \in Roles : <<v, s>> # <<u, r>> => (<<v, s>> \in has' <=> <<v, s>> \in has)
    BY <1>3 DEF RoleByHand
  <2>2. SameOn(p) /\ SamePending(p) /\ SameRow(p) /\ SameReacted(p)
    BY <2>1, SameThreads DEF SamePending, SameRow, SameReacted
  <2>3. <<p[1], rows[p[2]].role>> # <<u, r>>
    <3>1. p = <<p[1], p[2]>> /\ p[2] \in Emojis \ {None}
      BY <1>0, <2>1, Names DEF DiscordTypes
    <3>. QED  BY <2>1, <3>1 DEF Shaken
  <2>4. SameHas(p)
    BY <1>3, <2>3 DEF RoleByHand, SameHas
  <2>. QED  BY <2>1, <2>2, <2>4, SyncSame
<1>. QED  BY <1>1, <1>2, <1>3

\* The goroutine whose handler it is, when the pair is settled.
LEMMA OnHandled ==
    ASSUME NEW p, Sync(p), NEW t \in Handlers, On(t, p)
    PROVE  Handled(p, t)
BY DEF Sync, Agrees, Waits, NoneOn, Handled

LEMMA PendingWaits ==
    ASSUME NEW p, Sync(p), NEW k \in Kinds, pending[<<k, p>>] > 0
    PROVE  Waits(p, k)
<1>1. ~(pending[<<k, p>>] = 0)
  OBVIOUS
<1>. HIDE DEF Kinds
<1>. QED  BY <1>1 DEF Sync, Agrees, Handled, NonePending, Waits

LEMMA StartSync ==
    ASSUME Typed, \A d \in settled : Sync(d), NEW p \in settled',
           NEW t \in Handlers, NEW k \in Kinds, NEW q \in Pairs, StartEvent(t, k, q)
    PROVE  Sync(p)'
<1>. DEFINE a == [Blank EXCEPT !.kind = k, !.user = q[1], !.emoji = q[2]]
<1>0. /\ pc[t] = "idle" /\ pending[<<k, q>>] > 0 /\ ThreadTypes /\ DiscordTypes
      /\ pending' = [pending EXCEPT ![<<k, q>>] = @ - 1]
      /\ UNCHANGED <<enabled, rows, reacted, has>> /\ p \in settled
  BY DEF StartEvent, Typed
<1>1. <<a.user, a.emoji>> = q /\ a.kind = k
  BY EventMoves DEF Kinds
<1>2. Moves(t, "lookup", a) \/ UNCHANGED threads
  BY DEF StartEvent, Moves
<1>3. SameRow(p) /\ SameReacted(p) /\ SameHas(p)
  BY <1>0 DEF SameRow, SameReacted, SameHas
<1>4. CASE p # q
  <2>1. SamePending(p)
    BY <1>0, <1>4 DEF SamePending, DiscordTypes
  <2>2. SameOn(p)
    <3>. HIDE DEF a
    <3>. QED  BY <1>0, <1>1, <1>2, <1>4, OthersOn, SameThreads DEF EventLabels
  <2>. QED  BY <1>0, <1>3, <2>1, <2>2, SyncSame
<1>5. CASE p = q
  <2>0. Sync(p) /\ Waits(p, k) /\ enabled /\ Configured(p[2])
    BY <1>0, <1>5, PendingWaits DEF Sync, Ready
  <2>1. Moves(t, "lookup", a)
    BY <1>0, <1>5, <2>0 DEF StartEvent, Moves
  <2>. HIDE DEF a
  <2>2. \A j \in Kinds : <<j, p>> \in Events
    BY <1>5, PairIs DEF Kinds
  <2>3. NonePending(p)'
    <3>1. pending \in [Events -> Nat] /\ pending[<<k, p>>] = 1
      BY <1>0, <2>0 DEF DiscordTypes, Waits
    <3>2. pending'[<<k, p>>] = 0
      BY <1>0, <1>5, <2>2, <3>1
    <3>3. ASSUME NEW j \in Kinds \ {k} PROVE pending'[<<j, p>>] = 0
      BY <1>0, <1>5, <2>0, <2>2, <3>1, <3>3 DEF Waits
    <3>. QED  BY <3>2, <3>3 DEF NonePending
  <2>4. /\ pc'[t] = "lookup" /\ arg'[t] = a
        /\ \A s \in Handlers \ {t} : pc'[s] = pc[s] /\ arg'[s] = arg[s]
    BY <1>0, <2>1, MovesOthers
  <2>5. On(t, p)' /\ \A s \in Handlers \ {t} : ~On(s, p)'
    BY <1>1, <1>5, <2>0, <2>4 DEF On, Pair, Waits, NoneOn, EventLabels
  <2>6. p \in reacted' <=> arg'[t].kind = "add"
    BY <1>0, <1>1, <2>0, <2>4 DEF Waits
  <2>7. Handled(p, t)'
    BY <2>3, <2>4, <2>5, <2>6 DEF Handled
  <2>. QED  BY <1>0, <2>0, <2>7 DEF Sync, Ready, Configured
<1>. QED  BY <1>4, <1>5

\* Commands and the fix: no handler of a reaction begins, ends or goes on.
LEMMA InteractionSync ==
    ASSUME Typed, \A d \in settled : Sync(d), NEW p \in settled',
           NEW t \in Handlers, HandleInteraction(t)
    PROVE  Sync(p)'
<1>0. /\ ThreadTypes /\ DiscordTypes /\ RowTypes
      /\ arg[t] \in Locals /\ Fits(pc[t], arg[t])
  BY DEF Typed, ThreadTypes
<1>1. \E l \in AddRemove \cup FixLabels \cup {"idle"}, b \in Locals : Moves(t, l, b)
  <2>1. AddRemove \cup {"fixList", "idle"} \subseteq AddRemove \cup FixLabels \cup {"idle"}
    BY DEF FixLabels
  <2>. QED  BY <2>1, InteractionIs, AddRemoveMoves, FixMoves
<1>2. pc[t] \in AddRemove \cup FixLabels
  BY InteractionIs, AddRemoveMoves, FixMoves DEF FixLabels
<1>3. AddRemove \cap EventLabels = {} /\ FixLabels \cap EventLabels = {} /\ "idle" \notin EventLabels
  BY DEF AddRemove, FixLabels, EventLabels
<1>4. SameOn(p)
  BY <1>0, <1>1, <1>2, <1>3, OthersOn
<1>5. UNCHANGED <<enabled, has>>
  BY InteractionIs DEF AddRemoveSteps, FixSteps, CheckCommand, AddExists, AddCreate, AddReact,
     Undo, RemoveFind, RemoveRow, Unreact, FixList, FixMessage, FixMembers, FixUsers,
     FixRemove, FixBot, discord
<1>6. ASSUME p \in settled, UNCHANGED pending, SameRow(p), SameReacted(p)
      PROVE  Sync(p)'
  <2>1. SamePending(p) /\ SameHas(p) /\ (enabled => enabled')
    BY <1>5, <1>6 DEF SamePending, SameHas
  <2>. QED  BY <1>4, <1>6, <2>1, SyncSame
<1>7. ASSUME NEW q \in Pairs, MessageReactionRemove(q, t), UNCHANGED rows
      PROVE  Sync(p)'
  <2>1. \A s \in Handlers : On(s, p)' => On(s, p) /\ s # t
    BY <1>2, <1>3, <1>4 DEF SameOn, On
  <2>. QED  BY <1>4, <1>5, <1>7, <2>1, RemovalSync
<1>8. ASSUME UNCHANGED <<rows, reacted, pending, settled>>
      PROVE  Sync(p)'
  BY <1>6, <1>8 DEF SameRow, SameReacted
<1>9. ASSUME NEW d \in Emojis, MessageReactionAdd(d), UNCHANGED <<rows, pending, settled>>
      PROVE  Sync(p)'
  <2>1. p \in settled /\ p[1] # Bot
    BY <1>0, <1>9, Names DEF DiscordTypes
  <2>2. SameReacted(p)
    BY <1>9, <2>1 DEF MessageReactionAdd, SameReacted
  <2>. QED  BY <1>6, <1>9, <2>1, <2>2 DEF SameRow
<1>10. ASSUME NEW d \in Emojis, NEW row, SetRow(d, row), UNCHANGED <<reacted, pending>>
       PROVE  Sync(p)'
  <2>1. p \in settled /\ p \notin Users \X {d} /\ p \in Users \X Emojis
    BY <1>0, <1>10 DEF SetRow, DiscordTypes
  <2>2. p[2] # d
    BY <2>1
  <2>3. SameRow(p)
    BY <1>0, <1>10, <2>1, <2>2 DEF SetRow, SameRow, RowTypes
  <2>. QED  BY <1>6, <1>10, <2>1, <2>3 DEF SameReacted
<1>11. pc[t] \in AddRemove => arg[t].emoji \in Emojis
  BY <1>0 DEF Fits
<1>12. CASE AddRemoveSteps(t)
  <2>1. CASE CheckCommand(t) \/ AddExists(t) \/ RemoveFind(t)
    BY <1>8, <2>1 DEF CheckCommand, AddExists, RemoveFind, discord
  <2>2. CASE AddCreate(t)
    BY <1>8, <1>10, <1>11, <2>2 DEF AddCreate, discord, AddRemove
  <2>3. CASE AddReact(t)
    BY <1>8, <1>9, <1>11, <2>3 DEF AddReact, AddRemove
  <2>4. CASE Undo(t)
    BY <1>8, <1>10, <1>11, <2>4 DEF Undo, discord, AddRemove
  <2>5. CASE RemoveRow(t)
    BY <1>8, <1>10, <1>11, <2>5 DEF RemoveRow, discord, AddRemove
  <2>6. CASE Unreact(t)
    <3>1. <<Bot, arg[t].emoji>> \in Pairs /\ UNCHANGED rows
      BY <1>11, <2>6 DEF Unreact, AddRemove, Pairs, Reactors
    <3>. QED  BY <1>7, <1>8, <2>6, <3>1 DEF Unreact
  <2>. QED  BY <1>12, <2>1, <2>2, <2>3, <2>4, <2>5, <2>6 DEF AddRemoveSteps
<1>13. CASE FixSteps(t)
  <2>1. CASE FixList(t) \/ FixMessage(t) \/ FixMembers(t) \/ FixUsers(t)
    BY <1>8, <2>1 DEF FixList, FixMessage, FixMembers, FixUsers, discord
  <2>2. CASE FixRemove(t)
    <3>1. PICK u \in arg[t].todo : \/ MessageReactionRemove(<<u, arg[t].emoji>>, t)
                                   \/ UNCHANGED <<reacted, pending, settled, spoiled>>
      BY <2>2 DEF FixRemove
    <3>2. <<u, arg[t].emoji>> \in Pairs /\ UNCHANGED rows
      BY <1>0, <2>2 DEF FixRemove, Fits, Pairs, Locals
    <3>. QED  BY <1>7, <1>8, <3>1, <3>2
  <2>3. CASE FixBot(t)
    <3>1. PICK d \in Missing(arg[t]) : MessageReactionAdd(d) \/ UNCHANGED <<reacted, spoiled>>
      BY <2>3 DEF FixBot
    <3>. QED  BY <1>8, <1>9, <2>3, <3>1 DEF FixBot, Missing
  <2>. QED  BY <1>13, <2>1, <2>2, <2>3 DEF FixSteps
<1>. QED  BY <1>12, <1>13, InteractionIs

\* A handler of p that goes on to the label l.
LEMMA GoesOn ==
    ASSUME ThreadTypes, NEW p, Ready(p)', NEW t \in Handlers, Handled(p, t),
           NEW l \in EventLabels, NEW a, Moves(t, l, a), <<a.user, a.emoji>> = p,
           UNCHANGED pending,
           \/ l = "assign" /\ p \in reacted' /\ a.role = rows'[p[2]].role
           \/ l = "revert" /\ p \in reacted'
           \/ l = "revoke" /\ p \notin reacted' /\ a.role = rows'[p[2]].role
    PROVE  Sync(p)'
<1>1. /\ pc'[t] = l /\ arg'[t] = a
      /\ \A s \in Handlers \ {t} : pc'[s] = pc[s] /\ arg'[s] = arg[s]
  BY MovesOthers
<1>2. On(t, p)' /\ \A s \in Handlers \ {t} : ~On(s, p)'
  BY <1>1 DEF Handled, On, Pair
<1>3. NonePending(p)'
  BY DEF Handled, NonePending
<1>4. Handled(p, t)'
  BY <1>1, <1>2, <1>3 DEF Handled
<1>. QED  BY <1>4 DEF Sync

\* A handler of p that ends.
LEMMA Ends ==
    ASSUME ThreadTypes, NEW p, Ready(p)', NEW t \in Handlers, Handled(p, t),
           NEW a, Moves(t, "idle", a), UNCHANGED pending,
           p \in reacted' <=> <<p[1], rows'[p[2]].role>> \in has'
    PROVE  Sync(p)'
<1>1. /\ pc'[t] = "idle"
      /\ \A s \in Handlers \ {t} : pc'[s] = pc[s] /\ arg'[s] = arg[s]
  BY MovesOthers
<1>2. NoneOn(p)'
  BY <1>1 DEF Handled, On, Pair, NoneOn, EventLabels
<1>3. NonePending(p)'
  BY DEF Handled, NonePending
<1>. QED  BY <1>2, <1>3 DEF Sync, Agrees

LEMMA ReactionSync ==
    ASSUME Typed, \A d \in settled : Sync(d), NEW p \in settled',
           NEW t \in Handlers, HandleReaction(t)
    PROVE  Sync(p)'
<1>. DEFINE q == Pair(t)
<1>0. /\ ThreadTypes /\ DiscordTypes /\ RowTypes
      /\ arg[t] \in Locals /\ Fits(pc[t], arg[t])
  BY DEF Typed, ThreadTypes
<1>1. pc[t] \in EventLabels /\ q \in Pairs /\ q = <<arg[t].user, arg[t].emoji>>
      /\ UNCHANGED <<enabled, rows>>
  BY <1>0, ReactionMoves
     DEF Fits, Pair, HandleReaction, Lookup, Assign, Revert, Revoke
<1>2. On(t, q)
  BY <1>1 DEF On
<1>3. PICK l \in EventLabels \cup {"idle"}, b \in Locals :
          /\ Moves(t, l, b)
          /\ l # "idle" => <<b.user, b.emoji>> = q
  <2>1. CASE Goto(t, "idle")
    BY <2>1, GotoIdle, BlankFits
  <2>2. CASE Goto(t, "revert")
    BY <1>0, <2>2, GotoOn DEF EventLabels, Pair
  <2>3. CASE Lookup(t)
    BY <2>3, LookupMoves, BlankFits DEF EventLabels, Pair
  <2>. QED  BY <2>1, <2>2, <2>3 DEF HandleReaction, Assign, Revert, Revoke
<1>4. p # q => SameOn(p)
  BY <1>0, <1>1, <1>3, OthersOn DEF EventLabels
<1>5. SameRow(p) /\ (enabled => enabled')
  BY <1>1 DEF SameRow
<1>6. ASSUME p \in settled, p # q, UNCHANGED <<reacted, pending>>, SameHas(p)
      PROVE  Sync(p)'
  <2>1. SameReacted(p) /\ SamePending(p)
    BY <1>6 DEF SameReacted, SamePending
  <2>. QED  BY <1>4, <1>5, <1>6, <2>1, SyncSame
<1>7. ASSUME p = q, p \in settled
      PROVE  Handled(p, t) /\ Ready(p)'
  <2>1. Sync(p)
    BY <1>7
  <2>2. Ready(p)'
    BY <1>1, <2>1 DEF Sync, Ready, Configured
  <2>. QED  BY <1>2, <1>7, <2>1, <2>2, OnHandled
<1>8. ASSUME p \in settled, p # q, NEW S, p \notin Shaken(arg[t].user, arg[t].role, arg[t].emoji),
             S = {<<arg[t].user, arg[t].role>>}, has' = has \cup S \/ has' = has \ S
      PROVE  SameHas(p)
  <2>1. p = <<p[1], p[2]>> /\ p[2] \in Emojis
    BY <1>0, <1>8 DEF DiscordTypes
  <2>2. <<p[1], rows[p[2]].role>> # <<arg[t].user, arg[t].role>>
    <3>1. SUFFICES ASSUME p[1] = arg[t].user, rows[p[2]].role = arg[t].role
                   PROVE  FALSE
      OBVIOUS
    <3>2. p[2] # arg[t].emoji
      BY <1>1, <1>8, <2>1, <3>1
    <3>. QED  BY <1>8, <2>1, <3>1, <3>2 DEF Shaken
  <2>. QED  BY <1>8, <2>2 DEF SameHas
<1>9. CASE Lookup(t)
  <2>1. UNCHANGED <<reacted, has, pending>> /\ p \in settled
    BY <1>9 DEF Lookup, discord
  <2>2. CASE p # q
    BY <1>6, <2>1, <2>2 DEF SameHas
  <2>3. CASE p = q
    <3>0. Handled(p, t) /\ Ready(p)' /\ Configured(p[2]) /\ pc[t] = "lookup"
      BY <1>7, <1>9, <2>1, <2>3 DEF Lookup, Sync, Ready
    <3>1. p \in reacted <=> arg[t].kind = "add"
      BY <3>0 DEF Handled
    <3>2. arg[t].emoji = p[2]
      BY <1>1, <2>3
    <3>3. pc' = [pc EXCEPT ![t] = IF arg[t].kind = "add" THEN "assign" ELSE "revoke"]
      <4>1. Configured(arg[t].emoji) /\ p \notin settled \ {Pair(t)}
        BY <2>3, <3>0, <3>2
      <4>. QED  BY <1>9, <4>1 DEF Lookup
    <3>4. ~Moves(t, "idle", Blank)
      <4>1. pc'[t] \in {"assign", "revoke"}
        BY <1>0, <3>3 DEF ThreadTypes
      <4>. QED  BY <1>0, <4>1, MovesOthers
    <3>5. PICK a \in Locals :
              /\ a.user = arg[t].user /\ a.emoji = arg[t].emoji
              /\ a.role = rows[arg[t].emoji].role
              /\ \/ arg[t].kind = "add" /\ Moves(t, "assign", a)
                 \/ arg[t].kind = "remove" /\ Moves(t, "revoke", a)
      BY <1>9, <3>4, LookupMoves
    <3>6. <<a.user, a.emoji>> = p /\ a.role = rows'[p[2]].role
      BY <1>1, <2>3, <3>2, <3>5
    <3>7. "assign" \in EventLabels /\ "revoke" \in EventLabels
      BY DEF EventLabels
    <3>. QED  BY <1>0, <2>1, <3>0, <3>1, <3>5, <3>6, <3>7, GoesOn
  <2>. QED  BY <2>2, <2>3
<1>10. CASE Assign(t)
  <2>1. pc[t] = "assign" /\ UNCHANGED <<reacted, pending>> /\ p \in settled
    BY <1>10 DEF Assign, GiveRole
  <2>2. GiveRole(t) \/ UNCHANGED <<has, settled>>
    BY <1>10 DEF Assign
  <2>3. CASE p # q
    <3>1. CASE GiveRole(t)
      BY <1>6, <1>8, <2>1, <2>3, <3>1 DEF GiveRole
    <3>2. CASE UNCHANGED has
      BY <1>6, <2>1, <2>3, <3>2 DEF SameHas
    <3>. QED  BY <2>2, <3>1, <3>2
  <2>4. CASE p = q
    <3>0. Handled(p, t) /\ Ready(p)'
      BY <1>7, <2>1, <2>4
    <3>1. p \in reacted' /\ arg[t].role = rows'[p[2]].role /\ p[1] = arg[t].user
      BY <1>1, <2>1, <2>4, <3>0 DEF Handled
    <3>2. CASE Goto(t, "idle") /\ GiveRole(t)
      <4>1. <<p[1], rows'[p[2]].role>> \in has'
        BY <3>1, <3>2 DEF GiveRole
      <4>. QED  BY <1>0, <2>1, <3>0, <3>1, <3>2, <4>1, GotoIdle, Ends
    <3>3. CASE Goto(t, "revert")
      <4>1. Moves(t, "revert", arg[t]) /\ "revert" \in EventLabels
        BY <1>0, <3>3, GotoOn DEF EventLabels
      <4>. QED  BY <1>0, <1>1, <2>1, <2>4, <3>0, <3>1, <4>1, GoesOn
    <3>. QED  BY <1>10, <3>2, <3>3 DEF Assign
  <2>. QED  BY <2>3, <2>4
<1>11. CASE Revert(t)
  <2>1. Goto(t, "idle") /\ pc[t] = "revert" /\ UNCHANGED has
    BY <1>11 DEF Revert
  <2>2. /\ pc'[t] = "idle"
        /\ \A s \in Handlers \ {t} : pc'[s] = pc[s] /\ arg'[s] = arg[s]
    BY <1>0, <2>1, GotoIdle, MovesOthers
  <2>3. \A s \in Handlers : On(s, p)' => On(s, p) /\ s # t
    BY <2>2 DEF On, Pair, EventLabels
  <2>4. CASE MessageReactionRemove(q, t)
    <3>1. CASE p = q /\ q \notin reacted
      <4>1. UNCHANGED <<reacted, pending, settled>>
        BY <2>4, <3>1 DEF MessageReactionRemove
      <4>2. Handled(p, t)
        BY <1>7, <3>1, <4>1
      <4>. QED  BY <2>1, <3>1, <4>2 DEF Handled
    <3>2. CASE ~(p = q /\ q \notin reacted)
      <4>1. p # q \/ q \notin reacted => SameOn(p)
        BY <1>4, <3>2
      <4>. QED  BY <1>1, <2>1, <2>3, <2>4, <4>1, RemovalSync
    <3>. QED  BY <3>1, <3>2
  <2>5. CASE settled' = settled \ {q} /\ UNCHANGED <<reacted, pending, spoiled>>
    <3>1. SameHas(p)
      BY <2>1 DEF SameHas
    <3>. QED  BY <1>6, <2>5, <3>1
  <2>. QED  BY <1>11, <2>4, <2>5 DEF Revert
<1>12. CASE Revoke(t)
  <2>1. pc[t] = "revoke" /\ UNCHANGED <<reacted, pending>> /\ p \in settled /\ Goto(t, "idle")
    BY <1>12 DEF Revoke
  <2>2. CASE p # q
    <3>1. CASE UNCHANGED has
      BY <1>6, <2>1, <2>2, <3>1 DEF SameHas
    <3>2. CASE /\ has' = has \ {<<arg[t].user, arg[t].role>>}
               /\ settled' = settled \ Shaken(arg[t].user, arg[t].role, arg[t].emoji)
      BY <1>6, <1>8, <2>1, <2>2, <3>2
    <3>. QED  BY <1>12, <3>1, <3>2 DEF Revoke
  <2>3. CASE p = q
    <3>0. Handled(p, t) /\ Ready(p)'
      BY <1>7, <2>1, <2>3
    <3>1. p \notin reacted' /\ arg[t].role = rows'[p[2]].role /\ p[1] = arg[t].user
      BY <1>1, <2>1, <2>3, <3>0 DEF Handled
    <3>2. has' = has \ {<<arg[t].user, arg[t].role>>}
      BY <1>12, <2>3 DEF Revoke
    <3>3. <<p[1], rows'[p[2]].role>> \notin has'
      BY <3>1, <3>2
    <3>. QED  BY <1>0, <2>1, <3>0, <3>1, <3>3, GotoIdle, Ends
  <2>. QED  BY <2>2, <2>3
<1>. QED  BY <1>9, <1>10, <1>11, <1>12 DEF HandleReaction

LEMMA SwitchSync ==
    ASSUME Typed, \A d \in settled : Sync(d), NEW p \in settled',
           Enable \/ Disable \/ Wipe \/ Crash \/ UNCHANGED vars
    PROVE  Sync(p)'
<1>1. ASSUME p \in settled, UNCHANGED <<rows, discord, threads>>, enabled => enabled'
      PROVE  Sync(p)'
  <2>1. SameOn(p) /\ SamePending(p) /\ SameRow(p) /\ SameReacted(p) /\ SameHas(p)
    BY <1>1, SameThreads DEF discord, SamePending, SameRow, SameReacted, SameHas
  <2>. QED  BY <1>1, <2>1, SyncSame
<1>2. CASE Enable
  BY <1>1, <1>2 DEF Enable
<1>3. CASE Disable
  BY <1>3 DEF Disable
<1>4. CASE Wipe
  BY <1>1, <1>4 DEF Wipe
<1>5. CASE UNCHANGED vars
  BY <1>1, <1>5 DEF vars, history
<1>6. CASE Crash
  <2>0. DiscordTypes
    BY DEF Typed
  <2>1. /\ p \in settled /\ ~Busy(p) /\ p \in Pairs
        /\ UNCHANGED <<enabled, rows, reacted, has>>
        /\ pending' = [v \in Events |-> 0] /\ pc' = [s \in Handlers |-> "idle"]
    BY <1>6, <2>0 DEF Crash, DiscordTypes, Pairs, Reactors
  <2>2. Sync(p) /\ NonePending(p) /\ \A s \in Handlers \ {None} : ~On(s, p)
    BY <2>0, <2>1, BusyIs DEF Busy
  <2>3. NoneOn(p)
    BY <2>2, Names DEF NoneOn
  <2>4. Agrees(p)
    <3>1. \A k \in Kinds : ~Waits(p, k)
      BY <2>2 DEF NonePending, Waits
    <3>2. \A s \in Handlers : ~Handled(p, s)
      BY <2>3 DEF NoneOn, Handled
    <3>. QED  BY <2>2, <3>1, <3>2 DEF Sync
  <2>5. NonePending(p)' /\ NoneOn(p)'
    BY <2>1, PairIs DEF NonePending, NoneOn, On, EventLabels, Kinds
  <2>6. Agrees(p)' /\ Ready(p)'
    BY <2>1, <2>2, <2>4, <2>5 DEF Agrees, Sync, Ready, Configured
  <2>. QED  BY <2>6 DEF Sync
<1>. QED  BY <1>2, <1>3, <1>4, <1>5, <1>6

SyncAll == \A p \in settled : Sync(p)

LEMMA SyncKept == Typed /\ SyncAll /\ [Next]_vars => SyncAll'
<1>. SUFFICES ASSUME Typed, SyncAll, [Next]_vars, NEW p \in settled' PROVE Sync(p)'
  BY DEF SyncAll
<1>1. \A d \in settled : Sync(d)
  BY DEF SyncAll
<1>2. ASSUME NEW t \in Handlers, NEW l, NEW e \in Emojis, NEW r \in Roles, Command(t, l, e, r)
      PROVE  Sync(p)'
  <2>1. UNCHANGED <<enabled, rows, reacted, has, pending>> /\ p \in settled
    BY <1>2 DEF Command, discord
  <2>2. SamePending(p) /\ SameRow(p) /\ SameReacted(p) /\ SameHas(p)
    BY <2>1 DEF SamePending, SameRow, SameReacted, SameHas
  <2>3. SameOn(p)
    <3>1. pc[t] \notin EventLabels /\ l \notin EventLabels
      BY <1>2, CommandMoves DEF EventLabels
    <3>. QED  BY <1>2, <3>1, CommandMoves, OthersOn DEF Typed
  <2>. QED  BY <1>1, <2>1, <2>2, <2>3, SyncSame
<1>. QED  BY <1>1, <1>2, PeopleSync, StartSync, ReactionSync, InteractionSync, SwitchSync
          DEF Next, Kinds

\* InSync: a member whose last event of a configured emoji was handled alone has
\* the role if and only if the reaction is there.
THEOREM SyncCorrect == Spec => []InSync
<1>1. Init => SyncAll
  BY DEF Init, SyncAll
<1>2. TypeInv /\ SyncAll /\ [Next]_vars => SyncAll'
  BY SyncKept DEF TypeInv
<1>3. TypeInv /\ SyncAll => InSync
  <2>. SUFFICES ASSUME TypeInv, SyncAll, NEW u \in Users, NEW e \in Emojis,
                       <<u, e>> \in settled, ~Busy(<<u, e>>)
                PROVE  <<u, e>> \in reacted <=> <<u, rows[e].role>> \in has
    BY DEF InSync
  <2>. DEFINE p == <<u, e>>
  <2>1. p \in Pairs /\ Sync(p) /\ p[1] = u /\ p[2] = e
    BY DEF Pairs, Reactors, SyncAll
  <2>2. NonePending(p) /\ \A s \in Handlers \ {None} : ~On(s, p)
    BY <2>1, BusyIs DEF Busy, TypeInv, Typed
  <2>3. \A k \in Kinds : ~Waits(p, k)
    BY <2>2 DEF NonePending, Waits
  <2>4. \A s \in Handlers : ~Handled(p, s)
    BY <2>2, Names DEF Handled
  <2>5. Agrees(p)
    BY <2>1, <2>3, <2>4 DEF Sync
  <2>. QED  BY <2>1, <2>5 DEF Agrees
<1>. QED  BY <1>1, <1>2, <1>3, TypeInvProved, PTL DEF Spec

-----------------------------------------------------------------------------
(* The fix: what its locals say of the message, while the removals it has  *)
(* made so far are handled beside it.                                      *)

\* The removal of a reaction is under way: somebody else may take a role.
Leaving(p) ==
    \/ pending[<<"remove", p>>] > 0
    \/ \E s \in Handlers : pc[s] \in {"lookup", "revoke"} /\ Pair(s) = p

\* Besides t, nothing runs but what its own removals have started.
OnlyRemovals(t) ==
    /\ wiping = 0
    /\ \A p \in Pairs : pending[<<"add", p>>] = 0
    /\ \A s \in Handlers \ {t} :
          \/ pc[s] = "idle"
          \/ pc[s] = "lookup" /\ arg[s].kind = "remove"
          \/ pc[s] = "revoke" /\ arg[s].role = rows[arg[s].emoji].role

\* The reaction of u with e is yet to be looked at.
Left(a, u, e) == e \in a.on \/ (e = a.emoji /\ u \in a.todo)

\* The rows it has listed and the bot's reactions it knows of are those there are.
Snapshot(a) == a.valid = [e \in Emojis |-> rows[e].role]

Knows(a) == \A e \in Emojis : Configured(e) => (e \in a.me <=> <<Bot, e>> \in reacted)

\* Whoever keeps a reaction has its role, by the list h of members and roles, unless
\* the emoji is one whose page left somebody out; and whoever loses one, or is about
\* to, has not.
Sorted(a, h) ==
    /\ h \subseteq has
    /\ \A u \in Reactors, e \in Emojis :
          (<<u, e>> \in reacted /\ ~Left(a, u, e) /\ e \notin cut) =>
          Configured(e) /\ (u = Bot \/ <<u, rows[e].role>> \in h)
    /\ \A p \in Pairs : Leaving(p) => <<p[1], rows[p[2]].role>> \notin h
    /\ \A u \in a.todo : /\ <<u, rows[a.emoji].role>> \notin h
                         /\ u = Bot => ~Configured(a.emoji)

\* Before its first removal a fix is alone; after the members it walks the pages.
Alone == {"fixEnabled", "fixList", "fixMessage", "fixMembers"}
Walks == {"fixUsers", "fixRemove", "fixBot"}

\* A fix that nobody has disturbed, before each of its calls.  The members are
\* dropped before the bot's own reactions are made, hence the quantifier.
CalmFix(t) ==
    /\ OnlyRemovals(t)
    /\ pc[t] \in Alone => \A p \in Pairs : ~Leaving(p)
    /\ pc[t] \in Walks \cup {"fixMessage", "fixMembers"} => Snapshot(arg[t])
    /\ pc[t] = "fixMembers" => /\ arg[t].on = {p[2] : p \in reacted}
                               /\ arg[t].me = {e \in Emojis : <<Bot, e>> \in reacted}
    /\ pc[t] = "fixBot" => arg[t].on = {}
    /\ pc[t] \in Walks => /\ Knows(arg[t])
                          /\ \E h : /\ Sorted(arg[t], h)
                                    /\ pc[t] # "fixBot" => h = arg[t].had

\* The fix is the one that calm names, as long as it runs.
CalmInv == \A t \in Handlers : (calm = t /\ pc[t] \in FixLabels) => CalmFix(t)

LEMMA FixParts == FixLabels = Alone \cup Walks /\ Alone \cap Walks = {}
                  /\ "idle" \notin FixLabels /\ FixLabels \cap EventLabels = {}
                  /\ FixLabels \cap AddRemove = {}
BY DEF FixLabels, Alone, Walks, EventLabels, AddRemove

-----------------------------------------------------------------------------
(* What the others do meanwhile.                                           *)

LEMMA SortedKept ==
    ASSUME NEW a, NEW h, Sorted(a, h), h \subseteq has', UNCHANGED <<rows, reacted, cut>>,
           \A p \in Pairs : Leaving(p)' => Leaving(p)
    PROVE  Sorted(a, h)'
<1>1. \A u, e : Left(a, u, e)' <=> Left(a, u, e)
  BY DEF Left
<1>2. \A e : Configured(e)' <=> Configured(e)
  BY DEF Configured
<1>. QED  BY <1>1, <1>2, Zenon DEF Sorted

LEMMA OthersKeep ==
    ASSUME NEW t \in Handlers, CalmFix(t), OnlyRemovals(t)',
           UNCHANGED <<rows, reacted, cut>>, pc'[t] = pc[t], arg'[t] = arg[t],
           \A p \in Pairs : Leaving(p)' => Leaving(p),
           \A h \in SUBSET has :
               (\A p \in Pairs : Leaving(p) => <<p[1], rows[p[2]].role>> \notin h) => h \subseteq has'
    PROVE  CalmFix(t)'
<1>1. pc'[t] \in Alone => \A p \in Pairs : ~Leaving(p)'
  BY DEF CalmFix
<1>2. pc'[t] \in Walks \cup {"fixMessage", "fixMembers"} => Snapshot(arg[t])'
  BY DEF CalmFix, Snapshot
<1>3. pc'[t] = "fixMembers" => /\ arg'[t].on = {p[2] : p \in reacted'}
                               /\ arg'[t].me = {e \in Emojis : <<Bot, e>> \in reacted'}
  BY DEF CalmFix
<1>4. ASSUME pc[t] \in Walks
      PROVE  /\ Knows(arg[t])'
             /\ (\E h : /\ Sorted(arg[t], h)
                        /\ pc[t] # "fixBot" => h = arg[t].had)'
  <2>1. PICK h : Sorted(arg[t], h) /\ (pc[t] # "fixBot" => h = arg[t].had)
    BY <1>4 DEF CalmFix
  <2>2. PICK a : a = arg[t]
    OBVIOUS
  <2>3. h \subseteq has'
    BY <2>1 DEF Sorted
  <2>4. Sorted(a, h)'
    BY <2>1, <2>2, <2>3, SortedKept
  <2>5. Sorted(arg[t], h)'
    <3>1. a = arg'[t]
      BY <2>2
    <3>. QED  BY <2>4, <3>1 DEF Sorted, Left
  <2>6. Knows(arg[t])'
    BY <1>4 DEF CalmFix, Knows, Configured
  <2>. QED  BY <2>1, <2>5, <2>6
<1>. QED  BY <1>1, <1>2, <1>3, <1>4 DEF CalmFix

\* An event that is handled, or dropped, is of a removal.
LEMMA StartCalm ==
    ASSUME Typed, NEW t \in Handlers, CalmFix(t), pc[t] \in FixLabels,
           NEW s \in Handlers, NEW k \in Kinds, NEW p \in Pairs, StartEvent(s, k, p)
    PROVE  CalmFix(t)'
<1>1. /\ pc[s] = "idle" /\ s # t /\ pending[<<k, p>>] > 0
      /\ UNCHANGED <<rows, reacted, has, wiping, cut>>
      /\ pending' = [pending EXCEPT ![<<k, p>>] = @ - 1]
  BY FixParts DEF StartEvent, NoFault, Fault
<1>2. k = "remove" /\ OnlyRemovals(t)
  BY <1>1 DEF CalmFix, OnlyRemovals, Kinds
<1>3. <<k, p>> \in Events /\ pending \in [Events -> Nat]
  BY PairIs DEF Kinds, Typed, DiscordTypes
<1>4. \A q \in Pairs : /\ <<"add", q>> \in Events /\ <<"remove", q>> \in Events
                       /\ pending'[<<"add", q>>] = pending[<<"add", q>>]
                       /\ pending'[<<"remove", q>>] > 0 => pending[<<"remove", q>>] > 0
  BY <1>1, <1>2, <1>3, PairIs
<1>5. CASE UNCHANGED threads
  <2>1. UNCHANGED <<pc, arg>>
    BY <1>5 DEF threads
  <2>2. OnlyRemovals(t)'
    BY <1>1, <1>2, <1>4, <2>1 DEF OnlyRemovals
  <2>3. \A q \in Pairs : Leaving(q)' => Leaving(q)
    BY <1>4, <2>1 DEF Leaving, Pair
  <2>. QED  BY <1>1, <2>1, <2>2, <2>3, OthersKeep
<1>6. CASE ~UNCHANGED threads
  <2>. DEFINE a == [Blank EXCEPT !.kind = k, !.user = p[1], !.emoji = p[2]]
  <2>1. Moves(s, "lookup", a)
    BY <1>6 DEF StartEvent, Moves
  <2>2. <<a.user, a.emoji>> = p /\ a.kind = k
    BY EventMoves DEF Kinds
  <2>. HIDE DEF a
  <2>3. /\ pc'[s] = "lookup" /\ arg'[s] = a
        /\ \A r \in Handlers \ {s} : pc'[r] = pc[r] /\ arg'[r] = arg[r]
    BY <2>1, MovesOthers DEF Typed
  <2>4. OnlyRemovals(t)'
    BY <1>1, <1>2, <1>4, <2>2, <2>3 DEF OnlyRemovals
  <2>5. \A q \in Pairs : Leaving(q)' => Leaving(q)
    <3>. SUFFICES ASSUME NEW q \in Pairs, Leaving(q)' PROVE Leaving(q)
      OBVIOUS
    <3>1. CASE pending'[<<"remove", q>>] > 0
      BY <1>4, <3>1 DEF Leaving
    <3>2. ASSUME NEW r \in Handlers, pc'[r] \in {"lookup", "revoke"}, Pair(r)' = q
          PROVE  Leaving(q)
      <4>1. CASE r = s
        BY <1>1, <1>2, <2>2, <2>3, <3>2, <4>1 DEF Leaving, Pair
      <4>2. CASE r # s
        BY <2>3, <3>2, <4>2 DEF Leaving, Pair
      <4>. QED  BY <4>1, <4>2
    <3>. QED  BY <3>1, <3>2 DEF Leaving
  <2>6. pc'[t] = pc[t] /\ arg'[t] = arg[t]
    BY <1>1, <2>3
  <2>. QED  BY <1>1, <2>4, <2>5, <2>6, OthersKeep
<1>. QED  BY <1>5, <1>6

\* The handler of a removal takes the role of somebody who had not got it.
LEMMA ReactionCalm ==
    ASSUME Typed, NEW t \in Handlers, CalmFix(t), pc[t] \in FixLabels,
           NEW s \in Handlers, HandleReaction(s)
    PROVE  CalmFix(t)'
<1>0. pc[s] \in EventLabels /\ s # t /\ OnlyRemovals(t) /\ ThreadTypes
  BY ReactionMoves, FixParts DEF CalmFix, Typed
<1>1. \/ pc[s] = "lookup" /\ arg[s].kind = "remove"
      \/ pc[s] = "revoke" /\ arg[s].role = rows[arg[s].emoji].role
  BY <1>0 DEF OnlyRemovals, EventLabels
<1>2. Lookup(s) \/ Revoke(s)
  BY <1>1 DEF HandleReaction, Assign, Revert
<1>3. Pair(s) \in Pairs /\ Leaving(Pair(s))
  BY <1>0, <1>1 DEF ThreadTypes, Fits, Pair, Leaving
<1>4. UNCHANGED <<rows, reacted, pending, wiping, cut>>
  BY <1>2 DEF Lookup, Revoke, discord, NoFault, Fault
<1>5. ASSUME NEW l, NEW a, Moves(s, l, a),
             \/ l = "idle"
             \/ l = "revoke" /\ a.role = rows[a.emoji].role /\ <<a.user, a.emoji>> = Pair(s)
      PROVE  /\ OnlyRemovals(t)' /\ \A q \in Pairs : Leaving(q)' => Leaving(q)
             /\ pc'[t] = pc[t] /\ arg'[t] = arg[t]
  <2>1. /\ pc'[s] = l /\ arg'[s] = a
        /\ \A r \in Handlers \ {s} : pc'[r] = pc[r] /\ arg'[r] = arg[r]
    BY <1>0, <1>5, MovesOthers
  <2>2. OnlyRemovals(t)'
    BY <1>0, <1>4, <1>5, <2>1 DEF OnlyRemovals
  <2>3. ASSUME NEW q \in Pairs, Leaving(q)' PROVE Leaving(q)
    <3>1. CASE pending'[<<"remove", q>>] > 0
      BY <1>4, <3>1 DEF Leaving
    <3>2. ASSUME NEW r \in Handlers, pc'[r] \in {"lookup", "revoke"}, Pair(r)' = q
          PROVE  Leaving(q)
      <4>1. CASE r = s
        BY <1>3, <1>5, <2>1, <3>2, <4>1 DEF Pair
      <4>2. CASE r # s
        BY <2>1, <3>2, <4>2 DEF Leaving, Pair
      <4>. QED  BY <4>1, <4>2
    <3>. QED  BY <2>3, <3>1, <3>2 DEF Leaving
  <2>. QED  BY <1>0, <2>1, <2>2, <2>3
<1>6. CASE Lookup(s)
  <2>1. UNCHANGED has
    BY <1>6 DEF Lookup, discord
  <2>2. arg[s].kind = "remove"
    BY <1>1, <1>6 DEF Lookup
  <2>3. CASE Moves(s, "idle", Blank)
    BY <1>4, <1>5, <2>1, <2>3, OthersKeep
  <2>4. ASSUME NEW a \in Locals, a.user = arg[s].user, a.emoji = arg[s].emoji,
               a.role = rows[arg[s].emoji].role, Moves(s, "revoke", a)
        PROVE  CalmFix(t)'
    <3>1. a.role = rows[a.emoji].role /\ <<a.user, a.emoji>> = Pair(s)
      BY <2>4 DEF Pair
    <3>2. /\ OnlyRemovals(t)' /\ \A q \in Pairs : Leaving(q)' => Leaving(q)
          /\ pc'[t] = pc[t] /\ arg'[t] = arg[t]
      BY <1>5, <2>4, <3>1
    <3>. QED  BY <1>4, <2>1, <3>2, OthersKeep
  <2>. QED  BY <1>6, <2>2, <2>3, <2>4, LookupMoves
<1>7. CASE Revoke(s)
  <2>1. Moves(s, "idle", Blank)
    BY <1>7, GotoIdle DEF Revoke
  <2>2. /\ OnlyRemovals(t)' /\ \A q \in Pairs : Leaving(q)' => Leaving(q)
        /\ pc'[t] = pc[t] /\ arg'[t] = arg[t]
    BY <1>5, <2>1
  <2>3. has' = has \/ has' = has \ {<<arg[s].user, arg[s].role>>}
    BY <1>7 DEF Revoke
  <2>4. arg[s].role = rows[arg[s].emoji].role
    BY <1>1, <1>7 DEF Revoke
  <2>5. ASSUME NEW h \in SUBSET has, \A p \in Pairs : Leaving(p) => <<p[1], rows[p[2]].role>> \notin h
        PROVE  h \subseteq has'
    <3>1. <<arg[s].user, arg[s].role>> \notin h
      BY <1>3, <2>4, <2>5 DEF Pair
    <3>. QED  BY <2>3, <3>1
  <2>. QED  BY <1>4, <2>2, <2>5, OthersKeep
<1>. QED  BY <1>2, <1>6, <1>7

-----------------------------------------------------------------------------
(* What the fix itself does.                                               *)

\* Only the fix moves: what is under way stays, and nothing is started but by
\* the removal of a reaction.
LEMMA OwnMoves ==
    ASSUME Typed, NEW t \in Handlers, CalmFix(t), pc[t] \in FixLabels,
           NEW l \in FixLabels \cup {"idle"}, NEW b, Moves(t, l, b),
           UNCHANGED <<rows, wiping>>,
           \A q \in Pairs : pending'[<<"add", q>>] = pending[<<"add", q>>]
    PROVE  /\ pc'[t] = l /\ arg'[t] = b
           /\ OnlyRemovals(t)'
           /\ \A q \in Pairs : Leaving(q)' =>
                 Leaving(q) \/ pending'[<<"remove", q>>] # pending[<<"remove", q>>]
<1>1. /\ pc'[t] = l /\ arg'[t] = b
      /\ \A s \in Handlers \ {t} : pc'[s] = pc[s] /\ arg'[s] = arg[s]
  BY MovesOthers DEF Typed
<1>2. OnlyRemovals(t)'
  BY <1>1 DEF OnlyRemovals, CalmFix
<1>3. ASSUME NEW q \in Pairs, Leaving(q)',
             pending'[<<"remove", q>>] = pending[<<"remove", q>>]
      PROVE  Leaving(q)
  <2>1. l \notin {"lookup", "revoke"}
    BY FixParts DEF EventLabels
  <2>. QED  BY <1>1, <1>3, <2>1 DEF Leaving, Pair
<1>. QED  BY <1>1, <1>2, <1>3

\* What the locals b and the list h say once a page has been gone through, or an
\* emoji reacted with.
Good(b, h) ==
    /\ Snapshot(b) /\ Knows(b) /\ Sorted(b, h)
    /\ b.on # {} \/ b.todo # {} => h = b.had

LEMMA FixGoesOn ==
    ASSUME Typed, NEW t \in Handlers, CalmFix(t), pc[t] \in FixLabels,
           NEW b \in Locals, b.todo # {} => b.emoji \in Emojis, FixNext(t, b),
           OnlyRemovals(t)', NEW h, Good(b, h)'
    PROVE  pc'[t] \in FixLabels => CalmFix(t)'
<1>1. /\ pc \in [Handlers -> Labels] /\ arg \in [Handlers -> Locals]
      /\ Snapshot(b)' /\ Knows(b)' /\ Sorted(b, h)'
  BY DEF Typed, ThreadTypes, Good
<1>2. ASSUME NEW l \in Walks, NEW d \in Locals, Moves(t, l, d),
             d.valid = b.valid, d.me = b.me, d.on = b.on, d.todo = b.todo,
             b.todo # {} => d.emoji = b.emoji,
             IF l = "fixBot" THEN b.on = {} ELSE d.had = h
      PROVE  CalmFix(t)'
  <2>1. pc'[t] = l /\ arg'[t] = d
    BY <1>1, <1>2 DEF Moves
  <2>2. pc'[t] \notin Alone /\ pc'[t] # "fixMembers"
    BY <1>2, <2>1 DEF Alone, Walks
  <2>3. Snapshot(d)' /\ Knows(d)'
    BY <1>1, <1>2 DEF Snapshot, Knows
  <2>4. \A u, e : Left(d, u, e)' <=> Left(b, u, e)'
    BY <1>2 DEF Left
  <2>5. Sorted(d, h)'
    BY <1>1, <1>2, <2>4 DEF Sorted
  <2>6. Snapshot(arg[t])' /\ Knows(arg[t])' /\ Sorted(arg[t], h)'
    BY <2>1, <2>3, <2>5 DEF Snapshot, Knows, Sorted, Left
  <2>. QED  BY <1>2, <2>1, <2>2, <2>6 DEF CalmFix
<1>3. CASE b.todo # {}
  <2>1. Moves(t, "fixRemove", b)
    BY <1>3 DEF FixNext, Moves
  <2>2. b.had = h
    BY <1>3 DEF Good
  <2>. QED  BY <1>2, <2>1, <2>2 DEF Walks
<1>4. CASE b.todo = {} /\ b.on # {}
  <2>. DEFINE d == [b EXCEPT !.emoji = None]
  <2>1. Moves(t, "fixUsers", d)
    BY <1>4 DEF FixNext, Moves
  <2>2. /\ d \in Locals /\ d.valid = b.valid /\ d.me = b.me /\ d.on = b.on
        /\ d.todo = b.todo /\ d.had = b.had
    BY DEF Locals
  <2>3. d.had = h
    BY <1>4, <2>2 DEF Good
  <2>. HIDE DEF d
  <2>. QED  BY <1>2, <1>4, <2>1, <2>2, <2>3 DEF Walks
<1>5. CASE b.todo = {} /\ b.on = {} /\ Missing(b) # {}
  <2>. DEFINE d == [b EXCEPT !.emoji = None, !.had = {}]
  <2>1. Moves(t, "fixBot", d)
    BY <1>5 DEF FixNext, Moves
  <2>2. /\ d \in Locals /\ d.valid = b.valid /\ d.me = b.me /\ d.on = b.on
        /\ d.todo = b.todo
    BY DEF Locals
  <2>. HIDE DEF d
  <2>. QED  BY <1>2, <1>5, <2>1, <2>2 DEF Walks
<1>6. CASE b.todo = {} /\ b.on = {} /\ Missing(b) = {}
  <2>1. Moves(t, "idle", Blank)
    BY <1>6 DEF FixNext, Moves
  <2>. QED  BY <1>1, <2>1, FixParts DEF Moves
<1>. QED  BY <1>3, <1>4, <1>5, <1>6

\* Nothing is left to do: the message is tidy, but for the pages cut short.
LEMMA LastCall ==
    ASSUME Typed, Typed', NEW t \in Handlers, NEW b \in Locals, FixNext(t, b), NEW h, Good(b, h)',
           pc'[t] = "idle"
    PROVE  TidyBut(cut)'
<1>1. b.todo = {} /\ b.on = {} /\ Missing(b) = {}
  BY DEF FixNext, Typed, ThreadTypes
<1>2. /\ Snapshot(b)' /\ Knows(b)' /\ Sorted(b, h)'
      /\ rows' \in [Emojis -> Row \cup {NoRow}]
  BY DEF Good, Typed, RowTypes
<1>3. \A u, e : ~Left(b, u, e)'
  BY <1>1 DEF Left
<1>4. ASSUME NEW e \in Emojis, Configured(e)' PROVE <<Bot, e>> \in reacted'
  <2>1. b.valid[e] # None
    BY <1>2, <1>4, Names DEF Snapshot, Configured, Row, NoRow
  <2>. QED  BY <1>1, <1>2, <1>4, <2>1 DEF Missing, Knows
<1>5. ASSUME NEW u \in Reactors, NEW e \in Emojis \ cut', <<u, e>> \in reacted'
      PROVE  Configured(e)' /\ (u = Bot \/ <<u, rows'[e].role>> \in has')
  BY <1>2, <1>3, <1>5 DEF Sorted
<1>. QED  BY <1>4, <1>5 DEF TidyBut, Configured

FixPages(t) == FixMembers(t) \/ FixUsers(t) \/ FixRemove(t) \/ FixBot(t)

\* What FixNext makes of the locals, whichever it is.
LEMMA FixNextOwn ==
    ASSUME Typed, NEW t \in Handlers, CalmFix(t), pc[t] \in FixLabels, UNCHANGED <<rows, wiping>>,
           NEW b \in Locals, b.todo # {} => b.emoji \in Emojis, FixNext(t, b),
           \A q \in Pairs : pending'[<<"add", q>>] = pending[<<"add", q>>]
    PROVE  /\ OnlyRemovals(t)'
           /\ \A q \in Pairs : Leaving(q)' =>
                 Leaving(q) \/ pending'[<<"remove", q>>] # pending[<<"remove", q>>]
<1>1. PICK l \in {"fixRemove", "fixUsers", "fixBot", "idle"}, d \in Locals : Moves(t, l, d)
  BY FixNextMoves
<1>2. l \in FixLabels \cup {"idle"}
  BY DEF FixLabels
<1>. QED  BY <1>1, <1>2, OwnMoves

LEMMA MembersGood ==
    ASSUME Typed, NEW t \in Handlers, CalmFix(t), FixMembers(t), ~Fault
    PROVE  \E b \in Locals : \E h :
              /\ b.todo # {} => b.emoji \in Emojis
              /\ FixNext(t, b) /\ OnlyRemovals(t)' /\ Good(b, h)'
<1>1. pc[t] = "fixMembers" /\ UNCHANGED <<rows, reacted, has, pending, wiping>>
  BY DEF FixMembers, discord
<1>2. PICK page \in SUBSET Users : FixNext(t, [arg[t] EXCEPT !.had = {p \in has : p[1] \in page}])
  BY <1>1 DEF FixMembers
<1>. DEFINE h == {p \in has : p[1] \in page}
            b == [arg[t] EXCEPT !.had = h]
<1>3. /\ arg[t] \in Locals /\ arg[t].todo = {} /\ has \subseteq Reactors \X Roles
      /\ reacted \subseteq Pairs
  BY <1>1 DEF Typed, ThreadTypes, Fits, DiscordTypes
<1>4. h \subseteq Reactors \X Roles /\ h \subseteq has
  BY <1>3
<1>5. /\ b \in Locals /\ b.todo = {} /\ b.had = h
      /\ b.valid = arg[t].valid /\ b.on = arg[t].on /\ b.me = arg[t].me
  <2>. HIDE DEF h
  <2>. QED  BY <1>3, <1>4 DEF Locals
<1>6. /\ Snapshot(arg[t]) /\ arg[t].on = {p[2] : p \in reacted}
      /\ arg[t].me = {e \in Emojis : <<Bot, e>> \in reacted}
      /\ \A p \in Pairs : ~Leaving(p)
  BY <1>1 DEF CalmFix, Alone
<1>. HIDE DEF b, h
<1>7. FixNext(t, b) /\ pc[t] \in FixLabels
  BY <1>1, <1>2 DEF b, h, FixLabels
<1>8. OnlyRemovals(t)' /\ \A q \in Pairs : Leaving(q)' => Leaving(q)
  BY <1>1, <1>5, <1>7, FixNextOwn
<1>9. PICK c : c = b
  OBVIOUS
<1>10. PICK g : g = h
  OBVIOUS
<1>11. Snapshot(c)' /\ Knows(c)'
  BY <1>1, <1>5, <1>6, <1>9 DEF Snapshot, Knows, Configured
<1>12. Sorted(c, g)'
  <2>1. \A u \in Reactors, e \in Emojis : <<u, e>> \in reacted => e \in c.on
    BY <1>5, <1>6, <1>9
  <2>2. g \subseteq has'
    BY <1>1, <1>4, <1>10
  <2>3. \A p \in Pairs : ~Leaving(p)'
    BY <1>6, <1>8
  <2>4. c.todo = {} /\ reacted' = reacted
    BY <1>1, <1>5, <1>9
  <2>. QED  BY <2>1, <2>2, <2>3, <2>4 DEF Sorted, Left
<1>13. Good(c, g)'
  BY <1>5, <1>9, <1>10, <1>11, <1>12 DEF Good
<1>. QED  BY <1>5, <1>7, <1>8, <1>9, <1>13

LEMMA UsersGood ==
    ASSUME Typed, NEW t \in Handlers, CalmFix(t), FixUsers(t), ~Fault
    PROVE  \E b \in Locals : \E h :
              /\ b.todo # {} => b.emoji \in Emojis
              /\ FixNext(t, b) /\ OnlyRemovals(t)' /\ Good(b, h)'
<1>1. pc[t] = "fixUsers" /\ UNCHANGED <<rows, reacted, has, pending, wiping>>
  BY DEF FixUsers, discord
<1>2. PICK e \in arg[t].on : \E page \in Pages(e) :
          LET a == [arg[t] EXCEPT !.on = @ \ {e}]
          IN  /\ FixNext(t, [a EXCEPT !.emoji = e, !.todo = page \cap OfDue(a, e)])
              /\ cut' = IF page = UsersOf(e) THEN cut ELSE cut \cup {e}
  BY DEF FixUsers
<1>. DEFINE a == [arg[t] EXCEPT !.on = @ \ {e}]
<1>2a. PICK page \in Pages(e) :
          /\ FixNext(t, [a EXCEPT !.emoji = e, !.todo = page \cap OfDue(a, e)])
          /\ cut' = IF page = UsersOf(e) THEN cut ELSE cut \cup {e}
  BY <1>2
<1>. DEFINE d == page \cap OfDue(a, e)
            b == [a EXCEPT !.emoji = e, !.todo = d]
<1>3. arg[t] \in Locals /\ arg[t].todo = {} /\ reacted \subseteq Pairs
      /\ rows \in [Emojis -> Row \cup {NoRow}]
  BY <1>1 DEF Typed, ThreadTypes, Fits, DiscordTypes, RowTypes
<1>4. /\ a \in Locals /\ a.on = arg[t].on \ {e} /\ a.valid = arg[t].valid
      /\ a.had = arg[t].had /\ a.me = arg[t].me /\ e \in Emojis
  BY <1>3 DEF Locals
<1>5. d \subseteq Reactors /\ d \subseteq OfDue(a, e)
  BY DEF OfDue
<1>. HIDE DEF a
<1>6. /\ b \in Locals /\ b.todo = d /\ b.emoji = e
      /\ b.valid = arg[t].valid /\ b.on = arg[t].on \ {e} /\ b.me = arg[t].me
      /\ b.had = arg[t].had
  <2>. HIDE DEF d
  <2>. QED  BY <1>4, <1>5 DEF Locals
<1>7. FixNext(t, b) /\ pc[t] \in FixLabels
  BY <1>1, <1>2a DEF a, FixLabels
<1>. HIDE DEF b
<1>8. OnlyRemovals(t)' /\ \A q \in Pairs : Leaving(q)' => Leaving(q)
  BY <1>1, <1>4, <1>6, <1>7, FixNextOwn
<1>9. /\ Snapshot(arg[t]) /\ Knows(arg[t]) /\ Sorted(arg[t], arg[t].had)
  BY <1>1 DEF CalmFix, Walks
<1>10. \A u \in Reactors : u \in OfDue(a, e) <=>
          /\ <<u, e>> \in reacted
          /\ ~Configured(e) \/ (u # Bot /\ <<u, rows[e].role>> \notin arg[t].had)
  <2>1. a.valid[e] = rows[e].role /\ (a.valid[e] = None <=> ~Configured(e))
    BY <1>3, <1>4, <1>9, Names DEF Snapshot, Configured, Row, NoRow
  <2>. QED  BY <1>4, <2>1 DEF OfDue
<1>10a. /\ cut \subseteq cut'
        /\ e \notin cut' => \A u \in Reactors : u \in d <=> u \in OfDue(a, e)
  <2>1. cut \subseteq cut' /\ (e \notin cut' => page = UsersOf(e))
    BY <1>2a
  <2>2. \A u \in Reactors : u \in OfDue(a, e) => u \in UsersOf(e)
    BY DEF OfDue, UsersOf
  <2>. QED  BY <2>1, <2>2
<1>. HIDE DEF d
<1>11. PICK c : c = b
  OBVIOUS
<1>12. PICK g : g = arg[t].had
  OBVIOUS
<1>13. Snapshot(c)' /\ Knows(c)'
  BY <1>1, <1>6, <1>9, <1>11 DEF Snapshot, Knows, Configured
<1>14. Sorted(c, g)'
  <2>1. g \subseteq has'
    BY <1>1, <1>9, <1>12 DEF Sorted
  <2>2. ASSUME NEW u \in Reactors, NEW f \in Emojis, <<u, f>> \in reacted', ~Left(c, u, f)',
               f \notin cut'
        PROVE  Configured(f)' /\ (u = Bot \/ <<u, rows'[f].role>> \in g)
    <3>1. f \notin c.on /\ ~(f = c.emoji /\ u \in c.todo) /\ <<u, f>> \in reacted
      BY <1>1, <2>2 DEF Left
    <3>2. CASE f = e
      <4>1. u \notin OfDue(a, e)
        BY <1>6, <1>10a, <1>11, <2>2, <3>1, <3>2
      <4>. QED  BY <1>1, <1>10, <1>12, <3>1, <3>2, <4>1 DEF Configured
    <3>3. CASE f # e
      <4>1. ~Left(arg[t], u, f) /\ f \notin cut
        BY <1>3, <1>6, <1>10a, <1>11, <2>2, <3>1, <3>3 DEF Left
      <4>. QED  BY <1>1, <1>9, <1>12, <3>1, <4>1 DEF Sorted, Configured
    <3>. QED  BY <3>2, <3>3
  <2>3. \A p \in Pairs : Leaving(p)' => <<p[1], rows'[p[2]].role>> \notin g
    BY <1>1, <1>8, <1>9, <1>12 DEF Sorted
  <2>4. \A u \in c.todo : /\ <<u, rows'[c.emoji].role>> \notin g
                          /\ u = Bot => ~Configured(c.emoji)'
    <3>. SUFFICES ASSUME NEW u \in d
                  PROVE  <<u, rows[e].role>> \notin g /\ (u = Bot => ~Configured(e))
      BY <1>1, <1>6, <1>11 DEF Configured
    <3>1. u \in Reactors /\ (u = Bot => ~Configured(e))
      BY <1>5, <1>10
    <3>2. CASE Configured(e)
      BY <1>5, <1>10, <1>12, <3>1, <3>2
    <3>3. CASE ~Configured(e)
      <4>1. rows[e].role \notin Roles
        BY <3>3, Names DEF Configured, NoRow
      <4>2. g \subseteq Reactors \X Roles
        BY <1>3, <1>12 DEF Locals
      <4>. QED  BY <3>1, <4>1, <4>2
    <3>. QED  BY <3>1, <3>2, <3>3
  <2>. QED  BY <2>1, <2>2, <2>3, <2>4 DEF Sorted
<1>15. Good(c, g)'
  BY <1>6, <1>11, <1>12, <1>13, <1>14 DEF Good
<1>. QED  BY <1>4, <1>6, <1>7, <1>8, <1>11, <1>15

\* A removal is of somebody who had not got the role, and starts nothing else.
LEMMA RemoveGood ==
    ASSUME Typed, NEW t \in Handlers, CalmFix(t), FixRemove(t), ~Fault
    PROVE  \E b \in Locals : \E h :
              /\ b.todo # {} => b.emoji \in Emojis
              /\ FixNext(t, b) /\ OnlyRemovals(t)' /\ Good(b, h)'
<1>1. pc[t] = "fixRemove" /\ UNCHANGED <<rows, has, wiping, cut>>
  BY DEF FixRemove, NoFault
<1>2. PICK u \in arg[t].todo : /\ MessageReactionRemove(<<u, arg[t].emoji>>, t)
                               /\ FixNext(t, [arg[t] EXCEPT !.todo = @ \ {u}])
  BY DEF FixRemove
<1>. DEFINE b == [arg[t] EXCEPT !.todo = @ \ {u}]
<1>3. PICK e : e = arg[t].emoji
  OBVIOUS
<1>4. arg[t] \in Locals /\ e \in Emojis /\ u \in Reactors
  BY <1>1, <1>3 DEF Typed, ThreadTypes, Fits, Locals
<1>5. /\ b \in Locals /\ b.todo = arg[t].todo \ {u} /\ b.emoji = e
      /\ b.valid = arg[t].valid /\ b.on = arg[t].on /\ b.me = arg[t].me
      /\ b.had = arg[t].had
  BY <1>3, <1>4 DEF Locals
<1>6. FixNext(t, b) /\ pc[t] \in FixLabels
  BY <1>1, <1>2 DEF FixLabels
<1>. HIDE DEF b
<1>7. /\ reacted \subseteq Pairs /\ pending \in [Events -> Nat]
      /\ <<u, e>> \in Pairs /\ <<"remove", <<u, e>>>> \in Events
  BY <1>4, PairIs DEF Typed, DiscordTypes, Pairs
<1>8. /\ reacted' = reacted \ {<<u, e>>}
      /\ pending' = pending \/ pending' = [pending EXCEPT ![<<"remove", <<u, e>>>>] = @ + 1]
  BY <1>2, <1>3 DEF MessageReactionRemove, Unreacts, Arrive
<1>9. \A q \in Pairs :
          /\ pending'[<<"add", q>>] = pending[<<"add", q>>]
          /\ q # <<u, e>> => pending'[<<"remove", q>>] = pending[<<"remove", q>>]
  BY <1>7, <1>8, PairIs
<1>10. OnlyRemovals(t)' /\ \A q \in Pairs : Leaving(q)' => Leaving(q) \/ q = <<u, e>>
  BY <1>1, <1>4, <1>5, <1>6, <1>9, FixNextOwn
<1>11. /\ Snapshot(arg[t]) /\ Knows(arg[t]) /\ Sorted(arg[t], arg[t].had)
  BY <1>1 DEF CalmFix, Walks
<1>12. <<u, rows[e].role>> \notin arg[t].had /\ (u = Bot => ~Configured(e))
  BY <1>3, <1>11 DEF Sorted
<1>13. PICK c : c = b
  OBVIOUS
<1>14. PICK g : g = arg[t].had
  OBVIOUS
<1>15. Snapshot(c)'
  BY <1>1, <1>5, <1>11, <1>13 DEF Snapshot
<1>16. Knows(c)'
  <2>. SUFFICES ASSUME NEW f \in Emojis, Configured(f)
                PROVE  f \in arg[t].me <=> <<Bot, f>> \in reacted'
    BY <1>1, <1>5, <1>13 DEF Knows, Configured
  <2>1. <<Bot, f>> # <<u, e>>
    BY <1>12
  <2>. QED  BY <1>8, <1>11, <2>1 DEF Knows
<1>17. Sorted(c, g)'
  <2>1. g \subseteq has'
    BY <1>1, <1>11, <1>14 DEF Sorted
  <2>2. ASSUME NEW v \in Reactors, NEW f \in Emojis, <<v, f>> \in reacted', ~Left(c, v, f)',
               f \notin cut'
        PROVE  Configured(f)' /\ (v = Bot \/ <<v, rows'[f].role>> \in g)
    <3>1. <<v, f>> \in reacted /\ ~(v = u /\ f = e)
      BY <1>8, <2>2
    <3>2. ~Left(arg[t], v, f)
      BY <1>3, <1>5, <1>13, <2>2, <3>1 DEF Left
    <3>. QED  BY <1>1, <1>11, <1>14, <2>2, <3>1, <3>2 DEF Sorted, Configured
  <2>3. ASSUME NEW p \in Pairs, Leaving(p)'
        PROVE  <<p[1], rows'[p[2]].role>> \notin g
    <3>1. CASE Leaving(p)
      BY <1>1, <1>11, <1>14, <3>1 DEF Sorted
    <3>2. CASE p = <<u, e>>
      BY <1>1, <1>12, <1>14, <3>2
    <3>. QED  BY <1>10, <2>3, <3>1, <3>2
  <2>4. \A v \in c.todo : /\ <<v, rows'[c.emoji].role>> \notin g
                          /\ v = Bot => ~Configured(c.emoji)'
    BY <1>1, <1>3, <1>5, <1>11, <1>13, <1>14 DEF Sorted, Configured
  <2>. QED  BY <2>1, <2>2, <2>3, <2>4 DEF Sorted
<1>18. Good(c, g)'
  BY <1>5, <1>13, <1>14, <1>15, <1>16, <1>17 DEF Good
<1>. QED  BY <1>4, <1>5, <1>6, <1>10, <1>13, <1>18

LEMMA BotGood ==
    ASSUME Typed, NEW t \in Handlers, CalmFix(t), FixBot(t), ~Fault
    PROVE  \E b \in Locals : \E h :
              /\ b.todo # {} => b.emoji \in Emojis
              /\ FixNext(t, b) /\ OnlyRemovals(t)' /\ Good(b, h)'
<1>1. pc[t] = "fixBot" /\ UNCHANGED <<rows, has, pending, wiping, cut>>
  BY DEF FixBot, NoFault
<1>2. PICK e \in Missing(arg[t]) : /\ MessageReactionAdd(e)
                                   /\ FixNext(t, [arg[t] EXCEPT !.me = @ \cup {e}])
  BY DEF FixBot
<1>. DEFINE b == [arg[t] EXCEPT !.me = @ \cup {e}]
<1>3. arg[t] \in Locals /\ arg[t].todo = {} /\ e \in Emojis /\ arg[t].valid[e] # None
      /\ rows \in [Emojis -> Row \cup {NoRow}]
  BY <1>1 DEF Typed, ThreadTypes, RowTypes, Fits, Missing
<1>4. /\ b \in Locals /\ b.todo = {} /\ b.on = arg[t].on /\ b.emoji = arg[t].emoji
      /\ b.valid = arg[t].valid /\ b.me = arg[t].me \cup {e}
  BY <1>3 DEF Locals
<1>5. FixNext(t, b) /\ pc[t] \in FixLabels
  BY <1>1, <1>2 DEF FixLabels
<1>. HIDE DEF b
<1>6. reacted' = reacted \cup {<<Bot, e>>}
  BY <1>2 DEF MessageReactionAdd
<1>7. OnlyRemovals(t)' /\ \A q \in Pairs : Leaving(q)' => Leaving(q)
  BY <1>1, <1>4, <1>5, FixNextOwn
<1>8. PICK h : Snapshot(arg[t]) /\ Knows(arg[t]) /\ Sorted(arg[t], h)
  BY <1>1 DEF CalmFix, Walks
<1>9. Configured(e)
  BY <1>3, <1>8 DEF Snapshot, Configured, NoRow
<1>10. PICK c : c = b
  OBVIOUS
<1>11. Snapshot(c)'
  BY <1>1, <1>4, <1>8, <1>10 DEF Snapshot
<1>12. Knows(c)'
  BY <1>1, <1>4, <1>6, <1>8, <1>10 DEF Knows, Configured
<1>13. Sorted(c, h)'
  <2>1. h \subseteq has'
    BY <1>1, <1>8 DEF Sorted
  <2>2. ASSUME NEW v \in Reactors, NEW f \in Emojis, <<v, f>> \in reacted', ~Left(c, v, f)',
               f \notin cut'
        PROVE  Configured(f)' /\ (v = Bot \/ <<v, rows'[f].role>> \in h)
    <3>1. CASE v = Bot /\ f = e
      BY <1>1, <1>9, <3>1 DEF Configured
    <3>2. CASE ~(v = Bot /\ f = e)
      <4>1. <<v, f>> \in reacted /\ ~Left(arg[t], v, f)
        BY <1>3, <1>4, <1>6, <1>10, <2>2, <3>2 DEF Left
      <4>. QED  BY <1>1, <1>8, <2>2, <4>1 DEF Sorted, Configured
    <3>. QED  BY <3>1, <3>2
  <2>3. \A p \in Pairs : Leaving(p)' => <<p[1], rows'[p[2]].role>> \notin h
    BY <1>1, <1>7, <1>8 DEF Sorted
  <2>. QED  BY <1>4, <1>10, <2>1, <2>2, <2>3 DEF Sorted
<1>14. arg[t].on = {}
  BY <1>1 DEF CalmFix
<1>15. Good(c, h)'
  BY <1>4, <1>10, <1>11, <1>12, <1>13, <1>14 DEF Good
<1>. QED  BY <1>4, <1>5, <1>7, <1>10, <1>15

LEMMA PagesGood ==
    ASSUME Typed, NEW t \in Handlers, CalmFix(t), FixPages(t), ~Fault
    PROVE  /\ pc[t] \in FixLabels
           /\ \E b \in Locals : \E h :
                 /\ b.todo # {} => b.emoji \in Emojis
                 /\ FixNext(t, b) /\ OnlyRemovals(t)' /\ Good(b, h)'
<1>1. pc[t] \in FixLabels
  BY DEF FixPages, FixMembers, FixUsers, FixRemove, FixBot, FixLabels
<1>. QED  BY <1>1, MembersGood, UsersGood, RemoveGood, BotGood DEF FixPages

\* Up to the members nothing else runs at all.
LEMMA EarlyCalm ==
    ASSUME Typed, NEW t \in Handlers, CalmFix(t), ~Fault,
           CheckCommand(t) \/ FixList(t) \/ FixMessage(t), pc[t] \in FixLabels
    PROVE  pc'[t] \in FixLabels => CalmFix(t)'
<1>1. UNCHANGED <<rows, reacted, has, pending, wiping>>
  BY DEF CheckCommand, FixList, FixMessage, discord
<1>2. pc[t] \in {"fixEnabled", "fixList", "fixMessage"} /\ ThreadTypes /\ arg[t] \in Locals
  BY DEF CheckCommand, FixList, FixMessage, Typed, ThreadTypes, FixLabels
<1>3. \A p \in Pairs : ~Leaving(p)
  BY <1>2 DEF CalmFix, Alone
<1>4. ASSUME NEW l \in {"fixList", "fixMessage", "fixMembers", "idle"}, NEW b, Moves(t, l, b),
             l \in {"fixMessage", "fixMembers"} => Snapshot(b),
             l = "fixMembers" => /\ b.on = {p[2] : p \in reacted}
                                 /\ b.me = {e \in Emojis : <<Bot, e>> \in reacted}
      PROVE  pc'[t] \in FixLabels => CalmFix(t)'
  <2>1. l \in FixLabels \cup {"idle"} /\ l \notin Walks
    BY DEF FixLabels, Walks
  <2>2. /\ pc'[t] = l /\ arg'[t] = b /\ OnlyRemovals(t)'
        /\ \A q \in Pairs : ~Leaving(q)'
    BY <1>1, <1>3, <1>4, <2>1, OwnMoves
  <2>3. l \in {"fixMessage", "fixMembers"} => Snapshot(arg[t])'
    BY <1>1, <1>4, <2>2 DEF Snapshot
  <2>. QED  BY <1>1, <1>4, <2>1, <2>2, <2>3 DEF CalmFix, Walks
<1>5. CASE Goto(t, "idle")
  BY <1>4, <1>5, GotoIdle
<1>6. CASE CheckCommand(t)
  <2>1. Goto(t, "fixList") \/ Goto(t, "idle")
    BY <1>2, <1>6 DEF CheckCommand
  <2>2. CASE Goto(t, "fixList")
    <3>1. Moves(t, "fixList", arg[t])
      BY <1>2, <2>2, GotoOn
    <3>2. PICK b : b = arg[t]
      OBVIOUS
    <3>. QED  BY <1>4, <3>1, <3>2
  <2>. QED  BY <1>5, <2>1, <2>2
<1>7. CASE FixList(t)
  <2>1. CASE /\ pc' = [pc EXCEPT ![t] = "fixMessage"]
             /\ arg' = [arg EXCEPT ![t].valid = [e \in Emojis |-> rows[e].role]]
    <3>. DEFINE v == [e \in Emojis |-> rows[e].role]
                a == [arg[t] EXCEPT !.valid = v]
    <3>1. Moves(t, "fixMessage", a)
      BY <1>2, <2>1 DEF Moves, ThreadTypes
    <3>2. a.valid = v
      <4>. HIDE DEF v
      <4>. QED  BY <1>2 DEF Locals
    <3>3. Snapshot(a)
      BY <3>2 DEF Snapshot
    <3>. HIDE DEF a
    <3>4. PICK b : b = a
      OBVIOUS
    <3>. QED  BY <1>4, <3>1, <3>3, <3>4
  <2>. QED  BY <1>5, <1>7, <2>1 DEF FixList
<1>8. CASE FixMessage(t)
  <2>1. CASE /\ pc' = [pc EXCEPT ![t] = "fixMembers"]
             /\ arg' = [arg EXCEPT ![t].on = {p[2] : p \in reacted},
                                   ![t].me = {e \in Emojis : <<Bot, e>> \in reacted}]
    <3>. DEFINE on == {p[2] : p \in reacted}
                me == {e \in Emojis : <<Bot, e>> \in reacted}
                a  == [arg[t] EXCEPT !.on = on, !.me = me]
    <3>1. Moves(t, "fixMembers", a)
      BY <1>2, <2>1 DEF Moves, ThreadTypes
    <3>2. a.on = on /\ a.me = me /\ a.valid = arg[t].valid
      <4>. HIDE DEF on, me
      <4>. QED  BY <1>2 DEF Locals
    <3>3. Snapshot(a)
      BY <1>8, <3>2 DEF Snapshot, CalmFix, FixMessage
    <3>. HIDE DEF a
    <3>4. PICK b : b = a
      OBVIOUS
    <3>. QED  BY <1>4, <3>1, <3>2, <3>3, <3>4
  <2>. QED  BY <1>5, <1>8, <2>1 DEF FixMessage
<1>. QED  BY <1>6, <1>7, <1>8

\* A fix begins while nothing is under way.
LEMMA CommandCalm ==
    ASSUME Typed, NEW s \in Handlers, NEW l, NEW e, NEW r, Command(s, l, e, r),
           NEW t \in Handlers, calm' = t
    PROVE  pc'[t] \in FixLabels => CalmFix(t)'
<1>1. l = "fixEnabled" /\ Quiet /\ s = t
  BY Names DEF Command
<1>2. /\ Moves(t, "fixEnabled", Blank)
      /\ UNCHANGED <<rows, reacted, has, pending, wiping>>
  BY <1>1 DEF Command, Moves, discord
<1>3. /\ pc'[t] = "fixEnabled"
      /\ \A q \in Handlers \ {t} : pc'[q] = "idle"
  BY <1>1, <1>2, MovesOthers DEF Typed, Quiet
<1>4. \A p \in Pairs : pending'[<<"add", p>>] = 0 /\ pending'[<<"remove", p>>] = 0
  BY <1>1, <1>2, PairIs DEF Quiet
<1>5. OnlyRemovals(t)'
  BY <1>1, <1>2, <1>3, <1>4 DEF OnlyRemovals, Quiet
<1>6. \A p \in Pairs : ~Leaving(p)'
  <2>1. \A q \in Handlers : pc'[q] \notin {"lookup", "revoke"}
    BY <1>3
  <2>2. ASSUME NEW p \in Pairs PROVE ~(pending'[<<"remove", p>>] > 0)
    <3>1. pending'[<<"remove", p>>] = 0
      BY <1>4
    <3>2. ~(0 > 0)
      OBVIOUS
    <3>. QED  BY <3>1, <3>2
  <2>. QED  BY <2>1, <2>2, Zenon DEF Leaving
<1>. QED  BY <1>3, <1>5, <1>6 DEF CalmFix, Walks

LEMMA NoFaultIsCalm ==
    ASSUME NEW t \in Handlers, calm' = t
    PROVE  ~Fault
BY Names DEF Fault

LEMMA FixKept ==
    ASSUME Typed, NEW t \in Handlers, CalmFix(t), pc[t] \in FixLabels, calm' = t,
           HandleInteraction(t), pc'[t] \in FixLabels
    PROVE  CalmFix(t)'
<1>1. CASE FixPages(t)
  BY <1>1, NoFaultIsCalm, PagesGood, FixGoesOn
<1>2. CASE CheckCommand(t) \/ FixList(t) \/ FixMessage(t)
  BY <1>2, NoFaultIsCalm, EarlyCalm
<1>3. ~(AddExists(t) \/ AddCreate(t) \/ AddReact(t) \/ Undo(t) \/ RemoveFind(t) \/ RemoveRow(t) \/ Unreact(t))
  BY FixParts DEF AddExists, AddCreate, AddReact, Undo, RemoveFind, RemoveRow, Unreact, AddRemove
<1>. QED  BY <1>1, <1>2, <1>3 DEF HandleInteraction, FixPages

LEMMA CalmKept == Typed /\ CalmInv /\ [Next]_vars => CalmInv'
<1>. SUFFICES ASSUME Typed, CalmInv, [Next]_vars, NEW t \in Handlers, calm' = t, pc'[t] \in FixLabels
              PROVE  CalmFix(t)'
  BY DEF CalmInv
<1>0. ~Fault /\ calm' # None /\ (calm = t /\ pc[t] \in FixLabels => CalmFix(t)) /\ ThreadTypes
  BY NoFaultIsCalm, Names DEF CalmInv, Typed
<1>1. ASSUME NEW u, NEW e, UserReacts(u, e) PROVE FALSE
  BY <1>0, <1>1 DEF UserReacts
<1>2. ASSUME NEW p, UserUnreacts(p) PROVE FALSE
  BY <1>0, <1>2 DEF UserUnreacts
<1>3. ASSUME NEW u, NEW r, RoleByHand(u, r) PROVE FALSE
  BY <1>0, <1>3 DEF RoleByHand
<1>4. ASSUME NEW s \in Handlers, NEW k \in Kinds, NEW p \in Pairs, StartEvent(s, k, p)
      PROVE  CalmFix(t)'
  <2>1. calm = t
    BY <1>0, <1>4 DEF StartEvent, NoFault
  <2>2. pc[t] \in FixLabels
    <3>1. pc' = pc \/ pc' = [pc EXCEPT ![s] = "lookup"]
      BY <1>4 DEF StartEvent, threads
    <3>. QED  BY <1>0, <3>1 DEF ThreadTypes, FixLabels
  <2>. QED  BY <1>0, <1>4, <2>1, <2>2, StartCalm
<1>5. ASSUME NEW s \in Handlers, NEW l, NEW e, NEW r, Command(s, l, e, r)
      PROVE  CalmFix(t)'
  BY <1>5, CommandCalm
<1>6. ASSUME NEW s \in Handlers, HandleReaction(s)
      PROVE  CalmFix(t)'
  <2>1. calm = t
    BY <1>0, <1>6 DEF HandleReaction, Lookup, Assign, Revert, Revoke, NoFault
  <2>2. pc[t] \in FixLabels
    <3>1. PICK l \in EventLabels \cup {"idle"}, b \in Locals : Moves(s, l, b)
      BY <1>6, ReactionMoves
    <3>. QED  BY <1>0, <3>1, MovesOthers, FixParts
  <2>. QED  BY <1>0, <1>6, <2>1, <2>2, ReactionCalm
<1>7. ASSUME NEW s \in Handlers, HandleInteraction(s)
      PROVE  CalmFix(t)'
  <2>1. calm = t
    BY <1>0, <1>7 DEF HandleInteraction, CheckCommand, AddExists, AddCreate, AddReact, Undo, RemoveFind,
       RemoveRow, Unreact, FixList, FixMessage, FixMembers, FixUsers, FixRemove, FixBot, NoFault
  <2>2. /\ pc[s] \in AddRemove \cup FixLabels
        /\ pc[s] \in AddRemove => pc'[s] \in AddRemove \cup {"idle"}
        /\ \A r \in Handlers \ {s} : pc'[r] = pc[r]
    <3>1. CASE FixSteps(s)
      <4>1. PICK l \in FixLabels \cup {"idle"}, b \in Locals : Moves(s, l, b)
        BY <3>1, FixMoves
      <4>. QED  BY <1>0, <3>1, <4>1, FixMoves, MovesOthers, FixParts
    <3>2. CASE AddRemoveSteps(s)
      <4>1. PICK l \in AddRemove \cup {"fixList", "idle"}, b \in Locals : Moves(s, l, b)
        BY <3>2, AddRemoveMoves
      <4>2. pc[s] \in AddRemove \cup {"fixEnabled"}
        BY <3>2, AddRemoveMoves
      <4>3. pc[s] \in AddRemove => pc' # [pc EXCEPT ![s] = "fixList"]
        <5>. SUFFICES ASSUME pc[s] \in AddRemove, pc' = [pc EXCEPT ![s] = "fixList"] PROVE FALSE
          OBVIOUS
        <5>1. pc'[s] = "fixList" /\ pc[s] # "fixEnabled"
          BY <1>0 DEF ThreadTypes, AddRemove
        <5>. QED  BY <1>0, <3>2, <5>1 DEF ThreadTypes, AddRemoveSteps, CheckCommand, AddExists, AddCreate, AddReact,
                     Undo, RemoveFind, RemoveRow, Unreact, Goto
      <4>. QED  BY <1>0, <4>1, <4>2, <4>3, MovesOthers DEF Moves, FixLabels
    <3>. QED  BY <1>7, <3>1, <3>2, InteractionIs
  <2>3. CASE s = t
    BY <1>0, <1>7, <2>1, <2>2, <2>3, FixKept, FixParts
  <2>4. CASE s # t
    <3>1. pc[t] \in FixLabels /\ CalmFix(t)
      BY <1>0, <2>1, <2>2, <2>4
    <3>2. pc[s] \in {"idle", "lookup", "revoke"}
      BY <2>4, <3>1 DEF CalmFix, OnlyRemovals
    <3>. QED  BY <2>2, <3>2 DEF AddRemove, FixLabels
  <2>. QED  BY <2>3, <2>4
<1>8. ~(Enable \/ Disable \/ Crash)
  BY <1>0 DEF Enable, Disable, Crash
<1>9. CASE Wipe
  <2>1. calm = t /\ pc[t] \in FixLabels /\ wiping > 0
    BY <1>0, <1>9 DEF Wipe, NoFault, threads
  <2>. QED  BY <1>0, <2>1 DEF CalmFix, OnlyRemovals
<1>10. CASE UNCHANGED vars
  <2>1. /\ UNCHANGED <<pc, arg, rows, reacted, has, pending, wiping, cut>>
        /\ calm = t /\ pc[t] \in FixLabels /\ CalmFix(t)
    BY <1>0, <1>10 DEF vars, discord, threads, history
  <2>2. OnlyRemovals(t)'
    BY <2>1 DEF OnlyRemovals, CalmFix
  <2>3. \A p \in Pairs : Leaving(p)' => Leaving(p)
    BY <2>1 DEF Leaving, Pair
  <2>. QED  BY <2>1, <2>2, <2>3, OthersKeep
<1>. QED  BY <1>1, <1>2, <1>3, <1>4, <1>5, <1>6, <1>7, <1>8, <1>9, <1>10 DEF Next, Kinds

\* Failures are counted.
LEMMA FaultsKept == faults \in Nat /\ [Next]_vars => faults' \in Nat
<1>. SUFFICES ASSUME faults \in Nat, [Next]_vars PROVE faults' \in Nat
  OBVIOUS
<1>1. ASSUME NoFault \/ Fault \/ Request \/ UNCHANGED budget PROVE faults' \in Nat
  BY <1>1 DEF NoFault, Fault, Request, budget
<1>2. ASSUME NEW t \in Handlers, HandleReaction(t) PROVE faults' \in Nat
  BY <1>1, <1>2 DEF HandleReaction, Lookup, Assign, Revert, Revoke
<1>3. ASSUME NEW t \in Handlers, AddRemoveSteps(t) PROVE faults' \in Nat
  BY <1>1, <1>3 DEF AddRemoveSteps, CheckCommand, AddExists, AddCreate, AddReact, Undo,
       RemoveFind, RemoveRow, Unreact
<1>4. ASSUME NEW t \in Handlers, FixSteps(t) PROVE faults' \in Nat
  BY <1>1, <1>4 DEF FixSteps, FixList, FixMessage, FixMembers, FixUsers, FixRemove, FixBot
<1>5. ASSUME NEW t, NEW k, NEW p, StartEvent(t, k, p) PROVE faults' \in Nat
  BY <1>1, <1>5 DEF StartEvent
<1>6. ASSUME NEW t \in Handlers, NEW l, NEW e, NEW r, Command(t, l, e, r) PROVE faults' \in Nat
  BY <1>1, <1>6 DEF Command
<1>7. ASSUME NEW u, NEW e, UserReacts(u, e) \/ RoleByHand(u, e) \/ UserUnreacts(e) PROVE faults' \in Nat
  BY <1>1, <1>7 DEF UserReacts, UserUnreacts, RoleByHand
<1>8. CASE Enable \/ Disable \/ Wipe \/ Crash
  BY <1>1, <1>8 DEF Enable, Disable, Wipe, Crash
<1>9. CASE UNCHANGED vars
  BY <1>1, <1>9 DEF vars
<1>. QED  BY <1>2, <1>3, <1>4, <1>5, <1>6, <1>7, <1>8, <1>9, InteractionIs DEF Next

FixInv == TypeInv /\ CalmInv /\ faults \in Nat

\* The last call of a fix that nothing has disturbed.
FixStep == \A t \in Handlers : FixEnds(t) => TidyBut(cut)'

LEMMA FixTidies == FixInv /\ [Next]_vars => FixStep
<1>. SUFFICES ASSUME FixInv, [Next]_vars, NEW t \in Handlers, calm = t, pc'[t] = "idle",
                     pc[t] \in {"fixMembers", "fixUsers", "fixRemove", "fixBot"},
                     faults' = faults
              PROVE  TidyBut(cut)'
  BY DEF FixStep, FixEnds
<1>0. /\ Typed /\ Typed' /\ ThreadTypes /\ pc[t] \in FixLabels /\ pc'[t] # pc[t] /\ CalmFix(t)
      /\ ~Fault
  BY NextTyped DEF FixInv, TypeInv, CalmInv, Typed, FixLabels, Fault
<1>1. FixPages(t)
  <2>1. ~UNCHANGED pc
    BY <1>0
  <2>2. ASSUME NEW s \in Handlers, NEW l, s # t, pc' = [pc EXCEPT ![s] = l] PROVE FALSE
    BY <1>0, <2>2 DEF ThreadTypes
  <2>3. ASSUME NEW s \in Handlers, NEW k, NEW p, StartEvent(s, k, p) PROVE FALSE
    <3>1. s # t
      BY <1>0, <2>3, FixParts DEF StartEvent
    <3>. QED  BY <2>1, <2>2, <2>3, <3>1 DEF StartEvent, threads
  <2>4. ASSUME NEW s \in Handlers, NEW l, NEW e, NEW r, Command(s, l, e, r) PROVE FALSE
    BY <1>0, <2>2, <2>4, FixParts DEF Command
  <2>5. ASSUME NEW s \in Handlers, HandleReaction(s) PROVE FALSE
    <3>1. PICK l \in EventLabels \cup {"idle"}, b \in Locals : Moves(s, l, b) /\ pc[s] \in EventLabels
      BY <1>0, <2>5, ReactionMoves
    <3>. QED  BY <1>0, <2>2, <3>1, FixParts DEF Moves
  <2>6. ASSUME NEW s \in Handlers, HandleInteraction(s) PROVE s = t
    <3>1. CASE FixSteps(s)
      BY <1>0, <2>2, <3>1, FixMoves DEF Moves
    <3>2. CASE AddRemoveSteps(s)
      BY <1>0, <2>2, <3>2, AddRemoveMoves DEF Moves
    <3>. QED  BY <2>6, <3>1, <3>2, InteractionIs
  <2>7. ~(Enable \/ Disable \/ Wipe \/ UNCHANGED vars)
    BY <2>1 DEF Enable, Disable, Wipe, vars, threads
  <2>8. \A u, e : ~UserReacts(u, e) /\ ~RoleByHand(u, e) /\ ~UserUnreacts(e)
    BY <2>1 DEF UserReacts, UserUnreacts, RoleByHand, threads
  <2>9. ~Crash
    BY <1>0 DEF Crash
  <2>10. HandleInteraction(t)
    BY <2>3, <2>4, <2>5, <2>6, <2>7, <2>8, <2>9 DEF Next
  <2>. QED  BY <2>10 DEF HandleInteraction, FixPages, CheckCommand, AddExists, AddCreate, AddReact,
                Undo, RemoveFind, RemoveRow, Unreact, FixList, FixMessage
<1>2. PICK b \in Locals : \E h : FixNext(t, b) /\ Good(b, h)'
  BY <1>0, <1>1, PagesGood
<1>3. PICK h : FixNext(t, b) /\ Good(b, h)'
  BY <1>2
<1>. QED  BY <1>0, <1>3, LastCall

\* FixRestores: a fix that nobody disturbs and no call of which fails leaves every
\* configured emoji with the bot's reaction and, among the emojis whose users fit
\* into one page, no reaction with another one or of somebody without the role,
\* though the roles of those it unreacts are taken by other goroutines while it
\* goes on.
THEOREM FixCorrect == Spec => FixRestores
<1>1. Init => FixInv
  <2>1. Init => TypeInv
    BY InitTyped, InitFlags DEF TypeInv
  <2>2. Init => CalmInv
    BY Names DEF Init, CalmInv
  <2>3. Init => faults \in Nat
    BY DEF Init
  <2>. QED  BY <2>1, <2>2, <2>3 DEF FixInv
<1>2. FixInv /\ [Next]_vars => FixInv'
  BY NextTyped, FlagsKept, CalmKept, FaultsKept DEF FixInv, TypeInv
<1>3. FixInv /\ [Next]_vars => [FixStep]_vars
  BY FixTidies
<1>4. FixStep <=> \A t \in Handlers : FixEnds(t) => TidyBut(cut)'
  BY DEF FixStep
<1>. QED  BY <1>1, <1>2, <1>3, <1>4, PTL DEF Spec, FixRestores
=============================================================================
